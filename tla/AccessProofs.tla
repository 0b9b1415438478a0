----------------------------- MODULE AccessProofs -----------------------------
(***************************************************************************)
(* However many attempts to log in are under way, the counter of a         *)
(* username stays within the limit and the attempts that were already past *)
(* its check, for any number of clients, users and connections and for     *)
(* every auth_mode.                                                        *)
(***************************************************************************)
EXTENDS Access, FiniteSetTheorems, TLAPS

Requested == request \in [Clients -> Requests]

LEMMA IdleType == Idle \in Requests
  BY AccessAssumption DEF Idle, Requests, Pcs

\* What Go does to the requests.
LEMMA GoKeeps ==
  ASSUME Requested, NEW c \in Clients, NEW pc \in Pcs, Go(c, pc)
  PROVE  /\ Requested'
         /\ request'[c].pc = pc /\ request'[c].user = request[c].user
         /\ request'[c].on = request[c].on
         /\ \A d \in Clients \ {c} : request'[d] = request[d]
<1> DEFINE r == [request[c] EXCEPT !.pc = pc]
<1>1. r \in Requests /\ r.pc = pc /\ r.user = request[c].user /\ r.on = request[c].on
  BY DEF Requested, Requests
<1>2. request' = [request EXCEPT ![c] = r]
  BY DEF Go, Requested
<1> HIDE DEF r
<1> QED  BY <1>1, <1>2 DEF Requested

\* What Done and Call do: they put a request in the place of another.
LEMMA PutKeeps ==
  ASSUME Requested, NEW c \in Clients, NEW r \in Requests,
         request' = [request EXCEPT ![c] = r]
  PROVE  /\ Requested'
         /\ request'[c] = r
         /\ \A d \in Clients \ {c} : request'[d] = request[d]
  BY DEF Requested

LEMMA DoneIdle ==
  ASSUME Requested, NEW c \in Clients, Done(c)
  PROVE  request'[c].pc = "idle"
<1>1. Idle.pc = "idle"
  BY DEF Idle
<1>2. request'[c] = Idle
  BY IdleType, PutKeeps DEF Done
<1> QED  BY <1>1, <1>2

-----------------------------------------------------------------------------
(* Types *)

Known == account \in [Users -> {NoAccount} \cup Accounts]

LEMMA RoleType ==
  ASSUME Known, NEW u \in Users
  PROVE  account[u].role \in Roles \cup {"none"}
<1>1. account[u] \in {NoAccount} \cup Accounts
  BY DEF Known
<1>2. NoAccount.role = "none"
  BY DEF NoAccount
<1>3. ASSUME NEW a \in Accounts PROVE a.role \in Roles
  BY DEF Accounts
<1> QED  BY <1>1, <1>2, <1>3

LEMMA AsType ==
  ASSUME Known, NEW c \in Clients, session[c] \in Users, NEW pc \in Pcs
  PROVE  As(c, pc) \in Requests /\ As(c, pc).pc = pc /\ As(c, pc).user = session[c]
<1>1. account[session[c]].role \in Roles \cup {"none"}
  BY RoleType
<1>2. ASSUME NEW r \in Requests, NEW x \in Roles \cup {"none"}
      PROVE  LET s == [r EXCEPT !.pc = pc, !.user = session[c], !.role = x]
             IN  s \in Requests /\ s.pc = pc /\ s.user = session[c]
  BY DEF Requests
<1> QED  BY <1>1, <1>2, IdleType DEF As

\* What a client may begin with.
Askable(r) ==
    \/ r.pc = "verify" /\ r.user \in Users /\ failures[r.user] < MaxAttempts
    \/ r.pc = "create" /\ r.to \in Roles
    \/ r.pc = "find" /\ r.user \in Users
    \/ r.pc \in {"clearAll", "clearOthers"} /\ r.on = TRUE
    \/ r.pc \in {"insert", "put", "fallback"}

\* The request a client sends is one of the type, whatever it asks.
LEMMA CallType ==
  ASSUME TypeOK, NEW c \in Clients,
         \/ LoginCheck(c) \/ AskUpdate(c) \/ AskCreate(c)
         \/ AskCreateConnection(c) \/ AskUpdateConnection(c) \/ FindNone(c)
  PROVE  \E r \in Requests : Call(c, r) /\ Askable(r)
<1> Known
  BY DEF TypeOK, Known
<1>1. ASSUME LoginCheck(c)
      PROVE  \E r \in Requests : Call(c, r) /\ Askable(r)
  <2>1. PICK u \in Users : /\ failures[u] < MaxAttempts
                           /\ Call(c, [Idle EXCEPT !.pc = "verify", !.user = u])
    BY <1>1 DEF LoginCheck
  <2> DEFINE r == [Idle EXCEPT !.pc = "verify", !.user = u]
  <2>2. r \in Requests /\ r.pc = "verify" /\ r.user = u
    BY IdleType DEF Requests, Pcs
  <2>3. Call(c, r)
    BY <2>1
  <2> HIDE DEF r
  <2> QED  BY <2>1, <2>2, <2>3 DEF Askable
<1>2. ASSUME NEW roles, Allowed(c, roles), NEW pc \in Pcs
      PROVE  As(c, pc) \in Requests /\ As(c, pc).pc = pc /\ As(c, pc).user \in Users
  BY <1>2, AsType DEF Allowed, SignedIn, TypeOK
<1> Pcs = {"idle", "verify", "open", "audit", "refused", "find", "update", "create",
           "clearAll", "clearOthers", "insert", "put", "fallback", "mark", "wipe",
           "make", "failed"}
  BY DEF Pcs
<1>3. ASSUME AskUpdate(c)
      PROVE  \E r \in Requests : Call(c, r) /\ Askable(r)
  <2>1. ASSUME NEW r \in Requests, NEW t \in Users, NEW p \in Patches
        PROVE  LET q == [r EXCEPT !.target = t, !.to = p.to, !.on = p.on]
               IN  q \in Requests /\ q.pc = r.pc /\ q.user = r.user
    <3>1. p.to \in Roles \cup {Keep} /\ p.on \in BOOLEAN \cup {Keep}
      BY AccessAssumption
    <3> QED  BY <3>1 DEF Requests
  <2>2. /\ As(c, "find") \in Requests /\ As(c, "find").pc = "find"
        /\ As(c, "find").user \in Users
    BY <1>2, <1>3 DEF AskUpdate
  <2>3. PICK t \in Users, p \in Patches :
            Call(c, [As(c, "find") EXCEPT !.target = t, !.to = p.to, !.on = p.on])
    BY <1>3 DEF AskUpdate
  <2> DEFINE q == [As(c, "find") EXCEPT !.target = t, !.to = p.to, !.on = p.on]
  <2>4. q \in Requests /\ q.pc = "find" /\ q.user \in Users
    BY <2>1, <2>2
  <2>5. Call(c, q)
    BY <2>3
  <2> HIDE DEF q
  <2> QED  BY <2>4, <2>5 DEF Askable
<1>4. ASSUME AskCreate(c)
      PROVE  \E r \in Requests : Call(c, r) /\ Askable(r)
  <2>1. ASSUME NEW r \in Requests, NEW t \in Users, NEW to \in Roles
        PROVE  LET q == [r EXCEPT !.target = t, !.to = to]
               IN  q \in Requests /\ q.pc = r.pc /\ q.to = to
    BY DEF Requests
  <2>2. As(c, "create") \in Requests /\ As(c, "create").pc = "create"
    BY <1>2, <1>4 DEF AskCreate
  <2>3. PICK t \in Users, to \in Roles :
            Call(c, [As(c, "create") EXCEPT !.target = t, !.to = to])
    BY <1>4 DEF AskCreate
  <2> DEFINE q == [As(c, "create") EXCEPT !.target = t, !.to = to]
  <2>4. q \in Requests /\ q.pc = "create" /\ q.to = to
    <3> DEFINE r == As(c, "create")
    <3>1. r \in Requests /\ r.pc = "create"
      BY <2>2
    <3> HIDE DEF r
    <3>2. LET p == [r EXCEPT !.target = t, !.to = to]
          IN  p \in Requests /\ p.pc = r.pc /\ p.to = to
      BY <2>1, <3>1
    <3> QED  BY <3>1, <3>2 DEF r
  <2>5. Call(c, q)
    BY <2>3
  <2> HIDE DEF q
  <2> QED  BY <2>4, <2>5 DEF Askable
<1>5. ASSUME NEW r \in Requests, NEW n \in Names, NEW on \in BOOLEAN \cup {Keep}
      PROVE  LET q == [r EXCEPT !.name = n, !.on = on]
             IN  q \in Requests /\ q.pc = r.pc /\ q.on = on
  BY DEF Requests
<1>6. ASSUME AskCreateConnection(c)
      PROVE  \E r \in Requests : Call(c, r) /\ Askable(r)
  <2>1. PICK n \in Names, on \in BOOLEAN \cup {Keep} :
            /\ on \in BOOLEAN
            /\ Call(c, [As(c, IF on THEN "clearAll" ELSE "insert")
                          EXCEPT !.name = n, !.on = on])
    BY <1>6 DEF AskCreateConnection
  <2> DEFINE pc == IF on THEN "clearAll" ELSE "insert"
  <2>2. pc \in Pcs /\ ((pc = "clearAll" /\ on = TRUE) \/ pc = "insert")
    OBVIOUS
  <2> HIDE DEF pc
  <2>3. As(c, pc) \in Requests /\ As(c, pc).pc = pc
    BY <1>2, <1>6, <2>2 DEF AskCreateConnection
  <2> DEFINE q == [As(c, pc) EXCEPT !.name = n, !.on = on]
  <2>4. Call(c, q)
    BY <2>1 DEF pc
  <2>5. q \in Requests /\ q.pc = pc /\ q.on = on
    <3> DEFINE r == As(c, pc)
    <3>1. r \in Requests /\ r.pc = pc
      BY <2>3
    <3> HIDE DEF r
    <3>2. LET p == [r EXCEPT !.name = n, !.on = on]
          IN  p \in Requests /\ p.pc = r.pc /\ p.on = on
      BY <1>5, <3>1
    <3> QED  BY <3>1, <3>2 DEF r
  <2> HIDE DEF q
  <2> QED  BY <2>2, <2>4, <2>5 DEF Askable
<1>7. ASSUME AskUpdateConnection(c)
      PROVE  \E r \in Requests : Call(c, r) /\ Askable(r)
  <2>1. PICK n \in Names, on \in BOOLEAN \cup {Keep} :
            Call(c, [As(c, IF on = TRUE THEN "clearOthers" ELSE "put")
                       EXCEPT !.name = n, !.on = on])
    BY <1>7 DEF AskUpdateConnection
  <2> DEFINE pc == IF on = TRUE THEN "clearOthers" ELSE "put"
  <2>2. pc \in Pcs /\ ((pc = "clearOthers" /\ on = TRUE) \/ pc = "put")
    OBVIOUS
  <2> HIDE DEF pc
  <2>3. As(c, pc) \in Requests /\ As(c, pc).pc = pc
    BY <1>2, <1>7, <2>2 DEF AskUpdateConnection
  <2> DEFINE q == [As(c, pc) EXCEPT !.name = n, !.on = on]
  <2>4. Call(c, q)
    BY <2>1 DEF pc
  <2>5. q \in Requests /\ q.pc = pc /\ q.on = on
    <3> DEFINE r == As(c, pc)
    <3>1. r \in Requests /\ r.pc = pc
      BY <2>3
    <3> HIDE DEF r
    <3>2. LET p == [r EXCEPT !.name = n, !.on = on]
          IN  p \in Requests /\ p.pc = r.pc /\ p.on = on
      BY <1>5, <3>1
    <3> QED  BY <3>1, <3>2 DEF r
  <2> HIDE DEF q
  <2> QED  BY <2>2, <2>4, <2>5 DEF Askable
<1>8. ASSUME FindNone(c)
      PROVE  \E r \in Requests : Call(c, r) /\ Askable(r)
  <2> DEFINE r == [Idle EXCEPT !.pc = "fallback"]
  <2>1. r \in Requests /\ r.pc = "fallback"
    BY IdleType DEF Requests, Pcs
  <2>2. Call(c, r)
    BY <1>8 DEF FindNone
  <2> HIDE DEF r
  <2> QED  BY <2>1, <2>2 DEF Askable
<1> QED  BY <1>1, <1>3, <1>4, <1>6, <1>7, <1>8

LEMMA PatchType ==
  ASSUME Known, NEW u \in Users, NEW to \in Roles \cup {Keep},
         NEW on \in BOOLEAN \cup {Keep}, account[u] # NoAccount
  PROVE  [role |-> Given(to, account[u].role), active |-> Given(on, account[u].active)]
            \in Accounts
<1>1. account[u] \in Accounts
  BY DEF Known
<1> QED  BY <1>1 DEF Accounts, Given

\* What a request is about to write was decided on: an update for an account that
\* exists, since none is deleted, and a creation with a role.
Decided ==
    \A c \in Clients :
        /\ At(c, "update") => account[request[c].target] # NoAccount
        /\ At(c, "create") => request[c].to \in Roles

LEMMA RequestFields ==
  ASSUME Requested, NEW c \in Clients
  PROVE  /\ request[c].user \in Users \cup {NoUser}
         /\ request[c].target \in Users
         /\ request[c].to \in Roles \cup {Keep}
         /\ request[c].on \in BOOLEAN \cup {Keep}
  BY DEF Requested, Requests

LEMMA ClearedType ==
  ASSUME connection \in [Names -> {"absent", "plain", "default"}], NEW keep
  PROVE  Cleared(keep) \in [Names -> {"absent", "plain", "default"}]
  BY DEF Cleared

LEMMA AccountLiterals ==
  \A r \in Roles, b \in BOOLEAN :
      /\ [role |-> r, active |-> b] \in Accounts
      /\ [role |-> r, active |-> b] # NoAccount
<1>1. ASSUME NEW r \in Roles, NEW b \in BOOLEAN
      PROVE  [role |-> r, active |-> b] \in Accounts
  BY DEF Accounts
<1>2. ASSUME NEW a \in Accounts PROVE a.role \in Roles
  BY DEF Accounts
<1>3. NoAccount.role = "none" /\ "none" \notin Roles
  BY DEF NoAccount, Roles
<1>4. NoAccount \notin Accounts
  BY <1>2, <1>3
<1> QED  BY <1>1, <1>4

LEMMA InitTypes == Init => TypeOK /\ Decided
<1> SUFFICES ASSUME Init PROVE TypeOK /\ Decided
  OBVIOUS
<1>1. account \in [Users -> {NoAccount} \cup Accounts]
  BY DEF Init, Accounts
<1>2. session \in [Clients -> Users \cup {NoUser}]
  BY DEF Init
<1>3. failures \in [Users -> Nat] /\ window \in [Users -> 0..Window]
  BY AccessAssumption DEF Init
<1>4. connection \in [Names -> {"absent", "plain", "default"}]
  BY DEF Init
<1>5. request \in [Clients -> Requests]
  BY IdleType DEF Init
<1>6. /\ seed \in {"ready", "clear", "put", "done", "failed"}
      /\ calls \in 0..MaxCalls /\ faults \in 0..MaxFaults
  BY AccessAssumption DEF Init
<1>7. Decided
  BY DEF Decided, Init, At, Idle
<1> QED  BY <1>1, <1>2, <1>3, <1>4, <1>5, <1>6, <1>7 DEF TypeOK

\* FindTarget refuses, or goes on to an account that exists and notes its role.
LEMMA FindTargetKeeps ==
  ASSUME Requested, Known, NEW c \in Clients, FindTarget(c)
  PROVE  /\ Requested'
         /\ \A d \in Clients \ {c} : request'[d] = request[d]
         /\ \/ request'[c].pc = "idle"
            \/ /\ request'[c].pc = "update"
               /\ request'[c].target = request[c].target
               /\ account[request[c].target] # NoAccount
               /\ request'[c].user = request[c].user
               /\ request'[c].role = request[c].role
               /\ request'[c].to = request[c].to
               /\ request'[c].on = request[c].on
               /\ request'[c].was = account[request[c].target].role
               /\ MayManage(request[c], request[c].target,
                            account[request[c].target].role)
<1> DEFINE x == account[request[c].target].role
           r == [request[c] EXCEPT !.pc = "update", !.was = x]
<1>1. x \in Roles \cup {"none"}
  BY RequestFields, RoleType
<1>2. ASSUME NEW q \in Requests, NEW y \in Roles \cup {"none"}
      PROVE  LET t == [q EXCEPT !.pc = "update", !.was = y]
             IN  /\ t \in Requests /\ t.pc = "update" /\ t.target = q.target
                 /\ t.user = q.user /\ t.role = q.role
                 /\ t.to = q.to /\ t.on = q.on /\ t.was = y
  BY DEF Requests, Pcs
<1>3. request[c] \in Requests
  BY DEF Requested
<1>4. /\ r \in Requests /\ r.pc = "update" /\ r.target = request[c].target
      /\ r.user = request[c].user /\ r.role = request[c].role
      /\ r.to = request[c].to /\ r.on = request[c].on /\ r.was = x
  BY <1>1, <1>2, <1>3
<1>5. \/ /\ request' = [request EXCEPT ![c] = r]
         /\ account[request[c].target] # NoAccount
         /\ MayManage(request[c], request[c].target, x)
      \/ request' = [request EXCEPT ![c] = Idle]
  BY DEF FindTarget, Requested, Done
<1>6. Idle.pc = "idle"
  BY DEF Idle
<1> HIDE DEF r
<1> QED  BY <1>4, <1>5, <1>6, IdleType, PutKeeps

\* A request under way goes on or is done; FindTarget also notes the role it read.
LEMMA ServeStep ==
  ASSUME TypeOK, NEW c \in Clients, Serve(c)
  PROVE  \/ FindTarget(c)
         \/ Done(c)
         \/ \E pc \in Pcs \ {"update", "create", "verify", "find", "clearAll", "clearOthers"} :
                /\ Go(c, pc)
                /\ pc \in {"open", "audit", "refused"}
                      => request[c].pc \in {"verify", "open", "audit"}
<1> DEFINE Goal == \/ FindTarget(c)
                   \/ Done(c)
                   \/ \E pc \in Pcs \ {"update", "create", "verify", "find", "clearAll", "clearOthers"} :
                          /\ Go(c, pc)
                          /\ pc \in {"open", "audit", "refused"}
                                => request[c].pc \in {"verify", "open", "audit"}
<1> Pcs = {"idle", "verify", "open", "audit", "refused", "find", "update", "create",
           "clearAll", "clearOthers", "insert", "put", "fallback", "mark", "wipe",
           "make", "failed"}
  BY DEF Pcs
<1>1. ASSUME \/ LocalLogin(c) \/ LdapLogin(c) \/ LoginRefused(c) \/ OpenSession(c)
             \/ ClearAll(c) \/ ClearOthers(c) \/ Wipe(c)
      PROVE  Goal
  BY <1>1 DEF LocalLogin, LdapLogin, LoginRefused, OpenSession, ClearAll, ClearOthers,
              Wipe, At
<1>2. ASSUME \/ RecordLogin(c) \/ RegisterFailure(c) \/ UpdateUser(c) \/ CreateLocal(c)
             \/ PutConnection(c) \/ MarkEnv(c) \/ Answer(c)
      PROVE  Goal
  BY <1>2 DEF RecordLogin, RegisterFailure, UpdateUser, CreateLocal, PutConnection,
              MarkEnv, Answer
<1>3. ASSUME FindEnv(c) PROVE Goal
  <2>1. connection[EnvName] \in {"absent", "plain", "default"}
    BY AccessAssumption DEF TypeOK
  <2>2. Done(c) \/ Go(c, "mark") \/ Go(c, "wipe")
    BY <2>1, <1>3 DEF FindEnv
  <2> QED  BY <2>2
<1>4. ASSUME InsertConnection(c) \/ MakeEnv(c) PROVE Goal
  <2>1. Done(c) \/ Go(c, "failed")
    BY <1>4 DEF InsertConnection, MakeEnv
  <2> QED  BY <2>1
<1> QED  BY <1>1, <1>2, <1>3, <1>4 DEF Serve

\* Every step of a request leaves a request of the type.
LEMMA RequestStep ==
  ASSUME TypeOK, Next
  PROVE  request' \in [Clients -> Requests]
<1> Requested /\ Known
  BY DEF TypeOK, Requested, Known
<1> SUFFICES Requested'
  BY DEF Requested
<1>1. ASSUME NEW c \in Clients, NEW pc \in Pcs, Go(c, pc) PROVE Requested'
  BY <1>1, GoKeeps
<1>2. ASSUME NEW c \in Clients, Done(c) PROVE Requested'
  BY <1>2, IdleType, PutKeeps DEF Done
<1>3. ASSUME UNCHANGED request PROVE Requested'
  BY <1>3 DEF Requested
<1>4. ASSUME NEW c \in Clients, NEW r \in Requests, Call(c, r) PROVE Requested'
  BY <1>4, PutKeeps DEF Call
<1> Pcs = {"idle", "verify", "open", "audit", "refused", "find", "update", "create",
           "clearAll", "clearOthers", "insert", "put", "fallback", "mark", "wipe",
           "make", "failed"}
  BY DEF Pcs
<1>5. ASSUME NEW c \in Clients, Send(c) PROVE Requested'
  BY <1>3, <1>4, <1>5, CallType DEF Send, SessionEnds
<1>6. ASSUME NEW c \in Clients, FindTarget(c) PROVE Requested'
  BY <1>6, FindTargetKeeps
<1>7. ASSUME NEW c \in Clients, StatementFails(c) PROVE Requested'
  BY <1>1, <1>7 DEF StatementFails
<1>11. ASSUME NEW c \in Clients, Serve(c) PROVE Requested'
  BY <1>1, <1>2, <1>6, <1>11, ServeStep
<1>12. ASSUME Tick \/ SeedUser \/ SeedClear \/ SeedPut \/ SeedFails PROVE Requested'
  BY <1>3, <1>12 DEF Tick, SeedUser, SeedClear, SeedPut, SeedFails
<1> QED  BY <1>5, <1>7, <1>11, <1>12 DEF Next

\* Every step leaves accounts of the type and deletes none.
LEMMA AccountStep ==
  ASSUME TypeOK, Decided, Next
  PROVE  /\ account' \in [Users -> {NoAccount} \cup Accounts]
         /\ \A u \in Users : account[u] # NoAccount => account'[u] # NoAccount
<1> DEFINE Goal == /\ account' \in [Users -> {NoAccount} \cup Accounts]
                   /\ \A u \in Users : account[u] # NoAccount => account'[u] # NoAccount
<1> Requested /\ Known
  BY DEF TypeOK, Requested, Known
<1>1. ASSUME NEW t \in Users \cup {NoUser}, NEW a \in Accounts, a # NoAccount,
             account' = [account EXCEPT ![t] = a]
      PROVE  Goal
  BY <1>1 DEF Known
<1>2. ASSUME UNCHANGED account PROVE Goal
  BY <1>2 DEF Known
<1>3. ASSUME NEW c \in Clients, LdapLogin(c) PROVE Goal
  <2>1. PICK r \in Roles : account' = [account EXCEPT ![request[c].user] =
                                          [role |-> r, active |-> TRUE]]
    BY <1>3 DEF LdapLogin, LdapAnswers
  <2> QED  BY <2>1, <1>1, RequestFields, AccountLiterals
<1>4. ASSUME NEW c \in Clients, UpdateUser(c) PROVE Goal
  <2> DEFINE t == request[c].target
             a == [role |-> Given(request[c].to, account[t].role),
                   active |-> Given(request[c].on, account[t].active)]
  <2>1. t \in Users /\ account[t] # NoAccount
    BY <1>4, RequestFields DEF UpdateUser, Decided
  <2>2. a \in Accounts
    BY <2>1, RequestFields, PatchType
  <2>3. NoAccount \notin Accounts
    <3>1. NoAccount.role \notin Roles
      BY DEF NoAccount, Roles
    <3> QED  BY <3>1 DEF Accounts
  <2>4. account' = [account EXCEPT ![t] = a]
    BY <1>4, <2>1 DEF UpdateUser, Known
  <2> HIDE DEF a, t
  <2> QED  BY <1>1, <2>1, <2>2, <2>3, <2>4
<1>5. ASSUME NEW c \in Clients, CreateLocal(c) PROVE Goal
  <2>1. request[c].target \in Users
    BY RequestFields
  <2>2. CASE account[request[c].target] = NoAccount
    <3>1. request[c].to \in Roles
      BY <1>5 DEF CreateLocal, Decided
    <3> QED  BY <1>5, <2>1, <2>2, <3>1, <1>1, AccountLiterals DEF CreateLocal
  <2> QED  BY <1>5, <1>2, <2>2 DEF CreateLocal
<1>6. ASSUME SeedUser PROVE Goal
  <2>1. "SUPER_ADMIN" \in Roles
    BY DEF Roles
  <2> QED  BY <1>6, <2>1, <1>1, AccessAssumption, AccountLiterals DEF SeedUser
<1>7. ASSUME NEW c \in Clients, Send(c) PROVE Goal
  BY <1>7, <1>2, CallType DEF Send, SessionEnds, Call
<1>8. ASSUME NEW c \in Clients, Serve(c) PROVE Goal
  BY <1>8, <1>2, <1>3, <1>4, <1>5
     DEF Serve, LocalLogin, LoginRefused, OpenSession, RecordLogin, RegisterFailure,
         FindTarget, ClearAll, ClearOthers, InsertConnection, PutConnection,
         FindEnv, MarkEnv, Wipe, MakeEnv, Answer
<1>9. ASSUME NEW c \in Clients, StatementFails(c) PROVE Goal
  BY <1>9, <1>2 DEF StatementFails
<1>10. ASSUME Tick \/ SeedClear \/ SeedPut \/ SeedFails PROVE Goal
  BY <1>10, <1>2 DEF Tick, SeedClear, SeedPut, SeedFails
<1> HIDE DEF Goal
<1>11. Goal
  BY <1>6, <1>7, <1>8, <1>9, <1>10 DEF Next
<1> QED  BY <1>11 DEF Goal

\* A request reaches the write of an account only through its decision.
LEMMA DecidedStep ==
  ASSUME TypeOK, Decided, Next
  PROVE  Decided'
<1> Requested /\ Known /\ Requested'
  BY RequestStep DEF TypeOK, Requested, Known
<1> SUFFICES ASSUME NEW c \in Clients
             PROVE  /\ At(c, "update")' => account'[request'[c].target] # NoAccount
                    /\ At(c, "create")' => request'[c].to \in Roles
  BY DEF Decided
<1> DEFINE Fine == \/ request'[c] = request[c]
                   \/ request'[c].pc \notin {"update", "create"}
                   \/ /\ request'[c].pc = "update"
                      /\ request'[c].target = request[c].target
                      /\ account[request[c].target] # NoAccount
                   \/ request'[c].pc = "create" /\ request'[c].to \in Roles
<1>1. SUFFICES Fine
  <2>1. \A u \in Users : account[u] # NoAccount => account'[u] # NoAccount
    BY AccountStep
  <2>2. request[c].target \in Users /\ "update" # "create"
    BY RequestFields
  <2> QED  BY <2>1, <2>2 DEF Decided, At
<1>2. ASSUME NEW d \in Clients, NEW pc \in Pcs \ {"update", "create"}, Go(d, pc)
      PROVE  Fine
  BY <1>2, GoKeeps
<1>3. ASSUME NEW d \in Clients, Done(d) PROVE Fine
  <2>1. Idle.pc = "idle"
    BY DEF Idle
  <2> QED  BY <1>3, <2>1, IdleType, PutKeeps DEF Done
<1>4. ASSUME UNCHANGED request PROVE Fine
  BY <1>4
<1>5. ASSUME NEW d \in Clients, NEW r \in Requests, Call(d, r), Askable(r)
      PROVE  Fine
  BY <1>5, PutKeeps DEF Call, Askable
<1>6. ASSUME NEW d \in Clients, FindTarget(d) PROVE Fine
  BY <1>6, FindTargetKeeps
<1>7. ASSUME NEW d \in Clients, Send(d) PROVE Fine
  BY <1>4, <1>5, <1>7, CallType DEF Send, SessionEnds
<1>8. ASSUME NEW d \in Clients, Serve(d) PROVE Fine
  BY <1>2, <1>3, <1>6, <1>8, ServeStep
<1>9. ASSUME NEW d \in Clients, StatementFails(d) PROVE Fine
  BY <1>2, <1>9 DEF StatementFails, Pcs
<1>10. ASSUME Tick \/ SeedUser \/ SeedClear \/ SeedPut \/ SeedFails PROVE Fine
  BY <1>4, <1>10 DEF Tick, SeedUser, SeedClear, SeedPut, SeedFails
<1> HIDE DEF Fine
<1> QED  BY <1>7, <1>8, <1>9, <1>10 DEF Next

\* Which steps of a request leave which variables alone.
LEMMA ServeFrame ==
  ASSUME NEW c \in Clients, Serve(c)
  PROVE  /\ UNCHANGED <<seed, calls, faults>>
         /\ OpenSession(c) \/ UNCHANGED session
         /\ OpenSession(c) \/ RegisterFailure(c) \/ UNCHANGED <<failures, window>>
         /\ \/ ClearAll(c) \/ ClearOthers(c) \/ InsertConnection(c)
            \/ PutConnection(c) \/ MarkEnv(c) \/ Wipe(c) \/ MakeEnv(c)
            \/ UNCHANGED connection
<1>1. CASE \/ LocalLogin(c) \/ LdapLogin(c) \/ LoginRefused(c) \/ OpenSession(c)
           \/ RecordLogin(c) \/ RegisterFailure(c)
  BY <1>1 DEF LocalLogin, LdapLogin, LoginRefused, OpenSession, RecordLogin,
              RegisterFailure
<1>2. CASE FindTarget(c) \/ UpdateUser(c) \/ CreateLocal(c) \/ FindEnv(c) \/ Answer(c)
  BY <1>2 DEF FindTarget, UpdateUser, CreateLocal, FindEnv, Answer
<1>3. CASE \/ ClearAll(c) \/ ClearOthers(c) \/ InsertConnection(c)
           \/ PutConnection(c) \/ MarkEnv(c) \/ Wipe(c) \/ MakeEnv(c)
  BY <1>3 DEF ClearAll, ClearOthers, InsertConnection, PutConnection, MarkEnv, Wipe,
              MakeEnv
<1> QED  BY <1>1, <1>2, <1>3 DEF Serve

LEMMA SendFrame ==
  ASSUME TypeOK, NEW c \in Clients, Send(c)
  PROVE  /\ UNCHANGED <<account, failures, window, connection, seed, faults>>
         /\ calls < MaxCalls /\ calls' = calls + 1
         /\ SessionEnds(c) \/ UNCHANGED session
         /\ UNCHANGED request \/ \E r \in Requests : Call(c, r) /\ Askable(r)
  BY CallType DEF Send, Call, SessionEnds

\* The remaining variables keep their types.
LEMMA OtherTypes ==
  ASSUME TypeOK, Next
  PROVE  /\ session' \in [Clients -> Users \cup {NoUser}]
         /\ failures' \in [Users -> Nat]
         /\ window' \in [Users -> 0..Window]
         /\ connection' \in [Names -> {"absent", "plain", "default"}]
         /\ seed' \in {"ready", "clear", "put", "done", "failed"}
         /\ calls' \in 0..MaxCalls /\ faults' \in 0..MaxFaults
<1> USE DEF TypeOK
<1> Requested
  BY DEF Requested
<1>1. session' \in [Clients -> Users \cup {NoUser}]
  <2>1. ASSUME NEW c \in Clients, OpenSession(c) \/ SessionEnds(c)
        PROVE  session' \in [Clients -> Users \cup {NoUser}]
    BY <2>1, RequestFields DEF OpenSession, SessionEnds
  <2>2. CASE UNCHANGED session
    BY <2>2
  <2> QED  BY <2>1, <2>2, ServeFrame, SendFrame
       DEF Next, StatementFails, Tick, SeedUser, SeedClear, SeedPut, SeedFails
<1>2. failures' \in [Users -> Nat] /\ window' \in [Users -> 0..Window]
  <2>1. ASSUME NEW c \in Clients, OpenSession(c) \/ RegisterFailure(c)
        PROVE  failures' \in [Users -> Nat] /\ window' \in [Users -> 0..Window]
    <3>1. Window \in Nat
      BY AccessAssumption
    <3> QED  BY <2>1, <3>1 DEF OpenSession, RegisterFailure
  <2>2. CASE Tick
    <3>1. Window \in Nat
      BY AccessAssumption
    <3>2. ASSUME NEW u \in Users
          PROVE  /\ (IF window[u] = 0 THEN 0 ELSE window[u] - 1) \in 0..Window
                 /\ (IF window[u] = 1 THEN 0 ELSE failures[u]) \in Nat
      <4>1. window[u] \in 0..Window /\ failures[u] \in Nat
        OBVIOUS
      <4> QED  BY <3>1, <4>1
    <3> QED  BY <2>2, <3>2 DEF Tick
  <2>3. CASE UNCHANGED <<failures, window>>
    BY <2>3
  <2> QED  BY <2>1, <2>2, <2>3, ServeFrame, SendFrame
       DEF Next, StatementFails, SeedUser, SeedClear, SeedPut, SeedFails
<1>3. connection' \in [Names -> {"absent", "plain", "default"}]
  <2>1. ASSUME NEW c \in Clients, ClearAll(c) \/ ClearOthers(c) \/ Wipe(c)
        PROVE  connection' \in [Names -> {"absent", "plain", "default"}]
    BY <2>1, ClearedType DEF ClearAll, ClearOthers, Wipe
  <2>2. ASSUME NEW on PROVE Flag(on) \in {"plain", "default"}
    BY DEF Flag
  <2>3. ASSUME NEW c \in Clients, InsertConnection(c) \/ PutConnection(c)
        PROVE  connection' \in [Names -> {"absent", "plain", "default"}]
    BY <2>2, <2>3 DEF InsertConnection, PutConnection
  <2>4. ASSUME NEW c \in Clients, MarkEnv(c) \/ MakeEnv(c)
        PROVE  connection' \in [Names -> {"absent", "plain", "default"}]
    BY <2>4 DEF MarkEnv, MakeEnv
  <2>5. CASE SeedClear \/ SeedPut
    BY <2>5, ClearedType DEF SeedClear, SeedPut
  <2>6. CASE UNCHANGED connection
    BY <2>6
  <2> QED  BY <2>1, <2>3, <2>4, <2>5, <2>6, ServeFrame, SendFrame
       DEF Next, StatementFails, Tick, SeedUser, SeedFails
<1>4. seed' \in {"ready", "clear", "put", "done", "failed"}
  BY ServeFrame, SendFrame
     DEF Next, StatementFails, Tick, SeedUser, SeedClear, SeedPut, SeedFails
<1>5. calls' \in 0..MaxCalls /\ faults' \in 0..MaxFaults
  <2>1. MaxCalls \in Nat /\ MaxFaults \in Nat
    BY AccessAssumption
  <2> QED  BY <2>1, ServeFrame, SendFrame
       DEF Next, StatementFails, Tick, SeedUser, SeedClear, SeedPut, SeedFails
<1> QED  BY <1>1, <1>2, <1>3, <1>4, <1>5

LEMMA TypesStep == TypeOK /\ Decided /\ [Next]_vars => TypeOK' /\ Decided'
<1> SUFFICES ASSUME TypeOK, Decided, [Next]_vars PROVE TypeOK' /\ Decided'
  OBVIOUS
<1>1. CASE Next
  BY <1>1, RequestStep, AccountStep, DecidedStep, OtherTypes DEF TypeOK
<1>2. CASE UNCHANGED vars
  BY <1>2 DEF vars, TypeOK, Decided, At
<1> QED  BY <1>1, <1>2

\* Accounts keep a role and an activity that are some: what a request leaves out
\* stays, and an update is only ever written to an account that exists.
THEOREM Typing == Spec => [](TypeOK /\ Decided)
  BY InitTypes, TypesStep, PTL DEF Spec

-----------------------------------------------------------------------------
(* The limiter *)

LEMMA PendingFinite ==
  ASSUME NEW u \in Users
  PROVE  /\ IsFiniteSet(Pending(u))
         /\ Cardinality(Pending(u)) \in Nat
         /\ Cardinality(Clients) \in Nat
         /\ Cardinality(Pending(u)) <= Cardinality(Clients)
<1>1. Pending(u) \subseteq Clients /\ IsFiniteSet(Clients)
  BY AccessAssumption DEF Pending
<1> QED  BY <1>1, FS_Subset, FS_CardinalityType

\* A step that counts no failure of u and begins no attempt for u.
LEMMA QuietStep ==
  ASSUME TypeOK, LimiterBound, NEW u \in Users,
         failures'[u] \in Nat, failures'[u] <= failures[u],
         Pending(u)' \subseteq Pending(u)
  PROVE  failures'[u] + Cardinality(Pending(u)') < MaxAttempts + Cardinality(Clients)
<1>1. Cardinality(Pending(u)') <= Cardinality(Pending(u)) /\ Cardinality(Pending(u)') \in Nat
  BY PendingFinite, FS_Subset, FS_CardinalityType
<1>2. failures[u] \in Nat /\ MaxAttempts \in Nat
  BY AccessAssumption DEF TypeOK
<1>3. failures[u] + Cardinality(Pending(u)) < MaxAttempts + Cardinality(Clients)
  BY DEF LimiterBound
<1> QED  BY <1>1, <1>2, <1>3, PendingFinite

\* A step after which u is not at its limit.
LEMMA FreeStep ==
  ASSUME TypeOK, NEW u \in Users, failures'[u] \in Nat, failures'[u] < MaxAttempts
  PROVE  failures'[u] + Cardinality(Pending(u)') < MaxAttempts + Cardinality(Clients)
<1>1. Pending(u)' \subseteq Clients /\ IsFiniteSet(Clients)
  BY AccessAssumption DEF Pending
<1>2. Cardinality(Pending(u)') <= Cardinality(Clients) /\ Cardinality(Pending(u)') \in Nat
  BY <1>1, FS_Subset, FS_CardinalityType
<1> QED  BY <1>2, PendingFinite, AccessAssumption

\* A request that goes on, ends or stays is pending only if it was; one that
\* begins is pending only as a login.
LEMMA PendingStep ==
  ASSUME TypeOK, NEW u \in Users, NEW c \in Clients,
         \/ UNCHANGED request
         \/ Done(c)
         \/ FindTarget(c)
         \/ \E pc \in Pcs : /\ Go(c, pc) /\ pc # "verify"
                            /\ pc \in {"open", "audit", "refused"}
                                  => request[c].pc \in {"verify", "open", "audit"}
         \/ \E r \in Requests : /\ Call(c, r) /\ Askable(r)
                                /\ r.pc = "verify" => r.user # u
  PROVE  Pending(u)' \subseteq Pending(u)
<1> Requested /\ Known
  BY DEF TypeOK, Requested, Known
<1>1. SUFFICES ASSUME \A d \in Clients \ {c} : request'[d] = request[d],
                      \/ request'[c] = request[c]
                      \/ c \notin Pending(u)'
                      \/ c \in Pending(u)
               PROVE  Pending(u)' \subseteq Pending(u)
  <2>1. CASE UNCHANGED request
    BY <2>1, <1>1
  <2>2. CASE Done(c)
    <3>1. request'[c] = Idle /\ Idle.pc = "idle"
      BY <2>2, IdleType, PutKeeps DEF Done, Idle
    <3>2. \A d \in Clients \ {c} : request'[d] = request[d]
      BY <2>2, IdleType, PutKeeps DEF Done
    <3> QED  BY <3>1, <3>2, <1>1 DEF Pending
  <2>3. CASE FindTarget(c)
    BY <2>3, FindTargetKeeps, <1>1 DEF Pending
  <2>4. ASSUME NEW pc \in Pcs, Go(c, pc),
               pc \in {"open", "audit", "refused"}
                  => request[c].pc \in {"verify", "open", "audit"},
               pc # "verify"
        PROVE  Pending(u)' \subseteq Pending(u)
    BY <2>4, GoKeeps, <1>1 DEF Pending
  <2>5. ASSUME NEW r \in Requests, Call(c, r), Askable(r), r.pc = "verify" => r.user # u
        PROVE  Pending(u)' \subseteq Pending(u)
    <3>1. request'[c] = r /\ \A d \in Clients \ {c} : request'[d] = request[d]
      BY <2>5, PutKeeps DEF Call
    <3> QED  BY <2>5, <3>1, <1>1 DEF Pending, Askable
  <2> QED  BY <2>1, <2>2, <2>3, <2>4, <2>5
<1> QED  BY <1>1 DEF Pending

LEMMA LimiterStep == TypeOK /\ LimiterBound /\ [Next]_vars => LimiterBound'
<1> SUFFICES ASSUME TypeOK, LimiterBound, [Next]_vars, NEW u \in Users
             PROVE  failures'[u] + Cardinality(Pending(u)')
                       < MaxAttempts + Cardinality(Clients)
  BY DEF LimiterBound
<1> DEFINE Goal == failures'[u] + Cardinality(Pending(u)')
                       < MaxAttempts + Cardinality(Clients)
<1> SUFFICES Goal
  OBVIOUS
<1> Requested /\ Known
  BY DEF TypeOK, Requested, Known
<1>1. failures[u] \in Nat /\ failures \in [Users -> Nat]
  BY DEF TypeOK
<1>2. ASSUME UNCHANGED failures, Pending(u)' \subseteq Pending(u) PROVE Goal
  BY <1>1, <1>2, QuietStep
<1>3. CASE UNCHANGED vars
  BY <1>2, <1>3 DEF vars, Pending
<1>4. CASE Tick
  <2>1. failures'[u] \in {0, failures[u]}
    BY <1>1, <1>4 DEF Tick
  <2>2. Pending(u)' = Pending(u)
    BY <1>4 DEF Tick, Pending
  <2> QED  BY <1>1, <2>1, <2>2, QuietStep
<1>5. CASE SeedUser \/ SeedClear \/ SeedPut \/ SeedFails
  BY <1>2, <1>5 DEF SeedUser, SeedClear, SeedPut, SeedFails, Pending
<1>6. ASSUME NEW c \in Clients, Send(c) PROVE Goal
  <2>1. UNCHANGED failures
    BY <1>6, SendFrame
  <2>2. CASE failures[u] < MaxAttempts
    BY <1>1, <2>1, <2>2, FreeStep
  <2>3. CASE ~(failures[u] < MaxAttempts)
    <3>1. UNCHANGED request \/ \E r \in Requests : /\ Call(c, r) /\ Askable(r)
                                                   /\ r.pc = "verify" => r.user # u
      BY <1>6, <2>3, SendFrame DEF Askable
    <3> QED  BY <1>2, <2>1, <3>1, PendingStep
  <2> QED  BY <2>2, <2>3
<1>7. ASSUME NEW c \in Clients, StatementFails(c) PROVE Goal
  <2>1. UNCHANGED failures
    BY <1>7 DEF StatementFails
  <2>2. \E pc \in Pcs : /\ Go(c, pc) /\ pc # "verify"
                        /\ pc \in {"open", "audit", "refused"}
                              => request[c].pc \in {"verify", "open", "audit"}
    BY <1>7 DEF StatementFails, Pcs
  <2> QED  BY <1>2, <2>1, <2>2, PendingStep
<1>8. ASSUME NEW c \in Clients, Serve(c) PROVE Goal
  <2>1. CASE OpenSession(c)
    <3>1. failures'[u] = 0 \/ UNCHANGED <<failures[u]>>
      BY <1>1, <2>1 DEF OpenSession
    <3>2. Pending(u)' \subseteq Pending(u)
      BY <2>1, PendingStep DEF OpenSession, At, Pcs
    <3> QED  BY <1>1, <3>1, <3>2, QuietStep
  <2>2. CASE RegisterFailure(c)
    <3>1. Done(c)
      BY <2>2 DEF RegisterFailure
    <3>2. Pending(u)' \subseteq Pending(u)
      BY <3>1, PendingStep
    <3>3. CASE request[c].user # u
      <4>1. failures'[u] = failures[u]
        BY <1>1, <2>2, <3>3 DEF RegisterFailure
      <4> QED  BY <1>1, <3>2, <4>1, QuietStep
    <3>4. CASE request[c].user = u
      <4>1. failures'[u] = failures[u] + 1
        BY <1>1, <2>2, <3>4 DEF RegisterFailure
      <4>2. c \in Pending(u)
        BY <2>2, <3>4 DEF RegisterFailure, At, Pending
      <4>3. request'[c] = Idle /\ Idle.pc = "idle"
        BY <3>1, IdleType, PutKeeps DEF Done, Idle
      <4>4. Pending(u)' \subseteq Pending(u) \ {c}
        BY <3>2, <4>3 DEF Pending
      <4>5. /\ Cardinality(Pending(u) \ {c}) = Cardinality(Pending(u)) - 1
            /\ IsFiniteSet(Pending(u) \ {c})
        BY <4>2, PendingFinite, FS_RemoveElement
      <4>6. /\ Cardinality(Pending(u)') <= Cardinality(Pending(u)) - 1
            /\ Cardinality(Pending(u)') \in Nat
        BY <4>4, <4>5, FS_Subset, FS_CardinalityType
      <4>7. failures[u] + Cardinality(Pending(u)) < MaxAttempts + Cardinality(Clients)
        BY DEF LimiterBound
      <4> QED  BY <1>1, <4>1, <4>6, <4>7, PendingFinite, AccessAssumption
    <3> QED  BY <3>3, <3>4
  <2>3. CASE ~OpenSession(c) /\ ~RegisterFailure(c)
    <3>1. UNCHANGED failures
      BY <1>8, <2>3, ServeFrame
    <3>2. Pending(u)' \subseteq Pending(u)
      BY <1>8, <2>3, ServeStep, PendingStep
    <3> QED  BY <1>2, <3>1, <3>2
  <2> QED  BY <2>1, <2>2, <2>3
<1> QED  BY <1>3, <1>4, <1>5, <1>6, <1>7, <1>8 DEF Next

\* The counter and the attempts past its check stay below the limit and the
\* number of clients, however many attempts are under way at once.
THEOREM LimiterHolds == Spec => []LimiterBound
<1>1. Init => LimiterBound
  <2> SUFFICES ASSUME Init, NEW u \in Users
               PROVE  failures[u] + Cardinality(Pending(u))
                         < MaxAttempts + Cardinality(Clients)
    BY DEF LimiterBound
  <2>1. Pending(u) = {}
    BY DEF Init, Pending, Idle
  <2>2. failures[u] = 0
    BY DEF Init
  <2> QED  BY <2>1, <2>2, FS_EmptySet, PendingFinite, AccessAssumption
<1>2. TypeOK /\ LimiterBound /\ [Next]_vars => LimiterBound'
  BY LimiterStep
<1> QED  BY <1>1, <1>2, Typing, PTL DEF Spec

-----------------------------------------------------------------------------
(* The last super admin *)

\* An update under way is one the actor's role and the target's, as they were
\* read, allow.
Managed ==
    \A c \in Clients :
        /\ At(c, "find") \/ At(c, "update") => request[c].user \in Users
        /\ At(c, "update") =>
               MayManage(request[c], request[c].target, request[c].was)

LEMMA MayManageSame ==
  ASSUME NEW q, NEW r, NEW t, NEW x, MayManage(q, t, x),
         r.user = q.user, r.role = q.role, r.to = q.to, r.on = q.on
  PROVE  MayManage(r, t, x)
  BY DEF MayManage

LEMMA ManagedStep == TypeOK /\ Managed /\ [Next]_vars => Managed'
<1> SUFFICES ASSUME TypeOK, Managed, [Next]_vars, NEW c \in Clients
             PROVE  /\ request'[c].pc \in {"find", "update"} => request'[c].user \in Users
                    /\ request'[c].pc = "update" =>
                          MayManage(request'[c], request'[c].target, request'[c].was)
  BY DEF Managed, At, MayManage
<1> DEFINE Goal == /\ request'[c].pc \in {"find", "update"} => request'[c].user \in Users
                   /\ request'[c].pc = "update" =>
                          MayManage(request'[c], request'[c].target, request'[c].was)
<1> SUFFICES Goal
  OBVIOUS
<1> Requested /\ Known
  BY DEF TypeOK, Requested, Known
<1>1. CASE request'[c] = request[c]
  BY <1>1 DEF Managed, At
<1>2. CASE request'[c].pc \notin {"find", "update"}
  BY <1>2
<1>3. ASSUME NEW d \in Clients, FindTarget(d) PROVE Goal
  <2>1. request[d].user \in Users
    BY <1>3 DEF FindTarget, Managed
  <2>2. CASE c = d /\ request'[c].pc = "update"
    <3>1. MayManage(request'[c], request'[c].target, request'[c].was)
      BY <1>3, <2>2, FindTargetKeeps, MayManageSame
    <3> QED  BY <1>3, <2>1, <2>2, <3>1, FindTargetKeeps
  <2>3. c # d \/ request'[c].pc = "idle" \/ request'[c].pc = "update"
    BY <1>3, FindTargetKeeps
  <2> QED  BY <1>1, <1>2, <1>3, <2>2, <2>3, FindTargetKeeps
<1>4. ASSUME NEW d \in Clients, Done(d) PROVE Goal
  <2>1. Idle.pc = "idle"
    BY DEF Idle
  <2> QED  BY <1>1, <1>2, <1>4, <2>1, IdleType, PutKeeps DEF Done
<1>5. ASSUME NEW d \in Clients, NEW pc \in Pcs, Go(d, pc), pc \notin {"find", "update"}
      PROVE  Goal
  BY <1>1, <1>2, <1>5, GoKeeps
<1>6. ASSUME NEW d \in Clients, Send(d) PROVE Goal
  <2>1. ASSUME NEW r \in Requests, Call(d, r), Askable(r) PROVE Goal
    <3>1. request'[d] = r /\ \A e \in Clients \ {d} : request'[e] = request[e]
      BY <2>1, PutKeeps DEF Call
    <3>2. r.pc # "update" /\ (r.pc = "find" => r.user \in Users)
      BY <2>1 DEF Askable
    <3> QED  BY <1>1, <3>1, <3>2
  <2> QED  BY <1>1, <1>6, <2>1, SendFrame
<1>7. ASSUME NEW d \in Clients, Serve(d) PROVE Goal
  BY <1>3, <1>4, <1>5, <1>7, ServeStep
<1>8. ASSUME NEW d \in Clients, StatementFails(d) PROVE Goal
  BY <1>5, <1>8 DEF StatementFails, Pcs
<1>9. CASE \/ Tick \/ SeedUser \/ SeedClear \/ SeedPut \/ SeedFails
           \/ UNCHANGED vars
  BY <1>1, <1>9 DEF Tick, SeedUser, SeedClear, SeedPut, SeedFails, vars
<1> QED  BY <1>6, <1>7, <1>8, <1>9 DEF Next

\* A step that takes the last super admin away is an LDAP login, or an update
\* whose actor or target is no longer what it was decided on.
LEMMA SuperStep ==
  ASSUME TypeOK, Managed, Decided, Next,
         NEW u \in Users, Super(u), \A v \in Users : ~Super(v)'
  PROVE  \E c \in Clients :
            \/ At(c, "verify") /\ request'[c].pc = "open"
            \/ At(c, "update") /\ Stale(c) /\ request'[c].pc = "idle"
<1> Requested /\ Known
  BY DEF TypeOK, Requested, Known
<1>1. account'[u] # account[u]
  BY DEF Super
<1>2. ASSUME NEW c \in Clients, LdapLogin(c)
      PROVE  At(c, "verify") /\ request'[c].pc = "open"
  BY <1>2, GoKeeps DEF LdapLogin, Pcs
<1>3. ASSUME NEW c \in Clients, UpdateUser(c)
      PROVE  At(c, "update") /\ Stale(c) /\ request'[c].pc = "idle"
  <2> DEFINE r == request[c]
  <2>0. request'[c].pc = "idle"
    BY <1>3, DoneIdle DEF UpdateUser
  <2>1. SUFFICES ASSUME account[r.user] = [role |-> r.role, active |-> TRUE],
                        account[r.target].role = r.was
                 PROVE  FALSE
    BY <1>3, <2>0 DEF UpdateUser, Stale
  <2>2. u = r.target
    BY <1>1, <1>3 DEF UpdateUser, Known
  <2>3. MayManage(r, r.target, r.was)
    BY <1>3 DEF UpdateUser, Managed
  <2>4. account[u].role = "SUPER_ADMIN" /\ account[u].active = TRUE
    BY DEF Super
  <2>5. r.role = "SUPER_ADMIN"
    BY <2>1, <2>2, <2>3, <2>4 DEF MayManage
  <2>6. r.user \in Users
    BY <1>3 DEF UpdateUser, Managed
  <2>7. CASE r.user = r.target
    <3>1. r.on # FALSE /\ r.to = Keep
      BY <2>3, <2>7 DEF MayManage
    <3>2. account'[u] = [role |-> Given(r.to, account[u].role),
                         active |-> Given(r.on, account[u].active)]
      BY <1>3, <2>2 DEF UpdateUser, Known
    <3>3. Given(r.to, account[u].role) = "SUPER_ADMIN"
      BY <3>1, <2>4 DEF Given
    <3>4. Given(r.on, account[u].active) = TRUE
      <4>1. r.on \in BOOLEAN \cup {Keep}
        BY RequestFields
      <4> QED  BY <3>1, <4>1, <2>4 DEF Given
    <3> QED  BY <3>2, <3>3, <3>4 DEF Super
  <2>8. CASE r.user # r.target
    <3>1. account'[r.user] = account[r.user]
      BY <1>3, <2>2, <2>8 DEF UpdateUser, Known
    <3>2. account'[r.user] = [role |-> "SUPER_ADMIN", active |-> TRUE]
      BY <3>1, <2>1, <2>5
    <3>3. \A v \in Users : account'[v] # [role |-> "SUPER_ADMIN", active |-> TRUE]
      BY DEF Super
    <3> QED  BY <3>2, <3>3, <2>6
  <2> QED  BY <2>7, <2>8
<1>4. ASSUME NEW c \in Clients PROVE ~CreateLocal(c)
  <2>1. SUFFICES ASSUME CreateLocal(c) PROVE FALSE
    OBVIOUS
  <2>2. account[request[c].target] = NoAccount /\ request[c].target = u
    BY <1>1, <2>1 DEF CreateLocal, Known
  <2>3. NoAccount.role = "none"
    BY DEF NoAccount
  <2>4. account[u].role = "SUPER_ADMIN"
    BY DEF Super
  <2> QED  BY <2>2, <2>3, <2>4
<1>5. ~SeedUser
  <2>1. SeedUser => account'[Root] = [role |-> "SUPER_ADMIN", active |-> TRUE]
    BY AccessAssumption DEF SeedUser, Known
  <2>2. SeedUser => Super(Root)'
    BY <2>1 DEF Super
  <2> QED  BY <2>2, AccessAssumption
<1>6. ASSUME NEW c \in Clients, Serve(c) PROVE LdapLogin(c) \/ UpdateUser(c)
  BY <1>1, <1>4, <1>6
     DEF Serve, LocalLogin, LoginRefused, OpenSession, RecordLogin, RegisterFailure,
         FindTarget, ClearAll, ClearOthers, InsertConnection, PutConnection,
         FindEnv, MarkEnv, Wipe, MakeEnv, Answer
<1>7. \E c \in Clients : Serve(c)
  BY <1>1, <1>5, SendFrame DEF Next, StatementFails, Tick, SeedClear, SeedPut, SeedFails
<1> QED  BY <1>2, <1>3, <1>6, <1>7

\* Whatever administrators do to one another at once, the last super admin falls
\* only to LDAP's role mapping or to a request that acts on what has changed.
THEOREM SuperAdminHolds == Spec => SuperAdminRemains
<1>1. Init => Managed
  BY DEF Init, Managed, At, Idle
<1>2. TypeOK /\ Managed /\ [Next]_vars => Managed'
  BY ManagedStep
<1>3. TypeOK /\ Decided /\ Managed /\ [Next]_vars
         => [(\E u \in Users : Super(u)) /\ ~(\E u \in Users : Super(u))'
               => \E c \in Clients :
                     \/ At(c, "verify") /\ request'[c].pc = "open"
                     \/ At(c, "update") /\ Stale(c) /\ request'[c].pc = "idle"]_vars
  BY SuperStep
<1> QED  BY <1>1, <1>2, <1>3, Typing, PTL DEF Spec, SuperAdminRemains

-----------------------------------------------------------------------------
(* The default connection *)

\* Defaults are cleared only for a request that is to set one.
Clearing == \A c \in Clients :
                At(c, "clearAll") \/ At(c, "clearOthers") => request[c].on = TRUE

LEMMA OwnRequest ==
  ASSUME TypeOK, NEW d \in Clients, Send(d) \/ Serve(d) \/ StatementFails(d)
  PROVE  \A c \in Clients \ {d} : request'[c] = request[c]
<1> Requested /\ Known
  BY DEF TypeOK, Requested, Known
<1>1. CASE Send(d)
  BY <1>1, SendFrame, PutKeeps DEF Call
<1>2. CASE Serve(d)
  BY <1>2, ServeStep, FindTargetKeeps, GoKeeps, IdleType, PutKeeps DEF Done
<1>3. CASE StatementFails(d)
  BY <1>3, GoKeeps DEF StatementFails, Pcs
<1> QED  BY <1>1, <1>2, <1>3

LEMMA ClearingStep == TypeOK /\ Clearing /\ [Next]_vars => Clearing'
<1> SUFFICES ASSUME TypeOK, Clearing, [Next]_vars, NEW c \in Clients
             PROVE  request'[c].pc \in {"clearAll", "clearOthers"}
                       => request'[c].on = TRUE
  BY DEF Clearing, At
<1> DEFINE Goal == request'[c].pc \in {"clearAll", "clearOthers"}
                      => request'[c].on = TRUE
<1> SUFFICES Goal
  OBVIOUS
<1> Requested /\ Known
  BY DEF TypeOK, Requested, Known
<1>1. CASE request'[c] = request[c]
  BY <1>1 DEF Clearing, At
<1>2. CASE Serve(c)
  <2>1. Idle.pc = "idle"
    BY DEF Idle
  <2> QED  BY <1>2, <2>1, ServeStep, FindTargetKeeps, GoKeeps, IdleType, PutKeeps DEF Done
<1>3. CASE Send(c)
  <2>1. ASSUME NEW r \in Requests, Call(c, r), Askable(r) PROVE Goal
    BY <2>1, PutKeeps DEF Call, Askable
  <2> QED  BY <1>1, <1>3, <2>1, SendFrame
<1>4. CASE StatementFails(c)
  BY <1>4, GoKeeps DEF StatementFails, Pcs
<1>5. CASE \/ Tick \/ SeedUser \/ SeedClear \/ SeedPut \/ SeedFails
           \/ UNCHANGED vars
  BY <1>1, <1>5 DEF Tick, SeedUser, SeedClear, SeedPut, SeedFails, vars
<1> QED  BY <1>1, <1>2, <1>3, <1>4, <1>5, OwnRequest DEF Next

Excepted ==
    \/ seed = "put" /\ seed' = "failed"
    \/ \E c \in Clients :
           \/ /\ request[c].pc \in {"insert", "put", "make"}
              /\ request'[c].pc = "failed"
           \/ At(c, "put") /\ request[c].on = FALSE /\ request'[c].pc = "idle"

\* A default that goes leaves somebody who is to set one.
LEMMA DefaultGoes ==
  ASSUME TypeOK, Clearing, Next, HasDefault, ~HasDefault'
  PROVE  Replacing' \/ Excepted
<1> Requested /\ Known
  BY DEF TypeOK, Requested, Known
<1>1. PICK n \in Names : connection[n] = "default"
  BY DEF HasDefault
<1>2. connection'[n] # "default" /\ connection \in [Names -> {"absent", "plain", "default"}]
  BY DEF HasDefault, TypeOK
<1>3. ASSUME NEW c \in Clients, Serve(c) PROVE Replacing' \/ Excepted
  <2>1. CASE ClearAll(c)
    <3>1. request[c].on = TRUE /\ Go(c, "insert")
      BY <2>1 DEF ClearAll, Clearing
    <3>2. request'[c].on = TRUE /\ request'[c].pc = "insert"
      BY <3>1, GoKeeps DEF Pcs
    <3> QED  BY <3>2 DEF Replacing
  <2>2. CASE ClearOthers(c)
    <3>1. request[c].on = TRUE /\ Go(c, "put")
      BY <2>2 DEF ClearOthers, Clearing
    <3>2. request'[c].on = TRUE /\ request'[c].pc = "put"
      BY <3>1, GoKeeps DEF Pcs
    <3> QED  BY <3>2 DEF Replacing
  <2>3. CASE Wipe(c)
    <3>1. request'[c].pc = "make"
      BY <2>3, GoKeeps DEF Wipe, Pcs
    <3> QED  BY <3>1 DEF Replacing, At
  <2>4. ~InsertConnection(c) /\ ~MarkEnv(c) /\ ~MakeEnv(c)
    BY <1>1, <1>2 DEF InsertConnection, MarkEnv, MakeEnv, Exists
  <2>5. CASE PutConnection(c)
    <3>1. request[c].on \in BOOLEAN \cup {Keep}
      BY RequestFields
    <3>2. request[c].on # Keep /\ Flag(request[c].on) # "default"
      BY <1>1, <1>2, <2>5 DEF PutConnection
    <3>3. request'[c].pc = "idle"
      BY <2>5, DoneIdle DEF PutConnection
    <3> QED  BY <2>5, <3>1, <3>2, <3>3 DEF PutConnection, Flag, Excepted
  <2> QED  BY <1>1, <1>2, <1>3, <2>1, <2>2, <2>3, <2>4, <2>5, ServeFrame
<1>4. CASE SeedClear
  BY <1>4 DEF SeedClear, Replacing
<1>5. ~SeedPut
  BY <1>1, <1>2 DEF SeedPut
<1> QED  BY <1>1, <1>2, <1>3, <1>4, <1>5, SendFrame
     DEF Next, StatementFails, Tick, SeedUser, SeedFails

\* Whoever is to set the default sets it, or fails.
LEMMA ReplacementEnds ==
  ASSUME TypeOK, Next, Replacing, ~Replacing'
  PROVE  HasDefault' \/ Excepted
<1> Requested /\ Known
  BY DEF TypeOK, Requested, Known
<1> connection \in [Names -> {"absent", "plain", "default"}] /\ EnvName \in Names
  BY AccessAssumption DEF TypeOK
<1>1. CASE seed = "put"
  <2>1. CASE SeedPut
    BY <2>1 DEF SeedPut, HasDefault
  <2>2. CASE SeedFails
    BY <1>1, <2>2 DEF SeedFails, Excepted
  <2>3. seed' # seed
    BY <1>1 DEF Replacing
  <2>4. ~SeedUser /\ ~SeedClear
    BY <1>1 DEF SeedUser, SeedClear
  <2> QED  BY <2>1, <2>2, <2>3, <2>4, SendFrame, ServeFrame DEF Next, StatementFails, Tick
<1>2. ASSUME NEW c \in Clients,
             At(c, "make") \/ (request[c].pc \in {"insert", "put"} /\ request[c].on = TRUE)
      PROVE  HasDefault' \/ Excepted
  <2>1. request'[c] # request[c]
    BY <1>2 DEF Replacing, At
  <2>2. Send(c) \/ Serve(c) \/ StatementFails(c)
    BY <2>1, OwnRequest DEF Next, Tick, SeedUser, SeedClear, SeedPut, SeedFails
  <2>3. ~Send(c)
    <3>1. ASSUME NEW r, Call(c, r) PROVE FALSE
      BY <1>2, <3>1 DEF Call, At
    <3>2. ~SessionEnds(c)
      BY <1>2 DEF SessionEnds, At
    <3> QED  BY <3>1, <3>2, CallType DEF Send
  <2>4. CASE StatementFails(c)
    <3>1. Go(c, "failed")
      BY <1>2, <2>4 DEF StatementFails, At
    <3>2. request'[c].pc = "failed"
      BY <3>1, GoKeeps DEF Pcs
    <3> QED  BY <1>2, <3>2 DEF Excepted, At
  <2>5. CASE Serve(c)
    <3>1. InsertConnection(c) \/ PutConnection(c) \/ MakeEnv(c)
      BY <1>2, <2>5
         DEF At, Serve, LocalLogin, LdapLogin, LoginRefused, OpenSession, RecordLogin,
             RegisterFailure, FindTarget, UpdateUser, CreateLocal, ClearAll,
             ClearOthers, FindEnv, MarkEnv, Wipe, Answer
    <3>2. ASSUME Go(c, "failed") PROVE Excepted
      BY <1>2, <3>2, GoKeeps DEF Excepted, Pcs, At
    <3>3. request[c].name \in Names
      BY DEF Requested, Requests
    <3>4. CASE InsertConnection(c) \/ PutConnection(c)
      <4>1. request[c].on = TRUE
        BY <1>2, <3>4 DEF InsertConnection, PutConnection, At
      <4>2. Flag(request[c].on) = "default" /\ request[c].on # Keep
        BY <4>1, AccessAssumption DEF Flag
      <4>3. CASE Go(c, "failed")
        BY <3>2, <4>3
      <4>4. CASE ~Go(c, "failed")
        <5>1. connection'[request[c].name] = "default"
          BY <3>3, <3>4, <4>2, <4>4 DEF InsertConnection, PutConnection
        <5> QED  BY <3>3, <5>1 DEF HasDefault
      <4> QED  BY <4>3, <4>4
    <3>5. CASE MakeEnv(c)
      BY <3>2, <3>5 DEF MakeEnv, HasDefault
    <3> QED  BY <3>1, <3>4, <3>5
  <2> QED  BY <2>2, <2>3, <2>4, <2>5
<1> QED  BY <1>1, <1>2 DEF Replacing

\* However requests, readers and the seed overlap, a default connection stays or is
\* about to be set, but for a failed statement or a request that withdraws it.
THEOREM DefaultHolds == Spec => DefaultRemains
<1>1. Init => Clearing
  BY DEF Init, Clearing, At, Idle
<1>2. TypeOK /\ Clearing /\ [Next]_vars => Clearing'
  BY ClearingStep
<1>3. TypeOK /\ Clearing /\ [Next]_vars
         => [HasDefault \/ Replacing
               => \/ HasDefault' \/ Replacing'
                  \/ seed = "put" /\ seed' = "failed"
                  \/ \E c \in Clients :
                         \/ /\ request[c].pc \in {"insert", "put", "make"}
                            /\ request'[c].pc = "failed"
                         \/ At(c, "put") /\ request[c].on = FALSE /\ request'[c].pc = "idle"]_vars
  BY DefaultGoes, ReplacementEnds DEF Excepted
<1> QED  BY <1>1, <1>2, <1>3, Typing, PTL DEF Spec, DefaultRemains

-----------------------------------------------------------------------------
(* Why a lockout ends: a counter has an expiry from its first failure on,   *)
(* and no failure after it puts the expiry off.                              *)

Expires == \A u \in Users : failures[u] # 0 => window[u] > 0

Approaches == \A u \in Users : failures[u] # 0 => window'[u] <= window[u]

LEMMA ExpiryStep == TypeOK /\ Expires /\ [Next]_vars => Expires' /\ Approaches
<1> SUFFICES ASSUME TypeOK, Expires, [Next]_vars, NEW u \in Users
             PROVE  /\ failures'[u] # 0 => window'[u] > 0
                    /\ failures[u] # 0 => window'[u] <= window[u]
  BY DEF Expires, Approaches
<1>1. /\ failures \in [Users -> Nat] /\ window \in [Users -> Nat]
      /\ failures[u] \in Nat /\ window[u] \in Nat /\ (failures[u] # 0 => window[u] > 0)
      /\ Window \in Nat \ {0}
  BY AccessAssumption DEF TypeOK, Expires
<1>2. CASE UNCHANGED <<failures, window>>
  BY <1>1, <1>2
<1>3. ASSUME NEW c \in Clients, OpenSession(c)
      PROVE  /\ failures'[u] # 0 => window'[u] > 0
             /\ failures[u] # 0 => window'[u] <= window[u]
  <2>1. \/ failures'[u] = 0 /\ window'[u] = 0
        \/ failures'[u] = failures[u] /\ window'[u] = window[u]
    BY <1>1, <1>3 DEF OpenSession
  <2> QED  BY <1>1, <2>1
<1>4. ASSUME NEW c \in Clients, RegisterFailure(c)
      PROVE  /\ failures'[u] # 0 => window'[u] > 0
             /\ failures[u] # 0 => window'[u] <= window[u]
  <2>1. \/ failures'[u] = failures[u] /\ window'[u] = window[u]
        \/ window'[u] = IF window[u] = 0 THEN Window ELSE window[u]
    BY <1>1, <1>4 DEF RegisterFailure
  <2> QED  BY <1>1, <2>1
<1>5. CASE Tick
  <2>1. /\ window'[u] = IF window[u] = 0 THEN 0 ELSE window[u] - 1
        /\ failures'[u] = IF window[u] = 1 THEN 0 ELSE failures[u]
    BY <1>5 DEF Tick
  <2> QED  BY <1>1, <2>1
<1> QED  BY <1>2, <1>3, <1>4, <1>5, ServeFrame, SendFrame
       DEF Next, StatementFails, SeedUser, SeedClear, SeedPut, SeedFails, vars

\* The counter of a username that has failed to sign in expires, and attempts made
\* meanwhile do not put that off: with time passing, a locked username becomes free.
THEOREM CountersExpire == Spec => []Expires /\ [][Approaches]_vars
<1>1. Init => Expires
  BY DEF Init, Expires
<1>2. TypeOK /\ Expires /\ [Next]_vars => Expires' /\ Approaches
  BY ExpiryStep
<1> QED  BY Typing, <1>1, <1>2, PTL DEF Spec
=============================================================================
