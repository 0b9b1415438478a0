--------------------------------- MODULE Access ---------------------------------
(***************************************************************************)
(* Sign-in, accounts and connections: the login endpoint with its attempt  *)
(* counter (auth/), the administration of users (users/) and of Garage     *)
(* connections with the fallback to the environment's (connections/), and  *)
(* the seed program (bootstrap/seed.ts) beside them.                       *)
(*                                                                         *)
(* No handler uses a transaction: a request is a series of statements,     *)
(* decided by what earlier ones read.  A client has one request under way. *)
(* Passwords and LDAP answers are choices; an LDAP name is the account's.  *)
(***************************************************************************)
EXTENDS Naturals, FiniteSets

CONSTANTS
    Clients,           \* browsers, and workers that read the connection
    Users, Root,       \* usernames; that of the seed
    Names, EnvName,    \* names of connections; that of the environment's
    NoUser, Keep,      \* no session; a field the request leaves out
    Patches,           \* roles and activity a user update may carry
    AuthMode,          \* setting auth_mode
    LdapEnabled,       \* LDAP configured and enabled
    MaxAttempts,       \* LOGIN_MAX_ATTEMPTS
    Window,            \* LOGIN_WINDOW_SECONDS, in ticks
    MaxCalls, MaxFaults   \* bounds: requests, failing statements

Roles == {"SUPER_ADMIN", "ADMIN", "USER"}

ASSUME AccessAssumption ==
    /\ IsFiniteSet(Clients)
    /\ Root \in Users /\ NoUser \notin Users
    /\ EnvName \in Names
    /\ Keep \notin BOOLEAN /\ Keep \notin Roles
    /\ Patches \subseteq [to: Roles \cup {Keep}, on: BOOLEAN \cup {Keep}]
    /\ AuthMode \in {"local", "ldap", "hybrid"} /\ LdapEnabled \in BOOLEAN
    /\ {MaxAttempts, Window} \subseteq Nat \ {0}
    /\ {MaxCalls, MaxFaults} \subseteq Nat

VARIABLES
    account,      \* role and activity of each user, NoAccount when absent
    session,      \* user whose open session each client's cookie names
    failures,     \* attempt counter of each username, 0 when the key is absent
    window,       \* ticks until that counter expires
    connection,   \* "absent", "plain" or "default"
    request,      \* local state of each client's request
    seed,         \* where the seed program is
    calls, faults

vars == <<account, session, failures, window, connection, request, seed,
          calls, faults>>

NoAccount == [role |-> "none", active |-> FALSE]
Idle == [pc |-> "idle", user |-> NoUser, role |-> "none", target |-> Root,
         was |-> "none", to |-> Keep, on |-> Keep, name |-> EnvName]

\* A database the seed has been run on, perhaps with more accounts and sessions.
Init ==
    /\ account \in [Users -> {NoAccount} \cup [role: Roles, active: {TRUE}]]
    /\ account[Root] = [role |-> "SUPER_ADMIN", active |-> TRUE]
    /\ session \in [Clients -> {NoUser} \cup {u \in Users : account[u].active}]
    /\ failures = [u \in Users |-> 0]
    /\ window = [u \in Users |-> 0]
    /\ \/ connection = [n \in Names |-> "absent"]
       \/ connection = [n \in Names |-> IF n = EnvName THEN "default" ELSE "absent"]
    /\ request = [c \in Clients |-> Idle]
    /\ seed = "ready"
    /\ calls = 0 /\ faults = 0

At(c, pc) == request[c].pc = pc
Go(c, pc) == request' = [request EXCEPT ![c].pc = pc]
Done(c)   == request' = [request EXCEPT ![c] = Idle]

\* The client sends its next request.
Call(c, r) ==
    /\ At(c, "idle") /\ calls < MaxCalls
    /\ calls' = calls + 1
    /\ request' = [request EXCEPT ![c] = r]
    /\ UNCHANGED <<account, session, failures, window, connection, seed, faults>>

-----------------------------------------------------------------------------
(* Login *)

\* A mutant of LoginCheck: one attempt too many.
LoginCheckLate(c) ==
    \E u \in Users :
        /\ failures[u] <= MaxAttempts
        /\ Call(c, [Idle EXCEPT !.pc = "verify", !.user = u])

LoginCheck(c) ==
    \E u \in Users :
        /\ failures[u] < MaxAttempts
        /\ Call(c, [Idle EXCEPT !.pc = "verify", !.user = u])

LocalLogin(c) ==
    /\ At(c, "verify") /\ AuthMode # "ldap"
    /\ account[request[c].user].active
    /\ Go(c, "open")
    /\ UNCHANGED <<account, session, failures, window, connection, seed,
                   calls, faults>>

\* LDAP finds the user and takes the password: the role its groups map to.
LdapAnswers == IF LdapEnabled THEN Roles ELSE {}

\* In hybrid mode also after the local login was refused.
LdapLogin(c) ==
    /\ At(c, "verify") /\ AuthMode # "local"
    /\ \E r \in LdapAnswers :
           account' = [account EXCEPT ![request[c].user] =
                                          [role |-> r, active |-> TRUE]]
    /\ Go(c, "open")
    /\ UNCHANGED <<session, failures, window, connection, seed, calls, faults>>

LoginRefused(c) ==
    /\ At(c, "verify")
    /\ Go(c, "refused")
    /\ UNCHANGED <<account, session, failures, window, connection, seed,
                   calls, faults>>

\* createSession, clear, and the cookie before which nobody knows the session.
OpenSession(c) ==
    /\ At(c, "open")
    /\ LET u == request[c].user IN
           /\ session' = [session EXCEPT ![c] = u]
           /\ failures' = [failures EXCEPT ![u] = 0]
           /\ window' = [window EXCEPT ![u] = 0]
    /\ Go(c, "audit")
    /\ UNCHANGED <<account, connection, seed, calls, faults>>

RecordLogin(c) ==
    /\ At(c, "audit")
    /\ Done(c)
    /\ UNCHANGED <<account, session, failures, window, connection, seed,
                   calls, faults>>

\* A mutant of RegisterFailure: the counter gets no expiry.
RegisterFailureForever(c) ==
    /\ At(c, "refused")
    /\ failures' = [failures EXCEPT ![request[c].user] = @ + 1]
    /\ Done(c)
    /\ UNCHANGED <<account, session, window, connection, seed, calls, faults>>

\* INCR with EXPIRE NX in one MULTI: a counter keeps its first window.
RegisterFailure(c) ==
    /\ At(c, "refused")
    /\ LET u == request[c].user IN
           /\ failures' = [failures EXCEPT ![u] = @ + 1]
           /\ window' = [window EXCEPT ![u] = IF @ = 0 THEN Window ELSE @]
    /\ Done(c)
    /\ UNCHANGED <<account, session, connection, seed, calls, faults>>

Tick ==
    /\ \E u \in Users : window[u] > 0
    /\ window' = [u \in Users |-> IF window[u] = 0 THEN 0 ELSE window[u] - 1]
    /\ failures' = [u \in Users |-> IF window[u] = 1 THEN 0 ELSE failures[u]]
    /\ UNCHANGED <<account, session, connection, request, seed, calls, faults>>

SignedIn(c) == session[c] # NoUser /\ account[session[c]].active

\* Logout, or the end of the session's SESSION_TTL_HOURS.
SessionEnds(c) ==
    /\ At(c, "idle") /\ session[c] # NoUser
    /\ calls < MaxCalls /\ calls' = calls + 1
    /\ session' = [session EXCEPT ![c] = NoUser]
    /\ UNCHANGED <<account, failures, window, connection, request, seed, faults>>

-----------------------------------------------------------------------------
(* Users.  The guards read the session with the account's role once; the   *)
(* service decides with that role and with the target's role it then reads. *)

As(c, pc) == [Idle EXCEPT !.pc = pc, !.user = session[c],
                          !.role = account[session[c]].role]
Allowed(c, roles) == SignedIn(c) /\ account[session[c]].role \in roles

AskUpdate(c) ==
    /\ Allowed(c, {"SUPER_ADMIN", "ADMIN"})
    /\ \E t \in Users, p \in Patches :
           Call(c, [As(c, "find") EXCEPT !.target = t, !.to = p.to, !.on = p.on])

\* A mutant of MayManage: a role may be changed by its owner.
MayManageOwnRole(r, t, targetRole) ==
    /\ t = r.user => r.on # FALSE
    /\ \/ r.role = "SUPER_ADMIN"
       \/ r.role = "ADMIN" /\ targetRole = "USER" /\ r.to \in {"USER", Keep}

\* assertActorCanManageTarget
MayManage(r, t, targetRole) ==
    /\ t = r.user => r.on # FALSE /\ r.to = Keep
    /\ \/ r.role = "SUPER_ADMIN"
       \/ r.role = "ADMIN" /\ targetRole = "USER" /\ r.to \in {"USER", Keep}

FindTarget(c) ==
    LET r == request[c] IN
    /\ At(c, "find")
    /\ IF account[r.target] # NoAccount /\ MayManage(r, r.target, account[r.target].role)
          THEN request' = [request EXCEPT ![c].pc = "update",
                                          ![c].was = account[r.target].role]
          ELSE Done(c)
    /\ UNCHANGED <<account, session, failures, window, connection, seed,
                   calls, faults>>

Given(field, old) == IF field = Keep THEN old ELSE field

UpdateUser(c) ==
    LET r == request[c] IN
    /\ At(c, "update")
    /\ account' = [account EXCEPT ![r.target] =
                      [role |-> Given(r.to, @.role), active |-> Given(r.on, @.active)]]
    /\ Done(c)
    /\ UNCHANGED <<session, failures, window, connection, seed, calls, faults>>

AskCreate(c) ==
    /\ Allowed(c, {"SUPER_ADMIN"})
    /\ \E t \in Users, to \in Roles :
           Call(c, [As(c, "create") EXCEPT !.target = t, !.to = to])

\* The username is unique.
CreateLocal(c) ==
    LET r == request[c] IN
    /\ At(c, "create")
    /\ account' = IF account[r.target] = NoAccount
                     THEN [account EXCEPT ![r.target] = [role |-> r.to, active |-> TRUE]]
                     ELSE account
    /\ Done(c)
    /\ UNCHANGED <<session, failures, window, connection, seed, calls, faults>>

-----------------------------------------------------------------------------
(* Connections.  Names stay as created. *)

Exists(n)  == connection[n] # "absent"
HasDefault == \E n \in Names : connection[n] = "default"

\* updateMany where isDefault: every default but one of keep.
Cleared(keep) ==
    [n \in Names |-> IF connection[n] = "default" /\ n \notin keep
                        THEN "plain" ELSE connection[n]]

\* Only a request for the default clears the others first.
AskCreateConnection(c) ==
    /\ Allowed(c, {"SUPER_ADMIN"})
    /\ \E n \in Names, on \in BOOLEAN :
           Call(c, [As(c, IF on THEN "clearAll" ELSE "insert")
                       EXCEPT !.name = n, !.on = on])

AskUpdateConnection(c) ==
    /\ Allowed(c, {"SUPER_ADMIN"})
    /\ \E n \in Names, on \in BOOLEAN \cup {Keep} :
           /\ Exists(n)
           /\ Call(c, [As(c, IF on = TRUE THEN "clearOthers" ELSE "put")
                          EXCEPT !.name = n, !.on = on])

\* First statement of create.
ClearAll(c) ==
    /\ At(c, "clearAll")
    /\ connection' = Cleared({})
    /\ Go(c, "insert")
    /\ UNCHANGED <<account, session, failures, window, seed, calls, faults>>

\* First statement of update.
ClearOthers(c) ==
    /\ At(c, "clearOthers")
    /\ connection' = Cleared({request[c].name})
    /\ Go(c, "put")
    /\ UNCHANGED <<account, session, failures, window, seed, calls, faults>>

Flag(on) == IF on THEN "default" ELSE "plain"

\* The name is unique: create fails after it has cleared.
InsertConnection(c) ==
    LET r == request[c] IN
    /\ At(c, "insert")
    /\ IF Exists(r.name)
          THEN connection' = connection /\ Go(c, "failed")
          ELSE /\ connection' = [connection EXCEPT ![r.name] = Flag(r.on)]
               /\ Done(c)
    /\ UNCHANGED <<account, session, failures, window, seed, calls, faults>>

\* A mutant of PutConnection: the flag is left as it was.
PutConnectionUnflagged(c) ==
    /\ At(c, "put")
    /\ Done(c)
    /\ UNCHANGED <<account, session, failures, window, connection, seed, calls, faults>>

PutConnection(c) ==
    LET r == request[c] IN
    /\ At(c, "put")
    /\ connection' = [connection EXCEPT ![r.name] = IF r.on = Keep THEN @ ELSE Flag(r.on)]
    /\ Done(c)
    /\ UNCHANGED <<account, session, failures, window, seed, calls, faults>>

\* getDefaultConnectionWithSecrets, of a file operation or a job, finds none.
FindNone(c) ==
    /\ ~HasDefault
    /\ Call(c, [Idle EXCEPT !.pc = "fallback"])

\* A mutant of FindEnv: an existing connection is returned as it is.
FindEnvUnmarked(c) ==
    /\ At(c, "fallback")
    /\ IF Exists(EnvName) THEN Done(c) ELSE Go(c, "wipe")
    /\ UNCHANGED <<account, session, failures, window, connection, seed,
                   calls, faults>>

\* ensureEnvFallbackConnection
FindEnv(c) ==
    /\ At(c, "fallback")
    /\ CASE connection[EnvName] = "default" -> Done(c)
         [] connection[EnvName] = "plain"   -> Go(c, "mark")
         [] connection[EnvName] = "absent"  -> Go(c, "wipe")
    /\ UNCHANGED <<account, session, failures, window, connection, seed,
                   calls, faults>>

MarkEnv(c) ==
    /\ At(c, "mark")
    /\ connection' = [connection EXCEPT ![EnvName] = "default"]
    /\ Done(c)
    /\ UNCHANGED <<account, session, failures, window, seed, calls, faults>>

Wipe(c) ==
    /\ At(c, "wipe")
    /\ connection' = Cleared({})
    /\ Go(c, "make")
    /\ UNCHANGED <<account, session, failures, window, seed, calls, faults>>

\* Another reader may have created it since.
MakeEnv(c) ==
    /\ At(c, "make")
    /\ IF Exists(EnvName)
          THEN connection' = connection /\ Go(c, "failed")
          ELSE connection' = [connection EXCEPT ![EnvName] = "default"] /\ Done(c)
    /\ UNCHANGED <<account, session, failures, window, seed, calls, faults>>

-----------------------------------------------------------------------------
(* The seed, the failure of a statement, and the specification *)

SeedUser ==
    /\ seed = "ready" /\ seed' = "clear"
    /\ calls < MaxCalls /\ calls' = calls + 1
    /\ account' = [account EXCEPT ![Root] = [role |-> "SUPER_ADMIN", active |-> TRUE]]
    /\ UNCHANGED <<session, failures, window, connection, request, faults>>

SeedClear ==
    /\ seed = "clear" /\ seed' = "put"
    /\ connection' = Cleared({})
    /\ UNCHANGED <<account, session, failures, window, request, calls, faults>>

SeedPut ==
    /\ seed = "put" /\ seed' = "done"
    /\ connection' = [connection EXCEPT ![EnvName] = "default"]
    /\ UNCHANGED <<account, session, failures, window, request, calls, faults>>

SeedFails ==
    /\ seed \in {"clear", "put"} /\ seed' = "failed"
    /\ faults < MaxFaults /\ faults' = faults + 1
    /\ UNCHANGED <<account, session, failures, window, connection, request, calls>>

\* A statement of the request throws before it takes effect.  The catch block
\* of login counts every error as a failed attempt, one after the session has
\* been opened included, but not its own.
StatementFails(c) ==
    /\ request[c].pc \notin {"idle", "failed"}
    /\ faults < MaxFaults /\ faults' = faults + 1
    /\ Go(c, IF request[c].pc \in {"verify", "open", "audit"} THEN "refused"
                                                              ELSE "failed")
    /\ UNCHANGED <<account, session, failures, window, connection, seed, calls>>

\* The error is answered.
Answer(c) ==
    /\ At(c, "failed")
    /\ Done(c)
    /\ UNCHANGED <<account, session, failures, window, connection, seed,
                   calls, faults>>

\* Steps of a request under way, each of which the server takes by itself.
Serve(c) ==
    \/ LocalLogin(c) \/ LdapLogin(c) \/ LoginRefused(c)
    \/ OpenSession(c) \/ RecordLogin(c) \/ RegisterFailure(c)
    \/ FindTarget(c) \/ UpdateUser(c) \/ CreateLocal(c)
    \/ ClearAll(c) \/ ClearOthers(c) \/ InsertConnection(c) \/ PutConnection(c)
    \/ FindEnv(c) \/ MarkEnv(c) \/ Wipe(c) \/ MakeEnv(c)
    \/ Answer(c)

Send(c) ==
    \/ LoginCheck(c) \/ AskUpdate(c) \/ AskCreate(c)
    \/ AskCreateConnection(c) \/ AskUpdateConnection(c)
    \/ FindNone(c) \/ SessionEnds(c)

Next ==
    \/ \E c \in Clients : Send(c) \/ Serve(c) \/ StatementFails(c)
    \/ Tick
    \/ SeedUser \/ SeedClear \/ SeedPut \/ SeedFails

Spec == Init /\ [][Next]_vars

FairSpec == Spec /\ WF_vars(Tick) /\ \A c \in Clients : WF_vars(Serve(c))

-----------------------------------------------------------------------------
(* Properties *)

Pcs == {"idle", "verify", "open", "audit", "refused", "find", "update", "create",
        "clearAll", "clearOthers", "insert", "put", "fallback", "mark", "wipe",
        "make", "failed"}

Requests ==
    [pc: Pcs, user: Users \cup {NoUser}, role: Roles \cup {"none"}, target: Users,
     was: Roles \cup {"none"}, to: Roles \cup {Keep}, on: BOOLEAN \cup {Keep},
     name: Names]

Accounts == [role: Roles, active: BOOLEAN]

\* Each variable has its type: no account gets a role or activity that is none.
TypeOK ==
    /\ account \in [Users -> {NoAccount} \cup Accounts]
    /\ session \in [Clients -> Users \cup {NoUser}]
    /\ failures \in [Users -> Nat]
    /\ window \in [Users -> 0..Window]
    /\ connection \in [Names -> {"absent", "plain", "default"}]
    /\ request \in [Clients -> Requests]
    /\ seed \in {"ready", "clear", "put", "done", "failed"}
    /\ calls \in 0..MaxCalls /\ faults \in 0..MaxFaults

\* Login attempts past the check whose outcome the counter does not show yet.
Pending(u) ==
    {c \in Clients : /\ request[c].user = u
                     /\ request[c].pc \in {"verify", "open", "audit", "refused"}}

\* The check reads the counter and the failure increments it much later: the
\* attempts that get through are still no more than MaxAttempts and one less
\* than there are attempts at once (login-rate-limiter.service.ts:18-33).
LimiterBound ==
    \A u \in Users :
        failures[u] + Cardinality(Pending(u)) < MaxAttempts + Cardinality(Clients)

\* A locked username becomes free: its counter always has an expiry, which no
\* later failure moves (redis.service.ts:90-92).
LockoutEnds ==
    \A u \in Users : failures[u] >= MaxAttempts ~> failures[u] < MaxAttempts

Super(u) == account[u] = [role |-> "SUPER_ADMIN", active |-> TRUE]

\* A request whose actor or target is not what the request decided on.
Stale(c) ==
    \/ account[request[c].user] # [role |-> request[c].role, active |-> TRUE]
    \/ account[request[c].target].role # request[c].was

\* The last active super admin is never demoted or deactivated but by LDAP's
\* role mapping, or by the update of a request whose actor or target has changed
\* since it was read (users.service.ts:114, 222-254): nobody may do it to oneself.
SuperAdminRemains ==
    [][(\E u \in Users : Super(u)) /\ ~(\E u \in Users : Super(u))'
          => \E c \in Clients :
                 \/ At(c, "verify") /\ request'[c].pc = "open"
                 \/ At(c, "update") /\ Stale(c) /\ request'[c].pc = "idle"]_vars

\* Some request, reader or seed is between clearing the defaults and setting one.
Replacing ==
    \/ seed = "put"
    \/ \E c \in Clients :
           \/ At(c, "make")
           \/ request[c].pc \in {"insert", "put"} /\ request[c].on = TRUE

\* However changes of the default, readers and the seed overlap, a default stays
\* or is about to be set, unless in this step the statement that was to set it
\* fails or an update withdraws the default by name (connections.service.ts:45, 97,
\* 281).
DefaultRemains ==
    [][HasDefault \/ Replacing
          => \/ HasDefault' \/ Replacing'
             \/ seed = "put" /\ seed' = "failed"
             \/ \E c \in Clients :
                    \/ /\ request[c].pc \in {"insert", "put", "make"}
                       /\ request'[c].pc = "failed"
                    \/ At(c, "put") /\ request[c].on = FALSE /\ request'[c].pc = "idle"]_vars

\* A reader that found no default gets one, or answers with an error
\* (connections.service.ts:261-301).
FallbackHeals ==
    \A c \in Clients :
        At(c, "fallback") ~> HasDefault \/ At(c, "failed")
=============================================================================
