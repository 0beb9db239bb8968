-------------------------------- MODULE Accounts --------------------------------
(***************************************************************************)
(* Accounts, tokens and the gateway's configuration:                       *)
(*   app/api/onboarding_routes.py   sign-up, members, login, gateway setup *)
(*   app/api/auth.py                who a token stands for                 *)
(*   app/shared/rate_limit.py       RateLimiter                            *)
(*   app/shared/model_catalog.py    ModelCatalog                           *)
(*   the users of app/shared/adapters/postgres/metadata_store.py           *)
(*                                                                         *)
(* Every handler looks first and writes in a transaction of its own later, *)
(* so handlers interleave between the two.  A user is a position in users, *)
(* a tenant is the position of its first user, a token is a position in    *)
(* issued.  Passwords are right or wrong; audit entries and the models a   *)
(* tenant chooses are left out.                                            *)
(***************************************************************************)
EXTENDS Integers, Sequences, FiniteSets, SequencesExt

CONSTANTS
    Calls,        \* handlers running at a time
    Emails,
    Addresses,    \* of callers
    Gateways,     \* what the gateway may be configured to
    NoGateway,    \* no row in system_config
    EnvGateway,   \* the environment's gateway
    Operators,    \* settings.operator_user_ids
    MaxHits,      \* of every limiter
    Window,       \* of every limiter, in whole ticks of the clock
    Fresh,        \* the 60 seconds a catalog is used
    MaxUsers,     \* bound on the accounts
    MaxTokens     \* bound on the tokens

ASSUME AccountsAssumption ==
    /\ {MaxHits, Fresh, MaxUsers, MaxTokens} \subseteq Nat \ {0}
    /\ Window \in Nat
    /\ NoGateway \notin Gateways /\ EnvGateway \notin Gateways

VARIABLES
    users,     \* [tenant, email, role, active, password, token] each
    issued,    \* token -> the user it was given to
    gateway,   \* system_config's gateway
    catalog,   \* the catalog in memory, and for how long: [of, left]
    hits,      \* limiter key -> ages of the hits it counts
    call       \* what a handler knows between its steps

accountsVars == <<users, issued, gateway, catalog, hits, call>>

Nobody == 0
NoEmail == "removed"
Idle == [op |-> "idle", user |-> Nobody, email |-> NoEmail, role |-> "none", target |-> Nobody, of |-> NoGateway]
NoCatalog == [of |-> NoGateway, left |-> 0]
Keys == {"register", "login"} \X Addresses \cup {"email"} \X Emails

Users == 1..Len(users)
Tenants == {users[u].tenant : u \in Users}

\* get_principal_by_token, get_user_by_email and has_registered_users.
Opens(t) == {u \in Users : users[u].token = t /\ users[u].active}
ByEmail(email) == {u \in Users : users[u].email = email /\ users[u].active}
Registered == \E u \in Users : users[u].password

Admin(u) == u \in Users /\ users[u].active /\ users[u].role = "admin"

\* The unique indexes on the emails of accounts with a password, and of a tenant.
EmailTaken(tenant, email) ==
    \E u \in Users : users[u].email = email /\ (users[u].password \/ users[u].tenant = tenant)

AccountsTypeOK ==
    /\ users \in Seq([tenant : Nat \ {0}, email : Emails \cup {NoEmail}, role : {"admin", "member"},
                      active : BOOLEAN, password : BOOLEAN, token : 0..MaxTokens])
    /\ Len(users) <= MaxUsers
    /\ issued \in Seq(Users) /\ Len(issued) <= MaxTokens
    /\ gateway \in Gateways \cup {NoGateway}
    /\ catalog.of \in Gateways \cup {NoGateway, EnvGateway} /\ catalog.left \in 0..Fresh
    /\ \A k \in Keys : hits[k] \in Seq(0..Window)
    /\ \A c \in Calls : call[c].op \in {"idle", "register", "models", "member", "delete", "login", "setup"}

\* A new deployment, or one whose first account a script made.
AccountsInit ==
    /\ \/ users = <<>> /\ issued = <<>>
       \/ \E email \in Emails :
             users = <<[tenant |-> 1, email |-> email, role |-> "admin", active |-> TRUE,
                        password |-> FALSE, token |-> 1]>> /\ issued = <<1>>
    /\ gateway = NoGateway
    /\ catalog = NoCatalog
    /\ hits = [k \in Keys |-> <<>>]
    /\ call = [c \in Calls |-> Idle]

(***************************************************************************)
(* RateLimiter: a hit that is refused is not added to those that count.    *)
(***************************************************************************)
Allowed(k) == Len(hits[k]) < MaxHits

\* The oldest hits are dropped while they are out of the window.
Recent(h) ==
    LET kept == {i \in DOMAIN h : h[i] <= Window}
    IN  IF kept = {} THEN <<>> ELSE SubSeq(h, Min(kept), Len(h))

Hit(ks) == hits' = [k \in Keys |-> IF k \in ks /\ Allowed(k) THEN Append(hits[k], 0) ELSE hits[k]]

(***************************************************************************)
(* Registration                                                            *)
(***************************************************************************)
RegisterBegins(c) ==
    /\ call[c] = Idle
    /\ \E ip \in Addresses, email \in Emails :
          /\ Hit({<<"register", ip>>})
          /\ Allowed(<<"register", ip>>) /\ ByEmail(email) = {}
          /\ call' = [call EXCEPT ![c] = [Idle EXCEPT !.op = "models", !.email = email,
                                                      !.of = IF gateway = NoGateway THEN EnvGateway ELSE gateway]]
    /\ UNCHANGED <<users, issued, gateway, catalog>>

\* ModelCatalog.get, under its lock: the configuration was read before the lock was
\* had, and what is kept is kept for that configuration.
ModelsChecked(c) ==
    /\ call[c].op = "models"
    /\ catalog' = IF catalog.of = call[c].of THEN catalog
                  ELSE [of |-> call[c].of, left |-> Fresh]
    /\ call' = [call EXCEPT ![c].op = "register"]
    /\ UNCHANGED <<users, issued, gateway, hits>>

Account(tenant, email, role) ==
    [tenant |-> tenant, email |-> email, role |-> role, active |-> TRUE, password |-> TRUE,
     token |-> Len(issued) + 1]

\* The row is added with a token of its own, or the index refuses it.
AddUser(tenant, email, role) ==
    IF EmailTaken(tenant, email) THEN UNCHANGED <<users, issued>>
    ELSE /\ users' = Append(users, Account(tenant, email, role))
         /\ issued' = Append(issued, Len(users) + 1)

Room == Len(users) < MaxUsers /\ Len(issued) < MaxTokens

CreateWorkspace(c) ==
    /\ call[c].op = "register" /\ Room
    /\ AddUser(Len(users) + 1, call[c].email, "admin")
    /\ call' = [call EXCEPT ![c] = Idle]
    /\ UNCHANGED <<gateway, catalog, hits>>

(***************************************************************************)
(* Members.  The caller is the administrator the token stood for when the  *)
(* request came.                                                           *)
(***************************************************************************)
MemberBegins(c) ==
    /\ call[c] = Idle
    /\ \E t \in 1..Len(issued), ip \in Addresses, email \in Emails, role \in {"admin", "member"} :
         \E u \in Opens(t) :
          /\ Admin(u)
          /\ Hit({<<"register", ip>>})
          /\ Allowed(<<"register", ip>>) /\ ByEmail(email) = {}
          /\ call' = [call EXCEPT ![c] = [Idle EXCEPT !.op = "member", !.user = u, !.email = email, !.role = role]]
    /\ UNCHANGED <<users, issued, gateway, catalog>>

CreateMember(c) ==
    /\ call[c].op = "member" /\ Room
    /\ AddUser(users[call[c].user].tenant, call[c].email, call[c].role)
    /\ call' = [call EXCEPT ![c] = Idle]
    /\ UNCHANGED <<gateway, catalog, hits>>

DeleteBegins(c) ==
    /\ call[c] = Idle
    /\ \E t \in 1..Len(issued), target \in Users : \E u \in Opens(t) :
          /\ Admin(u)
          /\ call' = [call EXCEPT ![c] = [Idle EXCEPT !.op = "delete", !.user = u, !.target = target]]
    /\ UNCHANGED <<users, issued, gateway, catalog, hits>>

\* Defect: the caller is taken to be an administrator still.
MayDeleteOnce(u, target) ==
    /\ u # target
    /\ users[target].tenant = users[u].tenant /\ users[target].active

\* Nobody deletes themselves, and the one who deletes is still an administrator.
MayDelete(u, target) ==
    /\ Admin(u) /\ u # target
    /\ users[target].tenant = users[u].tenant /\ users[target].active

DeleteMember(c) ==
    /\ call[c].op = "delete"
    /\ users' = IF MayDelete(call[c].user, call[c].target)
                THEN [users EXCEPT ![call[c].target].active = FALSE, ![call[c].target].password = FALSE,
                                   ![call[c].target].token = 0, ![call[c].target].email = NoEmail]
                ELSE users
    /\ call' = [call EXCEPT ![c] = Idle]
    /\ UNCHANGED <<issued, gateway, catalog, hits>>

(***************************************************************************)
(* Login: both limiters count, and the account is looked up before its     *)
(* token is replaced.                                                      *)
(***************************************************************************)
LoginKeys(email, ip) == {<<"email", email>>, <<"login", ip>>}

\* A request that is turned away, a sign-up too, has had its hits all the same.
Refused(c) ==
    /\ call[c] = Idle
    /\ \E email \in Emails, ip \in Addresses : Hit(LoginKeys(email, ip)) \/ Hit({<<"register", ip>>})
    /\ UNCHANGED <<users, issued, gateway, catalog, call>>

LoginBegins(c) ==
    /\ call[c] = Idle
    /\ \E email \in Emails, ip \in Addresses :
          /\ Hit(LoginKeys(email, ip))
          /\ \A k \in LoginKeys(email, ip) : Allowed(k)
          /\ \E u \in ByEmail(email) :
                /\ users[u].password
                /\ call' = [call EXCEPT ![c] = [Idle EXCEPT !.op = "login", !.user = u, !.email = email]]
    /\ UNCHANGED <<users, issued, gateway, catalog>>

RotateToken(c) ==
    /\ call[c].op = "login" /\ Len(issued) < MaxTokens
    /\ hits' = [hits EXCEPT ![<<"email", call[c].email>>] = <<>>]
    /\ users' = [users EXCEPT ![call[c].user].token = Len(issued) + 1]
    /\ issued' = Append(issued, call[c].user)
    /\ call' = [call EXCEPT ![c] = Idle]
    /\ UNCHANGED <<gateway, catalog>>

(***************************************************************************)
(* The gateway: first-run setup, and the operators' change of it.          *)
(***************************************************************************)
SetupBegins(c) ==
    /\ call[c] = Idle
    /\ ~Registered /\ gateway = NoGateway
    /\ \E g \in Gateways : call' = [call EXCEPT ![c] = [Idle EXCEPT !.op = "setup", !.of = g]]
    /\ UNCHANGED <<users, issued, gateway, catalog, hits>>

ConfigBegins(c) ==
    /\ call[c] = Idle
    /\ \E t \in 1..Len(issued), g \in Gateways : \E u \in Opens(t) :
          /\ Admin(u) /\ u \in Operators
          /\ call' = [call EXCEPT ![c] = [Idle EXCEPT !.op = "setup", !.user = u, !.of = g]]
    /\ UNCHANGED <<users, issued, gateway, catalog, hits>>

\* The gateway was asked for its models in between.
SetGateway(c) ==
    /\ call[c].op = "setup"
    /\ gateway' = call[c].of
    /\ call' = [call EXCEPT ![c] = Idle]
    /\ UNCHANGED <<users, issued, catalog, hits>>

(***************************************************************************)
(* A handler may end without writing, and the process may start anew.      *)
(***************************************************************************)
Abandon(c) ==
    /\ call[c] # Idle
    /\ call' = [call EXCEPT ![c] = Idle]
    /\ UNCHANGED <<users, issued, gateway, catalog, hits>>

Restart ==
    /\ hits' = [k \in Keys |-> <<>>]
    /\ catalog' = NoCatalog
    /\ call' = [c \in Calls |-> Idle]
    /\ UNCHANGED <<users, issued, gateway>>

\* Time passes: hits leave their window, the catalog grows stale.
AccountsTick ==
    /\ hits' = [k \in Keys |-> Recent([i \in 1..Len(hits[k]) |-> hits[k][i] + 1])]
    /\ catalog' = IF catalog.left > 1 THEN [catalog EXCEPT !.left = @ - 1] ELSE NoCatalog
    /\ UNCHANGED <<users, issued, gateway, call>>

AccountsNext ==
    \/ \E c \in Calls :
          \/ RegisterBegins(c) \/ ModelsChecked(c) \/ CreateWorkspace(c)
          \/ MemberBegins(c) \/ CreateMember(c) \/ DeleteBegins(c) \/ DeleteMember(c)
          \/ Refused(c) \/ LoginBegins(c) \/ RotateToken(c)
          \/ SetupBegins(c) \/ ConfigBegins(c) \/ SetGateway(c) \/ Abandon(c)
    \/ Restart \/ AccountsTick

(***************************************************************************)
(* Properties                                                              *)
(***************************************************************************)
\* No tenant is left without an administrator, whoever deletes whom at once.
AdminRemains == \A t \in Tenants : \E u \in Users : users[u].tenant = t /\ Admin(u)

\* An email with a password is one account.
EmailsDistinct ==
    \A u, v \in Users : users[u].password /\ users[v].password /\ users[u].email = users[v].email => u = v

\* A token opens the account it was given for, until that account has another or
\* is deleted, and nothing else: not what its email stands for later.
TokensTruthful ==
    \A t \in 1..Len(issued) :
      LET last == \A later \in (t + 1)..Len(issued) : issued[later] # issued[t]
      IN  Opens(t) = {u \in {issued[t]} : users[u].active /\ last}

\* Whatever sign-ups, logins and deletions interleave, no tenant loses its last
\* administrator, no email gets two accounts, and no token opens another account.
AccountsSound == AdminRemains /\ EmailsDistinct /\ TokensTruthful
================================================================================
