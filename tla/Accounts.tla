------------------------------- MODULE Accounts ------------------------------
(***************************************************************************)
(* Accounts, tokens and the user management (webapp/auth).  The accounts   *)
(* are one SQLite file: a read is a statement of its own, a write is one   *)
(* transaction, and a request reads its user long before it writes.  A     *)
(* token carries the auth_version of its account; it is accepted while the *)
(* account is active and still has that version.  Accounts are never       *)
(* deleted.  Expiry by the clock only shortens the life of a token and is  *)
(* left out.  A request that is refused changes nothing: it ends as one    *)
(* that fails does.  Every entry migrates the file before it does anything *)
(* else.                                                                   *)
(***************************************************************************)
EXTENDS Naturals

CONSTANTS
    User,           \* account names
    Legacy,         \* accounts a file from before the permissions may have
    DemoAdmin,      \* the accounts of initialize_accounts: its administrator,
    DemoOperator,   \* its operators
    DemoEditor,     \* and the one who may edit
    Client,         \* browsers, each with the token it was given last
    Module,         \* the modules with permissions
    UserManagement, \* the one that gives access to the accounts
    Password,
    Submitted,      \* permissions a form or a caller may send
    MaxVersion,     \* bound on auth_version
    Omitted,        \* permissions that were not sent
    NoPassword,     \* an empty password field
    NoToken, NoJob

Role == {"admin", "operator"}
Level == {"NONE", "VIEW", "EDIT"}

ASSUME AccountsAssumption ==
    /\ Legacy \subseteq User
    /\ DemoAdmin \in User /\ DemoOperator \subseteq User \ {DemoAdmin}
    /\ UserManagement \in Module
    /\ Submitted \subseteq [Module -> Level]
    /\ Omitted \notin Submitted
    /\ NoPassword \notin Password
    /\ Password # {}
    /\ MaxVersion \in Nat

VARIABLES
    migrated,   \* the permissions table exists
    acct,       \* the accounts
    session,    \* the token of each client
    job         \* the request each client has running

vars == <<migrated, acct, session, job>>

-----------------------------------------------------------------------------
(* Tables *)

\* User Management is granted or not: it has no VIEW.
Permissions == {p \in [Module -> Level] : p[UserManagement] # "VIEW"}

Account ==
    [exists : BOOLEAN, role : Role, active : BOOLEAN, password : Password,
     version : 0 .. MaxVersion, perms : Permissions]

NoPermissions == [m \in Module |-> "NONE"]

RoleDefaults(role) ==
    [m \in Module |->
        IF role = "admin" THEN "EDIT"
        ELSE IF m = UserManagement THEN "NONE" ELSE "VIEW"]

\* Mutant: any level of User Management is accepted for an administrator.
AnyPermissions(perms, role) ==
    {p \in {perms} : role # "admin" => p[UserManagement] = "NONE"}

\* The permissions a request may store for a role; the others are refused.
Normalized(perms, role) ==
    {p \in {perms} : /\ p[UserManagement] # "VIEW"
                     /\ role # "admin" => p[UserManagement] = "NONE"}

IsManager(a) ==
    /\ a.exists /\ a.active /\ a.role = "admin"
    /\ a.perms[UserManagement] = "EDIT"

\* Mutant: the account being edited counts as a manager besides itself.
AllManagers(u) == {v \in User : u \in User /\ IsManager(acct[v])}

\* The managers besides one account.
OtherManagers(u) == {v \in User \ {u} : IsManager(acct[v])}

-----------------------------------------------------------------------------
(* Tokens *)

\* The claims are sub and version.  The rest is history: the password that was
\* verified, the version its row had, whether the account was still active when
\* the token was created.
Token ==
    [sub : User, version : 0 .. MaxVersion, password : Password,
     verified : 0 .. MaxVersion, live : BOOLEAN]

Accepted(t) == acct[t.sub].active /\ acct[t.sub].version = t.version

\* A request: checking a login, reading its user, acting for it, creating an
\* account found to be missing, changing a password that was verified.
Job ==
    [stage : {"LOGIN"}, who : User, password : Password, version : 0 .. MaxVersion]
        \cup [stage : {"ROW"}, who : User, role : Role]
        \cup [stage : {"USER"}, who : User, manager : BOOLEAN]
        \cup [stage : {"CREATE"}, target : User]
        \cup [stage : {"CHANGE"}, who : User, old : Password]

ASSUME NoneAssumption == NoToken \notin Token /\ NoJob \notin Job

AccountTypeOK ==
    /\ migrated \in BOOLEAN
    /\ acct \in [User -> Account]
    /\ session \in [Client -> Token \cup {NoToken}]
    /\ job \in [Client -> Job \cup {NoJob}]

NoAccount(p) ==
    [exists |-> FALSE, role |-> "operator", active |-> FALSE, password |-> p,
     version |-> 0, perms |-> NoPermissions]

\* The user table is empty, or older than permissions and versions.
Init ==
    /\ migrated = FALSE
    /\ \E p \in Password, legacy \in SUBSET Legacy :
          \E role \in [legacy -> Role], active \in [legacy -> BOOLEAN] :
             acct = [u \in User |->
                       IF u \in legacy
                       THEN [exists |-> TRUE, role |-> role[u], active |-> active[u],
                             password |-> p, version |-> 0, perms |-> NoPermissions]
                       ELSE NoAccount(p)]
    /\ session = [c \in Client |-> NoToken]
    /\ job = [c \in Client |-> NoJob]

\* The first start, or the first use of a tool, gives every account its defaults.
MigrateAccountDb ==
    /\ ~migrated
    /\ migrated' = TRUE
    /\ acct' = [u \in User |->
                  IF acct[u].exists
                  THEN [acct[u] EXCEPT !.perms = RoleDefaults(acct[u].role)]
                  ELSE acct[u]]
    /\ UNCHANGED <<session, job>>

-----------------------------------------------------------------------------
(* Logging in and out *)

\* The row is read and the password compared with what it held.
Login(c, u, typed) ==
    /\ migrated /\ job[c] = NoJob
    /\ acct[u].exists /\ acct[u].active
    /\ acct[u].password = typed
    /\ job' = [job EXCEPT ![c] = [stage |-> "LOGIN", who |-> u,
                                  password |-> typed, version |-> acct[u].version]]
    /\ UNCHANGED <<migrated, acct, session>>

\* The version is read again on a connection of its own.
CreateToken(c) ==
    /\ job[c] # NoJob /\ job[c].stage = "LOGIN"
    /\ LET a == acct[job[c].who] IN
         session' = [session EXCEPT ![c] =
                       [sub |-> job[c].who, version |-> a.version,
                        password |-> job[c].password, verified |-> job[c].version,
                        live |-> a.active]]
    /\ job' = [job EXCEPT ![c] = NoJob]
    /\ UNCHANGED <<migrated, acct>>

Logout(c) ==
    /\ job[c] = NoJob /\ session[c] # NoToken
    /\ session' = [session EXCEPT ![c] = NoToken]
    /\ UNCHANGED <<migrated, acct, job>>

-----------------------------------------------------------------------------
(* Requests: the user is read in two statements, then the handler runs. *)

ReadUser(c) ==
    /\ job[c] = NoJob /\ session[c] # NoToken
    /\ Accepted(session[c])
    /\ job' = [job EXCEPT ![c] =
                 [stage |-> "ROW", who |-> session[c].sub,
                  role |-> acct[session[c].sub].role]]
    /\ UNCHANGED <<migrated, acct, session>>

ReadPermissions(c) ==
    /\ job[c] # NoJob /\ job[c].stage = "ROW"
    /\ job' = [job EXCEPT ![c] =
                 [stage |-> "USER", who |-> job[c].who,
                  manager |-> /\ job[c].role = "admin"
                              /\ acct[job[c].who].perms[UserManagement] = "EDIT"]]
    /\ UNCHANGED <<migrated, acct, session>>

ActsFor(c) == job[c] # NoJob /\ job[c].stage = "USER"

\* What the user management asks of the user it read.
Manages(c) == ActsFor(c) /\ job[c].manager

Stored(c, u, a) ==
    /\ acct' = [acct EXCEPT ![u] = a]
    /\ job' = [job EXCEPT ![c] = NoJob]
    /\ UNCHANGED <<migrated, session>>

\* Mutant: a password that is set leaves the version.
PasswordOnly(a, p) == [a EXCEPT !.password = p]

WithPassword(a, p) == [a EXCEPT !.password = p, !.version = @ + 1]

-----------------------------------------------------------------------------
(* User management *)

CheckUsername(c, u) ==
    /\ Manages(c)
    /\ ~acct[u].exists
    /\ job' = [job EXCEPT ![c] = [stage |-> "CREATE", target |-> u]]
    /\ UNCHANGED <<migrated, acct, session>>

NewAccount(role, p, perms) ==
    [exists |-> TRUE, role |-> role, active |-> TRUE, password |-> p,
     version |-> 0, perms |-> perms]

\* The unique name decides when two requests found it free.
CreateAccount(c, role, p, sent) ==
    /\ job[c] # NoJob /\ job[c].stage = "CREATE"
    /\ ~acct[job[c].target].exists
    /\ \E perms \in Normalized(sent, role) :
          Stored(c, job[c].target, NewAccount(role, p, perms))

\* Permissions that were not sent stay; an operator cannot keep User Management.
Kept(a, role) ==
    IF role = "admin" THEN a.perms
    ELSE [a.perms EXCEPT ![UserManagement] = "NONE"]

NextPermissions(a, sent, role) ==
    IF sent = Omitted THEN {Kept(a, role)} ELSE Normalized(sent, role)

\* Mutant: only a password counts, not a deactivation.
BumpsOnPassword(a, active, p) == IF p # NoPassword THEN 1 ELSE 0

\* A new password or a deactivation ends the tokens of the account.
Bump(a, active, p) == IF p # NoPassword \/ (a.active /\ ~active) THEN 1 ELSE 0

Updated(a, role, active, p, perms) ==
    [a EXCEPT !.role = role, !.active = active, !.perms = perms,
              !.password = IF p = NoPassword THEN @ ELSE p,
              !.version = @ + Bump(a, active, p)]

\* BEGIN IMMEDIATE: the account and the managers are those of this write.
UpdateAccount(c, u, role, active, p, sent) ==
    /\ Manages(c)
    /\ acct[u].exists
    /\ u = job[c].who => active
    /\ acct[u].version + Bump(acct[u], active, p) <= MaxVersion
    /\ \E perms \in NextPermissions(acct[u], sent, role) :
          LET next == Updated(acct[u], role, active, p, perms)
          IN  /\ IsManager(next) \/ OtherManagers(u) # {}
              /\ Stored(c, u, next)

ResetAccountPassword(c, u, p) ==
    /\ Manages(c)
    /\ acct[u].exists
    /\ acct[u].version < MaxVersion
    /\ Stored(c, u, WithPassword(acct[u], p))

-----------------------------------------------------------------------------
(* A user's own password: verified on one connection, written on another. *)

VerifyOldPassword(c) ==
    /\ ActsFor(c)
    /\ job' = [job EXCEPT ![c] = [stage |-> "CHANGE", who |-> job[c].who,
                                  old |-> acct[job[c].who].password]]
    /\ UNCHANGED <<migrated, acct, session>>

ChangePassword(c, p) ==
    /\ job[c] # NoJob /\ job[c].stage = "CHANGE"
    /\ p # job[c].old
    /\ acct[job[c].who].version < MaxVersion
    /\ Stored(c, job[c].who, WithPassword(acct[job[c].who], p))

\* A read that ends, a refusal, a busy database or a lost connection.
EndRequest(c) ==
    /\ job[c] # NoJob
    /\ job' = [job EXCEPT ![c] = NoJob]
    /\ UNCHANGED <<migrated, acct, session>>

-----------------------------------------------------------------------------
(* The tools, run beside the server *)

DemoRole(u) == IF u = DemoAdmin THEN "admin" ELSE "operator"

DemoPermissions(u) ==
    [m \in Module |->
        IF u \in DemoEditor /\ m # UserManagement THEN "EDIT"
        ELSE RoleDefaults(DemoRole(u))[m]]

\* demo/initialize_accounts.py enters what is missing, in one transaction.
InitializeAccounts(p) ==
    /\ migrated
    /\ acct' = [u \in User |->
                  IF u \in {DemoAdmin} \cup DemoOperator /\ ~acct[u].exists
                  THEN NewAccount(DemoRole(u), p, DemoPermissions(u))
                  ELSE acct[u]]
    /\ UNCHANGED <<migrated, session, job>>

\* create_user.py
AddUser(u, role, p) ==
    /\ migrated
    /\ ~acct[u].exists
    /\ acct' = [acct EXCEPT ![u] = NewAccount(role, p, RoleDefaults(role))]
    /\ UNCHANGED <<migrated, session, job>>

Step(c) ==
    \/ \E u \in User, p \in Password : Login(c, u, p)
    \/ CreateToken(c)
    \/ Logout(c)
    \/ ReadUser(c)
    \/ ReadPermissions(c)
    \/ \E u \in User : CheckUsername(c, u)
    \/ \E role \in Role, p \in Password, sent \in Submitted : CreateAccount(c, role, p, sent)
    \/ \E u \in User, role \in Role, active \in BOOLEAN, p \in Password \cup {NoPassword},
          sent \in Submitted \cup {Omitted} : UpdateAccount(c, u, role, active, p, sent)
    \/ \E u \in User, p \in Password : ResetAccountPassword(c, u, p)
    \/ VerifyOldPassword(c)
    \/ \E p \in Password : ChangePassword(c, p)
    \/ EndRequest(c)

Next ==
    \/ MigrateAccountDb
    \/ \E c \in Client : Step(c)
    \/ \E p \in Password : InitializeAccounts(p)
    \/ \E u \in User, role \in Role, p \in Password : AddUser(u, role, p)

Spec == Init /\ [][Next]_vars

-----------------------------------------------------------------------------
(* Properties *)

\* Whatever managers do to each other at once, the last of them stays
\* (update_account).
ManagerRemains ==
    [][(\E u \in User : IsManager(acct[u])) => (\E u \in User : IsManager(acct[u]))']_vars

\* The account moved on between the two reads of the login.
Raced(t) == t.verified # t.version

\* An accepted token was given for the password the account has now: every way
\* of setting one ends the tokens before it (auth_version).  Not so a login that
\* verified the old password and reads the version after the change: its token
\* is accepted.
AcceptedUnderPassword ==
    \A c \in Client :
        session[c] # NoToken /\ Accepted(session[c]) /\ ~Raced(session[c]) =>
            session[c].password = acct[session[c].sub].password

\* A token that was once refused stays refused, also when the account is
\* activated again or gets its old password back.  Not so a login that verified
\* the password before a deactivation and reads the version after it.
RefusedStaysRefused ==
    [][\A c \in Client :
          /\ session[c] # NoToken /\ session'[c] = session[c]
          /\ session[c].live \/ ~Raced(session[c])
          /\ ~Accepted(session[c])
          => ~Accepted(session[c])']_vars
=============================================================================
