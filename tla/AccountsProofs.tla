---------------------------- MODULE AccountsProofs ---------------------------
(***************************************************************************)
(* Proofs about Accounts for any users, first accounts, clients, modules,  *)
(* passwords, forms and versions.                                          *)
(***************************************************************************)
EXTENDS Accounts, TLAPS

\* What an existing account may become: its version never goes back, and grows
\* with a new password and with a deactivation.
Succeeds(a, b) ==
    /\ b.exists
    /\ a.version <= b.version
    /\ b.version = a.version => b.password = a.password /\ (a.active => b.active)

\* What a write may do to one account.
Writes(u, a) ==
    /\ a \in Account
    /\ acct' = [acct EXCEPT ![u] = a]
    /\ acct[u].exists => Succeeds(acct[u], a)
    /\ IsManager(acct[u]) /\ ~IsManager(a) => OtherManagers(u) # {}

\* Somebody may manage accounts.
Managed == \E u \in User : IsManager(acct[u])

\* Before the first start nobody is logged in, and nobody has a permission.
UntouchedBefore ==
    ~migrated =>
        /\ \A u \in User : acct[u].perms = NoPermissions
        /\ \A c \in Client : session[c] = NoToken /\ job[c] = NoJob

\* A verified login is older than its account, or has its password and an active account.
LoginIsBehind(j, a) ==
    /\ a.exists
    /\ j.version <= a.version
    /\ j.version = a.version => j.password = a.password /\ a.active

LoginsAreBehind ==
    \A c \in Client :
        job[c] # NoJob /\ job[c].stage = "LOGIN" => LoginIsBehind(job[c], acct[job[c].who])

\* A token is older than its account; or its account is active if it was when
\* the token was created, and one that was not raced has its password.
IsBehind(t, a) ==
    /\ a.exists
    /\ ~Raced(t) => t.live
    /\ t.version <= a.version
    /\ t.version = a.version =>
          /\ t.live => a.active
          /\ ~Raced(t) => t.password = a.password

TokensAreBehind ==
    \A c \in Client : session[c] # NoToken => IsBehind(session[c], acct[session[c].sub])

IInv ==
    /\ AccountTypeOK
    /\ UntouchedBefore
    /\ LoginsAreBehind
    /\ TokensAreBehind

-----------------------------------------------------------------------------
(* Types *)

LEMMA JobFields ==
    ASSUME NEW j \in Job
    PROVE  /\ j.stage \in {"LOGIN", "ROW", "USER", "CHANGE"} => j.who \in User
           /\ j.stage = "ROW" => j.role \in Role
           /\ j.stage = "CREATE" => j.target \in User
           /\ j.stage = "CHANGE" => j.old \in Password
           /\ j.stage = "LOGIN" => j.password \in Password /\ j.version \in 0 .. MaxVersion
BY DEF Job

LEMMA AccountFields ==
    ASSUME AccountTypeOK, NEW u \in User
    PROVE  /\ acct[u] \in Account
           /\ acct[u].exists \in BOOLEAN /\ acct[u].active \in BOOLEAN
           /\ acct[u].role \in Role /\ acct[u].password \in Password
           /\ acct[u].version \in 0 .. MaxVersion
           /\ acct[u].perms \in Permissions
BY DEF AccountTypeOK, Account

LEMMA DefaultsType == \A role \in Role : RoleDefaults(role) \in Permissions
BY AccountsAssumption DEF Role, RoleDefaults, Permissions, Level

LEMMA DemoType == \A u \in User : DemoRole(u) \in Role /\ DemoPermissions(u) \in Permissions
<1> SUFFICES ASSUME NEW u \in User
             PROVE  DemoRole(u) \in Role /\ DemoPermissions(u) \in Permissions
  OBVIOUS
<1>1. DemoRole(u) \in Role
  BY DEF DemoRole, Role
<1>2. RoleDefaults(DemoRole(u)) \in Permissions
  BY <1>1, DefaultsType
<1>3. QED
  BY <1>1, <1>2, AccountsAssumption DEF DemoPermissions, Permissions, Level

LEMMA NormalizedType ==
    ASSUME NEW sent \in Submitted, NEW role \in Role, NEW perms \in Normalized(sent, role)
    PROVE  perms \in Permissions
BY AccountsAssumption DEF Normalized, Permissions

LEMMA KeptType ==
    ASSUME NEW a \in Account, NEW role \in Role
    PROVE  Kept(a, role) \in Permissions
<1>1. a.perms \in Permissions
  BY DEF Account
<1>2. [a.perms EXCEPT ![UserManagement] = "NONE"] \in Permissions
  BY <1>1, AccountsAssumption DEF Permissions, Level
<1>3. QED
  BY <1>1, <1>2 DEF Kept

LEMMA NewType ==
    ASSUME NEW role \in Role, NEW p \in Password, NEW perms \in Permissions
    PROVE  NewAccount(role, p, perms) \in Account
BY AccountsAssumption DEF NewAccount, Account

LEMMA PasswordType ==
    ASSUME NEW a \in Account, NEW p \in Password, a.version < MaxVersion
    PROVE  /\ WithPassword(a, p) \in Account
           /\ a.exists => Succeeds(a, WithPassword(a, p))
           /\ IsManager(WithPassword(a, p)) <=> IsManager(a)
<1>1. a.version \in Nat /\ a.version + 1 \in 0 .. MaxVersion /\ ~(a.version + 1 <= a.version)
  BY AccountsAssumption DEF Account
<1>2. WithPassword(a, p) \in Account
  BY <1>1 DEF WithPassword, Account
<1>3. /\ WithPassword(a, p).exists = a.exists
      /\ WithPassword(a, p).version = a.version + 1
      /\ WithPassword(a, p).active = a.active
      /\ WithPassword(a, p).role = a.role
      /\ WithPassword(a, p).perms = a.perms
  BY DEF WithPassword, Account
<1>4. QED
  BY <1>1, <1>2, <1>3 DEF Succeeds, IsManager

LEMMA UpdatedType ==
    ASSUME NEW a \in Account, NEW role \in Role, NEW active \in BOOLEAN,
           NEW p \in Password \cup {NoPassword}, NEW perms \in Permissions,
           a.version + Bump(a, active, p) <= MaxVersion
    PROVE  /\ Updated(a, role, active, p, perms) \in Account
           /\ a.exists => Succeeds(a, Updated(a, role, active, p, perms))
<1> DEFINE b == Updated(a, role, active, p, perms)
<1>1. Bump(a, active, p) \in {0, 1} /\ a.version \in Nat
  BY AccountsAssumption DEF Bump, Account
<1>2. a.version + Bump(a, active, p) \in 0 .. MaxVersion
  BY <1>1, AccountsAssumption
<1>3. /\ b.exists = a.exists /\ b.active = active
      /\ b.version = a.version + Bump(a, active, p)
      /\ b.password = IF p = NoPassword THEN a.password ELSE p
  BY DEF Updated, Account
<1>4. b \in Account
  BY <1>2 DEF Updated, Account
<1>5. ASSUME b.version = a.version
      PROVE  b.password = a.password /\ (a.active => b.active)
  <2>1. Bump(a, active, p) = 0
    BY <1>1, <1>3, <1>5
  <2>2. p = NoPassword /\ ~(a.active /\ ~active)
    BY <2>1 DEF Bump
  <2>3. QED
    BY <1>3, <2>2
<1>6. a.version <= b.version
  BY <1>1, <1>3
<1>7. a.exists => Succeeds(a, b)
  BY <1>3, <1>5, <1>6 DEF Succeeds
<1>8. QED
  BY <1>4, <1>7

-----------------------------------------------------------------------------
(* The writes *)

LEMMA CreateAccountWrites ==
    ASSUME AccountTypeOK, NEW c \in Client, NEW role \in Role, NEW p \in Password,
           NEW sent \in Submitted, CreateAccount(c, role, p, sent)
    PROVE  /\ \E u \in User, a \in Account : Writes(u, a)
           /\ job' = [job EXCEPT ![c] = NoJob] /\ UNCHANGED <<migrated, session>>
<1>1. job[c] \in Job /\ job[c].stage = "CREATE" /\ ~acct[job[c].target].exists
  BY DEF CreateAccount, AccountTypeOK
<1>2. job[c].target \in User
  BY <1>1, JobFields
<1>3. PICK perms \in Normalized(sent, role) :
        Stored(c, job[c].target, NewAccount(role, p, perms))
  BY DEF CreateAccount
<1>4. NewAccount(role, p, perms) \in Account
  BY NormalizedType, NewType
<1>5. ~IsManager(acct[job[c].target])
  BY <1>1 DEF IsManager
<1>6. Writes(job[c].target, NewAccount(role, p, perms))
  BY <1>1, <1>3, <1>4, <1>5 DEF Writes, Stored
<1>7. QED
  BY <1>2, <1>3, <1>4, <1>6 DEF Stored

LEMMA UpdateAccountWrites ==
    ASSUME AccountTypeOK, NEW c \in Client, NEW u \in User, NEW role \in Role,
           NEW active \in BOOLEAN, NEW p \in Password \cup {NoPassword},
           NEW sent \in Submitted \cup {Omitted},
           UpdateAccount(c, u, role, active, p, sent)
    PROVE  /\ \E a \in Account : Writes(u, a)
           /\ job' = [job EXCEPT ![c] = NoJob] /\ UNCHANGED <<migrated, session>>
<1>1. PICK perms \in NextPermissions(acct[u], sent, role) :
        /\ IsManager(Updated(acct[u], role, active, p, perms)) \/ OtherManagers(u) # {}
        /\ Stored(c, u, Updated(acct[u], role, active, p, perms))
  BY DEF UpdateAccount
<1>2. acct[u] \in Account /\ acct[u].exists
  BY AccountFields DEF UpdateAccount
<1>3. perms \in Permissions
  <2>1. CASE sent = Omitted
    BY <1>1, <1>2, <2>1, KeptType DEF NextPermissions
  <2>2. CASE sent # Omitted
    BY <1>1, <2>2, NormalizedType DEF NextPermissions
  <2>3. QED
    BY <2>1, <2>2
<1>4. /\ Updated(acct[u], role, active, p, perms) \in Account
      /\ Succeeds(acct[u], Updated(acct[u], role, active, p, perms))
  BY <1>2, <1>3, UpdatedType DEF UpdateAccount
<1>5. Writes(u, Updated(acct[u], role, active, p, perms))
  BY <1>1, <1>4 DEF Writes, Stored
<1>6. QED
  BY <1>1, <1>4, <1>5 DEF Stored

LEMMA PasswordWrites ==
    ASSUME AccountTypeOK, NEW c \in Client, NEW u \in User, NEW p \in Password,
           acct[u].version < MaxVersion, Stored(c, u, WithPassword(acct[u], p))
    PROVE  /\ \E a \in Account : Writes(u, a)
           /\ job' = [job EXCEPT ![c] = NoJob] /\ UNCHANGED <<migrated, session>>
<1>1. acct[u] \in Account
  BY AccountFields
<1>2. /\ WithPassword(acct[u], p) \in Account
      /\ acct[u].exists => Succeeds(acct[u], WithPassword(acct[u], p))
      /\ IsManager(WithPassword(acct[u], p)) <=> IsManager(acct[u])
  BY <1>1, PasswordType
<1>3. Writes(u, WithPassword(acct[u], p))
  BY <1>2 DEF Writes, Stored
<1>4. QED
  BY <1>2, <1>3 DEF Stored

LEMMA AddUserWrites ==
    ASSUME AccountTypeOK, NEW u \in User, NEW role \in Role, NEW p \in Password,
           AddUser(u, role, p)
    PROVE  /\ \E a \in Account : Writes(u, a)
           /\ UNCHANGED <<migrated, session, job>>
<1>1. NewAccount(role, p, RoleDefaults(role)) \in Account
  BY DefaultsType, NewType
<1>2. ~IsManager(acct[u])
  BY DEF AddUser, IsManager
<1>3. Writes(u, NewAccount(role, p, RoleDefaults(role)))
  BY <1>1, <1>2 DEF AddUser, Writes
<1>4. QED
  BY <1>1, <1>3 DEF AddUser

-----------------------------------------------------------------------------
(* What a step does to the invariant *)

LEMMA LoginStays ==
    ASSUME NEW j, j.version \in Nat, NEW a \in Account, NEW b \in Account,
           LoginIsBehind(j, a), Succeeds(a, b)
    PROVE  LoginIsBehind(j, b)
<1>1. a.version \in Nat /\ b.version \in Nat
  BY AccountsAssumption DEF Account
<1>2. j.version <= a.version /\ a.version <= b.version /\ b.exists
  BY DEF LoginIsBehind, Succeeds
<1>3. j.version = b.version => j.version = a.version /\ b.version = a.version
  BY <1>1, <1>2
<1>4. QED
  BY <1>1, <1>2, <1>3 DEF LoginIsBehind, Succeeds

LEMMA BehindStays ==
    ASSUME NEW t \in Token, NEW a \in Account, NEW b \in Account,
           IsBehind(t, a), Succeeds(a, b)
    PROVE  IsBehind(t, b)
<1>1. t.version \in Nat /\ a.version \in Nat /\ b.version \in Nat
  BY AccountsAssumption DEF Token, Account
<1>2. t.version <= a.version /\ a.version <= b.version /\ b.exists
  BY DEF IsBehind, Succeeds
<1>3. t.version = b.version => t.version = a.version /\ b.version = a.version
  BY <1>1, <1>2
<1>4. QED
  BY <1>1, <1>2, <1>3 DEF IsBehind, Succeeds

LEMMA Migrated ==
    ASSUME IInv, NEW c \in Client, job[c] # NoJob \/ session[c] # NoToken
    PROVE  migrated
BY DEF IInv, UntouchedBefore

\* What accounts that succeed themselves leave true.
LEMMA WriteKeeps ==
    ASSUME IInv, migrated', UNCHANGED session,
           acct' \in [User -> Account],
           \A v \in User : acct[v].exists => Succeeds(acct[v], acct'[v]),
           job' \in [Client -> Job \cup {NoJob}],
           \A c \in Client : job'[c] = job[c] \/ job'[c] = NoJob
    PROVE  IInv'
<1>1. /\ acct \in [User -> Account] /\ session \in [Client -> Token \cup {NoToken}]
      /\ job \in [Client -> Job \cup {NoJob}]
  BY DEF IInv, AccountTypeOK
<1>2. AccountTypeOK' /\ UntouchedBefore'
  BY <1>1 DEF AccountTypeOK, UntouchedBefore
<1>3. LoginsAreBehind'
  <2>1. SUFFICES ASSUME NEW c \in Client, job'[c] # NoJob, job'[c].stage = "LOGIN"
                 PROVE  LoginIsBehind(job'[c], acct'[job'[c].who])
    BY DEF LoginsAreBehind
  <2> DEFINE j == job[c]
  <2>2. job'[c] = j /\ j \in Job /\ j.stage = "LOGIN" /\ LoginIsBehind(j, acct[j.who])
    BY <1>1, <2>1 DEF IInv, LoginsAreBehind
  <2>3. j.who \in User /\ j.version \in Nat
    BY <2>2, JobFields, AccountsAssumption
  <2>4. Succeeds(acct[j.who], acct'[j.who])
    BY <2>2, <2>3 DEF LoginIsBehind
  <2>5. acct[j.who] \in Account /\ acct'[j.who] \in Account
    BY <1>1, <2>3
  <2>6. QED
    BY <2>2, <2>3, <2>4, <2>5, LoginStays
<1>4. TokensAreBehind'
  <2>1. SUFFICES ASSUME NEW c \in Client, session[c] # NoToken
                 PROVE  IsBehind(session[c], acct'[session[c].sub])
    BY DEF TokensAreBehind
  <2>2. session[c] \in Token /\ session[c].sub \in User
    BY <1>1, <2>1 DEF Token
  <2>3. IsBehind(session[c], acct[session[c].sub])
    BY <2>1 DEF IInv, TokensAreBehind
  <2>4. Succeeds(acct[session[c].sub], acct'[session[c].sub])
    BY <2>2, <2>3 DEF IsBehind
  <2>5. acct[session[c].sub] \in Account /\ acct'[session[c].sub] \in Account
    BY <1>1, <2>2
  <2>6. QED
    BY <2>2, <2>3, <2>4, <2>5, BehindStays
<1>5. QED
  BY <1>2, <1>3, <1>4 DEF IInv

\* A write of one account.
LEMMA OneWrite ==
    ASSUME AccountTypeOK, NEW u \in User, NEW a \in Account, Writes(u, a)
    PROVE  /\ acct' \in [User -> Account]
           /\ \A v \in User : acct[v].exists => Succeeds(acct[v], acct'[v])
           /\ Managed => Managed'
<1>1. acct \in [User -> Account] /\ acct' \in [User -> Account]
  BY DEF Writes, AccountTypeOK
<1>2. acct'[u] = a /\ \A v \in User \ {u} : acct'[v] = acct[v]
  BY <1>1 DEF Writes
<1>3. ASSUME NEW v \in User, acct[v].exists
      PROVE  Succeeds(acct[v], acct'[v])
  <2>1. CASE v = u
    BY <1>2, <1>3, <2>1 DEF Writes
  <2>2. CASE v # u
    <3>1. acct'[v] = acct[v] /\ acct[v].version \in Nat
      BY <1>1, <1>2, <2>2, AccountsAssumption DEF Account
    <3>2. QED
      BY <1>3, <3>1 DEF Succeeds
  <2>3. QED
    BY <2>1, <2>2
<1>4. ASSUME Managed PROVE Managed'
  <2>1. PICK v \in User : IsManager(acct[v])
    BY <1>4 DEF Managed
  <2>2. CASE IsManager(a)
    BY <1>2, <2>2 DEF Managed
  <2>3. CASE ~IsManager(a) /\ v # u
    BY <1>2, <2>1, <2>3 DEF Managed
  <2>4. CASE ~IsManager(a) /\ v = u
    <3>1. PICK w \in User \ {u} : IsManager(acct[w])
      BY <2>1, <2>4 DEF Writes, OtherManagers
    <3>2. QED
      BY <1>2, <3>1 DEF Managed
  <2>5. QED
    BY <2>2, <2>3, <2>4
<1>5. QED
  BY <1>1, <1>3, <1>4

\* What a step that writes no account has to do.
LEMMA ReadKeeps ==
    ASSUME IInv, migrated, UNCHANGED <<migrated, acct>>,
           session' \in [Client -> Token \cup {NoToken}],
           job' \in [Client -> Job \cup {NoJob}],
           \A c \in Client :
              session'[c] # NoToken /\ session'[c] # session[c] =>
                  IsBehind(session'[c], acct[session'[c].sub]),
           \A c \in Client :
              job'[c] # NoJob /\ job'[c] # job[c] /\ job'[c].stage = "LOGIN" =>
                  LoginIsBehind(job'[c], acct[job'[c].who])
    PROVE  IInv'
<1>1. AccountTypeOK'
  BY DEF IInv, AccountTypeOK
<1>2. UntouchedBefore'
  BY DEF UntouchedBefore
<1>3. LoginsAreBehind'
  BY DEF IInv, LoginsAreBehind
<1>4. TokensAreBehind'
  BY DEF IInv, TokensAreBehind
<1>5. QED
  BY <1>1, <1>2, <1>3, <1>4 DEF IInv

LEMMA MigrateKeeps ==
    ASSUME IInv, MigrateAccountDb
    PROVE  /\ IInv' /\ (Managed => Managed')
           /\ \A v \in User : acct[v].exists => Succeeds(acct[v], acct'[v])
<1>1. /\ acct \in [User -> Account] /\ session \in [Client -> Token \cup {NoToken}]
      /\ job \in [Client -> Job \cup {NoJob}]
  BY DEF IInv, AccountTypeOK
<1>2. ASSUME NEW v \in User, acct[v].exists
      PROVE  /\ acct'[v] \in Account
             /\ acct'[v] = [acct[v] EXCEPT !.perms = RoleDefaults(acct[v].role)]
             /\ Succeeds(acct[v], acct'[v])
  <2>1. /\ acct[v] \in Account /\ RoleDefaults(acct[v].role) \in Permissions
        /\ acct[v].version \in Nat
    BY <1>1, DefaultsType, AccountsAssumption DEF Account
  <2>2. acct'[v] = [acct[v] EXCEPT !.perms = RoleDefaults(acct[v].role)]
    BY <1>1, <1>2 DEF MigrateAccountDb
  <2>3. acct'[v] \in Account
    BY <2>1, <2>2 DEF Account
  <2>4. /\ acct'[v].exists = acct[v].exists /\ acct'[v].version = acct[v].version
        /\ acct'[v].password = acct[v].password /\ acct'[v].active = acct[v].active
    BY <2>1, <2>2 DEF Account
  <2>5. QED
    BY <1>2, <2>1, <2>2, <2>3, <2>4 DEF Succeeds
<1>3. ASSUME NEW v \in User, ~acct[v].exists
      PROVE  acct'[v] = acct[v]
  BY <1>1, <1>3 DEF MigrateAccountDb
<1>4. acct' \in [User -> Account]
  <2>1. \A v \in User : acct'[v] \in Account
    BY <1>1, <1>2, <1>3
  <2>2. QED
    BY <2>1 DEF MigrateAccountDb
<1>5. ~Managed
  <2>1. \A v \in User : acct[v].perms[UserManagement] = "NONE"
    BY AccountsAssumption DEF IInv, UntouchedBefore, MigrateAccountDb, NoPermissions
  <2>2. QED
    BY <2>1 DEF Managed, IsManager
<1>6. IInv'
  BY <1>1, <1>2, <1>4, WriteKeeps DEF MigrateAccountDb
<1>7. QED
  BY <1>2, <1>5, <1>6

LEMMA InitializeKeeps ==
    ASSUME IInv, NEW p \in Password, InitializeAccounts(p)
    PROVE  /\ IInv' /\ (Managed => Managed')
           /\ \A v \in User : acct[v].exists => Succeeds(acct[v], acct'[v])
<1>1. acct \in [User -> Account] /\ job \in [Client -> Job \cup {NoJob}]
  BY DEF IInv, AccountTypeOK
<1>2. \A v \in User : acct[v].exists => acct'[v] = acct[v] /\ acct[v].version \in Nat
  BY <1>1, AccountsAssumption DEF InitializeAccounts, Account
<1>3. \A v \in User : acct[v].exists => Succeeds(acct[v], acct'[v])
  BY <1>2 DEF Succeeds
<1>4. \A v \in User : NewAccount(DemoRole(v), p, DemoPermissions(v)) \in Account
  BY DemoType, NewType
<1>5. acct' \in [User -> Account]
  BY <1>1, <1>4 DEF InitializeAccounts
<1>6. Managed => Managed'
  BY <1>2 DEF Managed, IsManager
<1>7. IInv'
  BY <1>1, <1>3, <1>5, WriteKeeps DEF InitializeAccounts
<1>8. QED
  BY <1>3, <1>6, <1>7

-----------------------------------------------------------------------------
(* The invariant *)

LEMMA InitIInv == Init => IInv
<1> SUFFICES ASSUME Init PROVE IInv
  OBVIOUS
<1>1. PICK p \in Password, legacy \in SUBSET Legacy :
        \E role \in [legacy -> Role], active \in [legacy -> BOOLEAN] :
           acct = [u \in User |->
                     IF u \in legacy
                     THEN [exists |-> TRUE, role |-> role[u], active |-> active[u],
                           password |-> p, version |-> 0, perms |-> NoPermissions]
                     ELSE NoAccount(p)]
  BY DEF Init
<1>2. PICK role \in [legacy -> Role], active \in [legacy -> BOOLEAN] :
        acct = [u \in User |->
                  IF u \in legacy
                  THEN [exists |-> TRUE, role |-> role[u], active |-> active[u],
                        password |-> p, version |-> 0, perms |-> NoPermissions]
                  ELSE NoAccount(p)]
  BY <1>1
<1>3. NoPermissions \in Permissions
  BY AccountsAssumption DEF NoPermissions, Permissions, Level
<1>4. 0 \in 0 .. MaxVersion
  BY AccountsAssumption
<1>5. ASSUME NEW u \in User
      PROVE  acct[u] \in Account /\ acct[u].perms = NoPermissions
  <2>1. CASE u \in legacy
    BY <1>2, <1>3, <1>4, <2>1 DEF Account
  <2>2. CASE u \notin legacy
    BY <1>2, <1>3, <1>4, <2>2 DEF Account, NoAccount, Role
  <2>3. QED
    BY <2>1, <2>2
<1>6. acct \in [User -> Account]
  <2>1. acct = [u \in User |-> acct[u]]
    BY <1>2
  <2>2. QED
    BY <1>5, <2>1
<1>7. AccountTypeOK /\ UntouchedBefore
  BY <1>5, <1>6 DEF Init, AccountTypeOK, UntouchedBefore
<1>8. LoginsAreBehind /\ TokensAreBehind
  BY DEF Init, LoginsAreBehind, TokensAreBehind
<1>9. QED
  BY <1>7, <1>8 DEF IInv

\* The token of a verified login is behind its account.
LEMMA TokenType ==
    ASSUME AccountTypeOK, NEW j \in Job, j.stage = "LOGIN", LoginIsBehind(j, acct[j.who])
    PROVE  LET t == [sub |-> j.who, version |-> acct[j.who].version,
                     password |-> j.password, verified |-> j.version,
                     live |-> acct[j.who].active]
           IN  t \in Token /\ IsBehind(t, acct[j.who])
<1>1. j.who \in User /\ j.password \in Password /\ j.version \in 0 .. MaxVersion
  BY JobFields
<1>2. /\ acct[j.who].version \in 0 .. MaxVersion /\ acct[j.who].version \in Nat
      /\ acct[j.who].active \in BOOLEAN
  BY <1>1, AccountFields, AccountsAssumption
<1>3. QED
  BY <1>1, <1>2 DEF Token, IsBehind, Raced, LoginIsBehind

\* The steps of a client that write no account.
LEMMA ReadStep ==
    ASSUME IInv, NEW c \in Client,
           \/ \E u \in User, p \in Password : Login(c, u, p)
           \/ CreateToken(c) \/ Logout(c) \/ ReadUser(c) \/ ReadPermissions(c)
           \/ \E u \in User : CheckUsername(c, u)
           \/ VerifyOldPassword(c) \/ EndRequest(c)
    PROVE  IInv' /\ UNCHANGED acct
<1> USE DEF IInv
<1>1. /\ acct \in [User -> Account] /\ session \in [Client -> Token \cup {NoToken}]
      /\ job \in [Client -> Job \cup {NoJob}]
  BY DEF AccountTypeOK
<1>2. ASSUME migrated, UNCHANGED <<migrated, acct, session>>,
             NEW j \in Job \cup {NoJob}, job' = [job EXCEPT ![c] = j],
             j # NoJob /\ j.stage = "LOGIN" => LoginIsBehind(j, acct[j.who])
      PROVE  IInv' /\ UNCHANGED acct
  <2>1. job' \in [Client -> Job \cup {NoJob}]
    BY <1>1, <1>2
  <2>2. \A d \in Client : job'[d] = IF d = c THEN j ELSE job[d]
    BY <1>1, <1>2
  <2>3. \A d \in Client :
          job'[d] # NoJob /\ job'[d] # job[d] /\ job'[d].stage = "LOGIN" =>
              LoginIsBehind(job'[d], acct[job'[d].who])
    BY <1>2, <2>2
  <2>4. QED
    BY <1>1, <1>2, <2>1, <2>3, ReadKeeps
<1>3. ASSUME NEW u \in User, NEW p \in Password, Login(c, u, p)
      PROVE  IInv' /\ UNCHANGED acct
  <2> DEFINE j == [stage |-> "LOGIN", who |-> u, password |-> p, version |-> acct[u].version]
  <2>1. acct[u].version \in 0 .. MaxVersion /\ acct[u].version \in Nat
    BY AccountFields, AccountsAssumption
  <2>2. j \in Job /\ LoginIsBehind(j, acct[j.who])
    BY <1>3, <2>1 DEF Job, Login, LoginIsBehind
  <2>3. QED
    BY <1>2, <1>3, <2>2 DEF Login
<1>4. ASSUME CreateToken(c) PROVE IInv' /\ UNCHANGED acct
  <2> DEFINE t == [sub |-> job[c].who, version |-> acct[job[c].who].version,
                   password |-> job[c].password, verified |-> job[c].version,
                   live |-> acct[job[c].who].active]
  <2>1. job[c] \in Job /\ job[c].stage = "LOGIN" /\ migrated
    BY <1>1, <1>4, Migrated DEF CreateToken
  <2>2. job[c].who \in User /\ LoginIsBehind(job[c], acct[job[c].who])
    BY <1>4, <2>1, JobFields DEF CreateToken, LoginsAreBehind
  <2>3. t \in Token /\ IsBehind(t, acct[t.sub]) /\ t.sub \in User
    BY <2>1, <2>2, TokenType
  <2>4. /\ session' = [session EXCEPT ![c] = t] /\ job' = [job EXCEPT ![c] = NoJob]
        /\ UNCHANGED <<migrated, acct>>
    BY <1>4 DEF CreateToken
  <2> HIDE DEF t
  <2>5. /\ session' \in [Client -> Token \cup {NoToken}]
        /\ job' \in [Client -> Job \cup {NoJob}]
    BY <1>1, <2>3, <2>4
  <2>6. \A d \in Client : session'[d] # NoToken /\ session'[d] # session[d] =>
            IsBehind(session'[d], acct[session'[d].sub])
    BY <1>1, <2>3, <2>4
  <2>7. \A d \in Client : job'[d] = job[d] \/ job'[d] = NoJob
    BY <1>1, <2>4
  <2>8. QED
    BY <2>1, <2>4, <2>5, <2>6, <2>7, ReadKeeps
<1>5. ASSUME Logout(c) PROVE IInv' /\ UNCHANGED acct
  <2>1. migrated
    BY <1>5, Migrated DEF Logout
  <2>2. /\ session' \in [Client -> Token \cup {NoToken}]
        /\ \A d \in Client : session'[d] = session[d] \/ session'[d] = NoToken
    BY <1>1, <1>5 DEF Logout
  <2>3. QED
    BY <1>1, <1>5, <2>1, <2>2, ReadKeeps DEF Logout
<1>6. ASSUME ReadUser(c) PROVE IInv' /\ UNCHANGED acct
  <2>1. migrated /\ session[c].sub \in User
    BY <1>1, <1>6, Migrated DEF ReadUser, Token
  <2>2. acct[session[c].sub].role \in Role
    BY <2>1, AccountFields
  <2>3. [stage |-> "ROW", who |-> session[c].sub, role |-> acct[session[c].sub].role] \in Job
    BY <2>1, <2>2 DEF Job
  <2>4. QED
    BY <1>2, <1>6, <2>1, <2>3 DEF ReadUser
<1>7. ASSUME ReadPermissions(c) PROVE IInv' /\ UNCHANGED acct
  <2> DEFINE manager == job[c].role = "admin" /\ acct[job[c].who].perms[UserManagement] = "EDIT"
  <2>1. migrated /\ job[c] \in Job /\ job[c].stage = "ROW"
    BY <1>1, <1>7, Migrated DEF ReadPermissions
  <2>2. job[c].who \in User
    BY <2>1, JobFields
  <2>3. manager \in BOOLEAN
    OBVIOUS
  <2>4. [stage |-> "USER", who |-> job[c].who, manager |-> manager] \in Job
    BY <2>2, <2>3 DEF Job
  <2>5. QED
    BY <1>2, <1>7, <2>1, <2>4 DEF ReadPermissions
<1>8. ASSUME NEW u \in User, CheckUsername(c, u) PROVE IInv' /\ UNCHANGED acct
  <2>1. [stage |-> "CREATE", target |-> u] \in Job /\ migrated
    BY <1>8, Migrated DEF Job, CheckUsername, Manages, ActsFor
  <2>2. QED
    BY <1>2, <1>8, <2>1 DEF CheckUsername
<1>9. ASSUME VerifyOldPassword(c) PROVE IInv' /\ UNCHANGED acct
  <2>1. migrated /\ job[c] \in Job /\ job[c].stage = "USER"
    BY <1>1, <1>9, Migrated DEF VerifyOldPassword, ActsFor
  <2>2. job[c].who \in User
    BY <2>1, JobFields
  <2>3. [stage |-> "CHANGE", who |-> job[c].who, old |-> acct[job[c].who].password] \in Job
    BY <2>2, AccountFields DEF Job
  <2>4. QED
    BY <1>2, <1>9, <2>1, <2>3 DEF VerifyOldPassword
<1>10. ASSUME EndRequest(c) PROVE IInv' /\ UNCHANGED acct
  BY <1>2, <1>10, Migrated DEF EndRequest
<1>11. QED
  BY <1>3, <1>4, <1>5, <1>6, <1>7, <1>8, <1>9, <1>10

\* The steps of a client that write an account, and of the command line tool.
LEMMA WriteStep ==
    ASSUME IInv, migrated, NEW u \in User, NEW a \in Account, Writes(u, a),
           UNCHANGED <<migrated, session>>,
           UNCHANGED job \/ \E c \in Client : job' = [job EXCEPT ![c] = NoJob]
    PROVE  /\ IInv' /\ (Managed => Managed')
           /\ \A v \in User : acct[v].exists => Succeeds(acct[v], acct'[v])
<1>1. AccountTypeOK /\ job \in [Client -> Job \cup {NoJob}]
  BY DEF IInv, AccountTypeOK
<1>2. /\ job' \in [Client -> Job \cup {NoJob}]
      /\ \A c \in Client : job'[c] = job[c] \/ job'[c] = NoJob
  BY <1>1
<1>3. QED
  BY <1>1, <1>2, OneWrite, WriteKeeps

\* Every step keeps the invariant and a manager, and an account becomes a
\* successor of itself.
LEMMA StepIInv ==
    ASSUME IInv, [Next]_vars
    PROVE  /\ IInv' /\ (Managed => Managed')
           /\ \A v \in User : acct[v].exists => Succeeds(acct[v], acct'[v])
<1> DEFINE Goal == /\ IInv' /\ (Managed => Managed')
                   /\ \A v \in User : acct[v].exists => Succeeds(acct[v], acct'[v])
<1>1. AccountTypeOK
  BY DEF IInv
<1>2. ASSUME UNCHANGED acct
      PROVE  /\ Managed => Managed'
             /\ \A v \in User : acct[v].exists => Succeeds(acct[v], acct'[v])
  <2>1. \A v \in User : acct[v].version \in Nat
    BY <1>1, AccountFields, AccountsAssumption
  <2>2. QED
    BY <1>2, <2>1 DEF Succeeds, Managed
<1>3. ASSUME UNCHANGED vars PROVE Goal
  BY <1>2, <1>3 DEF vars, IInv, AccountTypeOK, UntouchedBefore, LoginsAreBehind, TokensAreBehind
<1>4. ASSUME MigrateAccountDb PROVE Goal
  BY <1>4, MigrateKeeps
<1>5. ASSUME NEW c \in Client, Step(c) PROVE Goal
  <2>1. ASSUME \/ \E u \in User, p \in Password : Login(c, u, p)
               \/ CreateToken(c) \/ Logout(c) \/ ReadUser(c) \/ ReadPermissions(c)
               \/ \E u \in User : CheckUsername(c, u)
               \/ VerifyOldPassword(c) \/ EndRequest(c)
        PROVE  Goal
    BY <1>2, <2>1, ReadStep
  <2>2. ASSUME NEW role \in Role, NEW p \in Password, NEW sent \in Submitted,
               CreateAccount(c, role, p, sent)
        PROVE  Goal
    <3>1. migrated
      BY <2>2, Migrated DEF CreateAccount
    <3>2. QED
      BY <1>1, <2>2, <3>1, CreateAccountWrites, WriteStep
  <2>3. ASSUME NEW u \in User, NEW role \in Role, NEW active \in BOOLEAN,
               NEW p \in Password \cup {NoPassword}, NEW sent \in Submitted \cup {Omitted},
               UpdateAccount(c, u, role, active, p, sent)
        PROVE  Goal
    <3>1. migrated
      BY <2>3, Migrated DEF UpdateAccount, Manages, ActsFor
    <3>2. QED
      BY <1>1, <2>3, <3>1, UpdateAccountWrites, WriteStep
  <2>4. ASSUME NEW u \in User, NEW p \in Password, ResetAccountPassword(c, u, p)
        PROVE  Goal
    <3>1. migrated
      BY <2>4, Migrated DEF ResetAccountPassword, Manages, ActsFor
    <3>2. QED
      BY <1>1, <2>4, <3>1, PasswordWrites, WriteStep DEF ResetAccountPassword
  <2>5. ASSUME NEW p \in Password, ChangePassword(c, p) PROVE Goal
    <3>1. migrated /\ job[c] \in Job /\ job[c].stage = "CHANGE"
      BY <1>1, <2>5, Migrated DEF ChangePassword, AccountTypeOK
    <3>2. job[c].who \in User
      BY <3>1, JobFields
    <3>3. QED
      BY <1>1, <2>5, <3>1, <3>2, PasswordWrites, WriteStep DEF ChangePassword
  <2>6. QED
    BY <1>5, <2>1, <2>2, <2>3, <2>4, <2>5 DEF Step
<1>6. ASSUME NEW u \in User, NEW role \in Role, NEW p \in Password, AddUser(u, role, p)
      PROVE  Goal
  <2>1. migrated
    BY <1>6 DEF AddUser
  <2>2. QED
    BY <1>1, <1>6, <2>1, AddUserWrites, WriteStep
<1>7. ASSUME NEW p \in Password, InitializeAccounts(p) PROVE Goal
  BY <1>7, InitializeKeeps
<1>8. QED
  BY <1>3, <1>4, <1>5, <1>6, <1>7 DEF Next

-----------------------------------------------------------------------------
(* Theorems *)

LEMMA Invariance == Spec => []IInv
BY InitIInv, StepIInv, PTL DEF Spec

\* Accounts, tokens and requests keep their types: only normalized permissions are stored.
THEOREM Typing == Spec => []AccountTypeOK
<1>1. IInv => AccountTypeOK
  BY DEF IInv
<1>2. QED
  BY <1>1, Invariance, PTL

\* Once somebody may manage accounts, somebody always may: the check of the
\* other managers and the write are one transaction (update_account).
THEOREM AManagerRemains == Spec => ManagerRemains
<1>1. IInv /\ [Next]_vars =>
        ((\E u \in User : IsManager(acct[u])) => (\E u \in User : IsManager(acct[u]))')
  BY StepIInv DEF Managed
<1>2. QED
  BY <1>1, Invariance, PTL DEF Spec, ManagerRemains

\* An accepted token was given for the password the account has now, unless the
\* account moved on between the two reads of its login: every write of a
\* password is a later version (set_password, update_user_account).
THEOREM TokensDieWithPasswords == Spec => []AcceptedUnderPassword
<1>1. IInv => AcceptedUnderPassword
  BY DEF IInv, TokensAreBehind, IsBehind, AcceptedUnderPassword, Accepted
<1>2. QED
  BY <1>1, Invariance, PTL

\* A token that was refused stays refused, unless it was created for an account
\* that was deactivated between the two reads of its login: its account is at a
\* later version, and versions do not go back (active_user_from_token).
THEOREM RefusedTokensStayRefused == Spec => RefusedStaysRefused
<1> DEFINE Stays == \A c \in Client :
                       /\ session[c] # NoToken /\ session'[c] = session[c]
                       /\ session[c].live \/ ~Raced(session[c])
                       /\ ~Accepted(session[c])
                       => ~Accepted(session[c])'
<1>1. ASSUME IInv, [Next]_vars PROVE Stays
  <2>1. SUFFICES ASSUME NEW c \in Client, session[c] # NoToken, session'[c] = session[c],
                        session[c].live \/ ~Raced(session[c]), ~Accepted(session[c])
                 PROVE  ~Accepted(session[c])'
    OBVIOUS
  <2> DEFINE t == session[c]
  <2>2. t \in Token /\ t.sub \in User /\ t.version \in Nat
    BY <1>1, <2>1, AccountsAssumption DEF IInv, AccountTypeOK, Token
  <2>3. IsBehind(t, acct[t.sub])
    BY <1>1, <2>1 DEF IInv, TokensAreBehind
  <2>4. t.version <= acct[t.sub].version /\ t.version # acct[t.sub].version
    BY <2>1, <2>3 DEF IsBehind, Accepted
  <2>5. Succeeds(acct[t.sub], acct'[t.sub])
    BY <1>1, <2>2, <2>3, StepIInv DEF IsBehind
  <2>6. acct[t.sub].version <= acct'[t.sub].version
    BY <2>5 DEF Succeeds
  <2>7. acct[t.sub].version \in Nat /\ acct'[t.sub].version \in Nat
    BY <1>1, <2>2, StepIInv, AccountsAssumption DEF IInv, AccountTypeOK, Account
  <2>8. acct'[t.sub].version # t.version
    BY <2>2, <2>4, <2>6, <2>7
  <2>9. QED
    BY <2>1, <2>8 DEF Accepted
<1>2. QED
  BY <1>1, Invariance, PTL DEF Spec, RefusedStaysRefused
=============================================================================
