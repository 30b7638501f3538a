------------------------- MODULE AuthManagerProofs -------------------------
(***************************************************************************)
(* Theorems about auth.Manager, for any accounts, hashes and password      *)
(* changes under way, with failing writes and restarts.                    *)
(***************************************************************************)
EXTENDS AuthManager, TLAPS

(* AdministratorRemains for one configuration.                              *)
Administered(c) ==
    IF c.mode = "ldap"
    THEN c.ldapAdmins
    ELSE \E u \in Users : /\ c.accounts[u] # Nil
                          /\ c.accounts[u].role = "admin"
                          /\ c.accounts[u].active

(* Nobody has to change a temporary password.                               *)
Unmarked(c) ==
    \A u \in Users : c.accounts[u] # Nil => ~c.accounts[u].temporary

(* What every operation saves.                                              *)
Good(c) == c \in Config /\ Administered(c) /\ Unmarked(c)

IInv ==
    /\ AuthTypeOK
    /\ AdministratorRemains
    /\ NothingBeforeFirstChange

(* Saving good settings, whether it fails or not, keeps the invariant.      *)
LEMMA SaveKeeps ==
    ASSUME IInv, process = "up",
           \E next, remaining, late :
              /\ Good(next)
              /\ remaining \in [Logins -> Login \cup {Nil}]
              /\ late \subseteq Changers
              /\ Save(next, remaining, late),
           UNCHANGED <<process, generated, shown>>,
           changes' \in [Changers -> Change \cup {Nil}]
    PROVE  IInv'
<1>1. /\ config \in Config \cup {Nil} /\ config # Nil
      /\ authFile \in Config \cup {Nil}
  BY DEF IInv, AuthTypeOK
<1>2. PICK next, remaining, late :
              /\ Good(next)
              /\ remaining \in [Logins -> Login \cup {Nil}]
              /\ late \subseteq Changers
              /\ Save(next, remaining, late)
  OBVIOUS
<1>3. next \in Config /\ next # Nil /\ Administered(next) /\ Unmarked(next)
  BY <1>2, NilAssumption DEF Good
<1>4. /\ config' \in {config, next} /\ authFile' \in {authFile, next}
      /\ logins' \in [Logins -> Login \cup {Nil}]
      /\ overtaken' \subseteq Changers
  BY <1>2 DEF Save, IInv, AuthTypeOK
<1>5. AuthTypeOK'
  BY <1>1, <1>3, <1>4 DEF IInv, AuthTypeOK
<1>6. AdministratorRemains'
  BY <1>3, <1>4 DEF IInv, AdministratorRemains, Administered
<1>7. NothingBeforeFirstChange'
  BY <1>3, <1>4 DEF IInv, NothingBeforeFirstChange, Unmarked
<1> QED BY <1>5, <1>6, <1>7 DEF IInv

(* What revoking leaves.                                                    *)
LEMMA WithoutType ==
    ASSUME IInv, NEW revoked
    PROVE  /\ Without(revoked) \in [Logins -> Login \cup {Nil}]
           /\ logins \in [Logins -> Login \cup {Nil}]
BY DEF IInv, AuthTypeOK, Without

(* The settings in memory of a serving process.                             *)
LEMMA MemoryType ==
    ASSUME IInv, process = "up"
    PROVE  config \in Config /\ Administered(config)
<1>1. config \in Config /\ config # Nil
  BY DEF IInv, AuthTypeOK
<1> QED BY <1>1 DEF IInv, AdministratorRemains, Administered

(* The first settings hold one account, which is marked.                    *)
LEMMA FirstAccounts ==
    ASSUME NEW h, NEW u \in Users, FirstConfig(h).accounts[u] # Nil
    PROVE  /\ u = FirstAdmin
           /\ FirstConfig(h).mode = "local"
           /\ FirstConfig(h).accounts[u].temporary
BY DEF FirstConfig

(* Administrators act only on settings without temporary passwords.         *)
LEMMA AdministratingUnmarked ==
    ASSUME IInv, Administrating
    PROVE  process = "up" /\ Good(config)
<1>1. process = "up"
  BY DEF Administrating, Serving
<1>2. config \in Config /\ Administered(config) /\ config # Nil
  BY <1>1, MemoryType, NilAssumption
<1>3. ASSUME NEW u \in Users, config.accounts[u] # Nil,
             config.accounts[u].temporary
      PROVE  FALSE
  <2>1. config = FirstConfig(generated)
    BY <1>2, <1>3 DEF IInv, NothingBeforeFirstChange
  <2>2. config.mode = "local"
    BY <1>3, <2>1, FirstAccounts
  <2>3. PICK v \in Users : /\ config.accounts[v] # Nil
                           /\ ~config.accounts[v].temporary
    BY <2>2 DEF Administrating, ModeIncludes, ActiveAdmins
  <2> QED BY <2>1, <2>3, FirstAccounts
<1> QED BY <1>1, <1>2, <1>3 DEF Good, Unmarked

(* Putting an account into the settings, or taking one out, leaves good     *)
(* settings when nothing marked is left and an administrator is.            *)
LEMMA AccountGood ==
    ASSUME IInv, process = "up", NEW u \in Users,
           NEW account \in Account \cup {Nil},
           account # Nil => ~account.temporary,
           \A v \in Users \ {u} :
              config.accounts[v] # Nil => ~config.accounts[v].temporary,
           KeepsAdmin(WithAccount(u, account))
    PROVE  Good(WithAccount(u, account))
<1> DEFINE next == WithAccount(u, account)
<1>1. config \in Config /\ Administered(config)
  BY MemoryType
<1>2. /\ next \in Config
      /\ next.mode = config.mode /\ next.ldapAdmins = config.ldapAdmins
      /\ \A v \in Users : next.accounts[v] =
            IF v = u THEN account ELSE config.accounts[v]
  BY <1>1 DEF WithAccount, Config
<1>3. Unmarked(next)
  BY <1>2 DEF Unmarked
<1>4. CASE next.mode = "ldap"
  BY <1>1, <1>2, <1>3, <1>4 DEF Good, Administered
<1>5. CASE next.mode # "ldap"
  <2>1. ModeIncludes(next.mode, "local")
    BY <1>2, <1>5 DEF ModeIncludes, Config
  <2>2. PICK v \in Users : /\ next.accounts[v] # Nil
                           /\ next.accounts[v].active
                           /\ next.accounts[v].role = "admin"
    BY <2>1 DEF KeepsAdmin, ActiveAdmins
  <2> QED BY <1>2, <1>3, <1>5, <2>2 DEF Good, Administered
<1> QED BY <1>4, <1>5

(* CreateUser and the password changes do not ask whether an administrator  *)
(* is left: they take no administrator away.                                *)
LEMMA AdminStays ==
    ASSUME IInv, process = "up", NEW u \in Users, NEW account \in Account,
           \/ config.accounts[u] = Nil
           \/ /\ account.role = config.accounts[u].role
              /\ account.active = config.accounts[u].active
    PROVE  KeepsAdmin(WithAccount(u, account))
<1> DEFINE next == WithAccount(u, account)
<1>1. config \in Config /\ Administered(config) /\ account # Nil
  BY MemoryType, NilAssumption
<1>2. /\ next.mode = config.mode
      /\ \A v \in Users : next.accounts[v] =
            IF v = u THEN account ELSE config.accounts[v]
  BY <1>1 DEF WithAccount, Config
<1> SUFFICES ASSUME ModeIncludes(next.mode, "local")
             PROVE  ActiveAdmins(next.accounts) # {}
  BY DEF KeepsAdmin
<1>3. PICK v \in Users : /\ config.accounts[v] # Nil
                         /\ config.accounts[v].role = "admin"
                         /\ config.accounts[v].active
  BY <1>1, <1>2 DEF Administered, ModeIncludes
<1>4. /\ next.accounts[v] # Nil
      /\ next.accounts[v].role = "admin"
      /\ next.accounts[v].active
  BY <1>1, <1>2, <1>3
<1> QED BY <1>4 DEF ActiveAdmins

(* What hashPassword returns.                                               *)
LEMMA NewHash ==
    ASSUME NEW u, NEW h \in NewHashes(u)
    PROVE  h \in Hashes
BY DEF NewHashes

(* Before the first start.                                                  *)
LEMMA InitHolds == AuthInit => IInv
BY DEF AuthInit, IInv, AuthTypeOK, AdministratorRemains,
       NothingBeforeFirstChange

(* Starting, printing and ending.                                           *)
LEMMA LifecycleKeeps ==
    ASSUME IInv,
           \/ Start \/ PrintPassword \/ Crash
           \/ \E h \in Hashes : EnsureTemporaryAdmin(h) \/ BootstrapFails(h)
    PROVE  IInv'
<1> USE DEF IInv
<1>1. CASE Start
  BY <1>1 DEF Start, AuthTypeOK, AdministratorRemains, NothingBeforeFirstChange
<1>2. CASE PrintPassword
  BY <1>2 DEF PrintPassword, AuthTypeOK, AdministratorRemains,
              NothingBeforeFirstChange
<1>3. CASE Crash
  BY <1>3 DEF Crash, AuthTypeOK, AdministratorRemains, NothingBeforeFirstChange
<1>4. ASSUME NEW h \in Hashes, EnsureTemporaryAdmin(h) \/ BootstrapFails(h)
      PROVE  IInv'
  <2> DEFINE first == FirstConfig(h)
             admin == [role |-> "admin", active |-> TRUE, hash |-> h,
                       temporary |-> TRUE]
             accounts == [u \in Users |-> IF u = FirstAdmin THEN admin ELSE Nil]
  <2>1. /\ admin \in Account
        /\ admin.role = "admin" /\ admin.active /\ admin.temporary
    BY DEF Account
  <2>2. first = [mode |-> "local", ldapAdmins |-> FALSE,
                 accounts |-> accounts]
    BY DEF FirstConfig
  <2> HIDE DEF admin, first
  <2>3. admin # Nil
    BY <2>1, NilAssumption
  <2>4. first \in Config /\ first # Nil
    <3>1. accounts \in [Users -> Account \cup {Nil}]
      BY <2>1
    <3> HIDE DEF accounts
    <3>2. first \in Config
      BY <2>2, <3>1 DEF Config
    <3> QED BY <3>2, NilAssumption
  <2>5. /\ config = Nil
        /\ authFile' = first
        /\ config' \in {first, Nil}
        /\ config' = Nil <=> process' = "down"
        /\ process' \in {"down", "printing"}
        /\ generated' = h /\ shown' = shown
        /\ changes' = changes /\ logins' = logins /\ overtaken' = overtaken
    BY <1>4, <2>4 DEF EnsureTemporaryAdmin, BootstrapFails, AuthTypeOK, first
  <2>6. AuthTypeOK'
    BY <2>4, <2>5 DEF AuthTypeOK
  <2>7. /\ first.mode = "local"
        /\ first.accounts[FirstAdmin] = admin
    BY <2>2, AuthAssumption
  <2>8. AdministratorRemains'
    BY <2>1, <2>3, <2>5, <2>7, AuthAssumption
       DEF AdministratorRemains
  <2>9. NothingBeforeFirstChange'
    BY <2>5 DEF NothingBeforeFirstChange, first
  <2> QED BY <2>6, <2>8, <2>9
<1> QED BY <1>1, <1>2, <1>3, <1>4

(* One step per operation: the settings it saves are good.                  *)
LEMMA OperationKeeps ==
    ASSUME IInv,
           \/ \E mode \in {"local", "ldap", "both"}, ldapAdmins \in BOOLEAN :
                 UpdateSettings(mode, ldapAdmins)
           \/ \E u \in Users, role \in {"admin", "operator"},
                 active \in BOOLEAN :
                 CreateUser(u, role, active) \/ UpdateUser(u, role, active)
           \/ \E u \in Users : DeleteUser(u)
    PROVE  IInv'
<1>1. changes \in [Changers -> Change \cup {Nil}]
  BY DEF IInv, AuthTypeOK
<1>2. ASSUME NEW mode \in {"local", "ldap", "both"}, NEW ldapAdmins \in BOOLEAN,
             UpdateSettings(mode, ldapAdmins)
      PROVE  IInv'
  <2> DEFINE next == [config EXCEPT !.mode = mode, !.ldapAdmins = ldapAdmins]
  <2>1. process = "up" /\ Save(next, Without(ProviderSessions(mode)), {})
    BY <1>2, AdministratingUnmarked DEF UpdateSettings
  <2>2. config \in Config /\ Unmarked(config)
    BY <1>2, AdministratingUnmarked DEF UpdateSettings, Good
  <2>3. /\ next \in Config
        /\ next.mode = mode /\ next.ldapAdmins = ldapAdmins
        /\ next.accounts = config.accounts
    BY <2>2 DEF Config
  <2>4. Administered(next)
    BY <1>2, <2>3 DEF UpdateSettings, Administered, ModeIncludes, ActiveAdmins
  <2>5. Unmarked(next)
    BY <2>2, <2>3 DEF Unmarked
  <2>6. \E n, l, o : /\ Good(n)
                    /\ l \in [Logins -> Login \cup {Nil}]
                    /\ o \subseteq Changers
                    /\ Save(n, l, o)
    BY <2>1, <2>3, <2>4, <2>5, WithoutType DEF Good
  <2> QED BY <1>1, <1>2, <2>1, <2>6, SaveKeeps DEF UpdateSettings
<1>3. ASSUME NEW u \in Users, NEW role \in {"admin", "operator"},
             NEW active \in BOOLEAN, CreateUser(u, role, active)
      PROVE  IInv'
  <2>1. process = "up" /\ config.accounts[u] = Nil /\ Unmarked(config)
    BY <1>3, AdministratingUnmarked DEF CreateUser, Good
  <2>2. PICK h \in NewHashes(u) :
           Save(WithAccount(u, [role |-> role, active |-> active, hash |-> h,
                                temporary |-> FALSE]), logins, {})
    BY <1>3 DEF CreateUser
  <2> DEFINE account == [role |-> role, active |-> active, hash |-> h,
                         temporary |-> FALSE]
  <2>3. account \in Account /\ ~account.temporary
    BY NewHash DEF Account
  <2> HIDE DEF account
  <2>4. Good(WithAccount(u, account))
    BY <2>1, <2>3, AdminStays, AccountGood DEF Unmarked
  <2>5. \E n, l, o : /\ Good(n)
                    /\ l \in [Logins -> Login \cup {Nil}]
                    /\ o \subseteq Changers
                    /\ Save(n, l, o)
    BY <2>2, <2>4, WithoutType DEF account
  <2> QED BY <1>1, <1>3, <2>1, <2>5, SaveKeeps DEF CreateUser
<1>4. ASSUME NEW u \in Users, NEW role \in {"admin", "operator"},
             NEW active \in BOOLEAN, UpdateUser(u, role, active)
      PROVE  IInv'
  <2>1. /\ process = "up" /\ config.accounts[u] # Nil
        /\ config \in Config /\ Unmarked(config)
    BY <1>4, AdministratingUnmarked DEF UpdateUser, Good
  <2>2. PICK h \in NewHashes(u) \cup {config.accounts[u].hash} :
           LET next == WithAccount(u, UpdatedAccount(config.accounts[u], role,
                                                     active, h))
               late == IF h = config.accounts[u].hash THEN {}
                       ELSE ChangesOf(u)
           IN  KeepsAdmin(next) /\ Save(next, Without(UserSessions(u)), late)
    BY <1>4 DEF UpdateUser
  <2> DEFINE account == UpdatedAccount(config.accounts[u], role, active, h)
  <2>3. config.accounts[u] \in Account
    BY <2>1 DEF Config
  <2>4. /\ account \in Account
        /\ account.temporary = config.accounts[u].temporary
    BY <2>3, NewHash DEF UpdatedAccount, Account
  <2> HIDE DEF account
  <2>5. /\ KeepsAdmin(WithAccount(u, account))
        /\ \E late \in {{}, ChangesOf(u)} :
              Save(WithAccount(u, account), Without(UserSessions(u)), late)
    BY <2>2 DEF account
  <2>6. Good(WithAccount(u, account))
    BY <2>1, <2>4, <2>5, AccountGood DEF Unmarked
  <2>7. \E n, l, o : /\ Good(n)
                    /\ l \in [Logins -> Login \cup {Nil}]
                    /\ o \subseteq Changers
                    /\ Save(n, l, o)
    BY <2>5, <2>6, WithoutType DEF ChangesOf
  <2> QED BY <1>1, <1>4, <2>1, <2>7, SaveKeeps DEF UpdateUser
<1>5. ASSUME NEW u \in Users, DeleteUser(u)
      PROVE  IInv'
  <2>1. /\ process = "up" /\ Unmarked(config)
        /\ KeepsAdmin(WithAccount(u, Nil))
        /\ Save(WithAccount(u, Nil), Without(UserSessions(u)), ChangesOf(u))
    BY <1>5, AdministratingUnmarked DEF DeleteUser, Good
  <2>2. Good(WithAccount(u, Nil))
    BY <2>1, AccountGood DEF Unmarked
  <2>3. \E n, l, o : /\ Good(n)
                    /\ l \in [Logins -> Login \cup {Nil}]
                    /\ o \subseteq Changers
                    /\ Save(n, l, o)
    BY <2>1, <2>2, WithoutType DEF ChangesOf
  <2> QED BY <1>1, <1>5, <2>1, <2>3, SaveKeeps DEF DeleteUser
<1> QED BY <1>2, <1>3, <1>4, <1>5

(* The two halves of a password change.                                     *)
LEMMA ChangeKeeps ==
    ASSUME IInv,
           \/ \E c \in Changers, kind \in {"change", "complete"}, u \in Users :
                 BeginChange(c, kind, u)
           \/ \E c \in Changers : StoreChange(c) \/ RefuseChange(c)
    PROVE  IInv'
<1>1. ASSUME NEW c \in Changers, NEW kind \in {"change", "complete"},
             NEW u \in Users, BeginChange(c, kind, u)
      PROVE  IInv'
  <2>1. config \in Config
    BY <1>1, MemoryType DEF BeginChange, Serving
  <2>2. config.accounts[u] \in Account
    BY <1>1, <2>1 DEF BeginChange, Config
  <2>3. [kind |-> kind, user |-> u, hash |-> config.accounts[u].hash] \in Change
    BY <2>2 DEF Account, Change
  <2>4. AuthTypeOK'
    BY <1>1, <2>3 DEF BeginChange, Serving, IInv, AuthTypeOK
  <2> QED BY <1>1, <2>4 DEF BeginChange, IInv, AdministratorRemains,
                            NothingBeforeFirstChange
<1>2. ASSUME NEW c \in Changers, StoreChange(c)
      PROVE  IInv'
  <2> DEFINE u == changes[c].user
  <2>1. process = "up" /\ changes[c] \in Change
    BY <1>2 DEF StoreChange, IInv, AuthTypeOK
  <2>2. u \in Users
    BY <2>1 DEF Change
  <2>3. config \in Config /\ config.accounts[u] # Nil
    BY <1>2, <2>1, MemoryType DEF StoreChange, StillVerified
  <2>4. config.accounts[u] \in Account
    BY <2>2, <2>3 DEF Config
  <2>5. PICK h \in NewHashes(u) :
           Save(WithAccount(u, [config.accounts[u] EXCEPT
                                   !.hash = h, !.temporary = FALSE]), logins,
                ChangesOf(u) \ {c})
    BY <1>2 DEF StoreChange
  <2> DEFINE account == [config.accounts[u] EXCEPT
                            !.hash = h, !.temporary = FALSE]
  <2>6. /\ account \in Account
        /\ account.role = config.accounts[u].role
        /\ account.active = config.accounts[u].active
        /\ ~account.temporary
    BY <2>4, NewHash DEF Account
  <2>7. /\ Save(WithAccount(u, account), logins, ChangesOf(u) \ {c})
        /\ \A v \in Users \ {u} :
              config.accounts[v] # Nil => ~config.accounts[v].temporary
    <3>1. ASSUME NEW v \in Users \ {u}, config.accounts[v] # Nil,
                 config.accounts[v].temporary
          PROVE  FALSE
      <4>1. config = FirstConfig(generated)
        BY <2>3, <3>1, NilAssumption DEF IInv, NothingBeforeFirstChange
      <4> QED BY <2>2, <2>3, <3>1, <4>1, FirstAccounts
    <3> QED BY <2>5, <3>1
  <2> HIDE DEF account, u
  <2>8. Good(WithAccount(u, account))
    BY <2>1, <2>2, <2>6, <2>7, AdminStays, AccountGood
  <2>9. \E n, l, o : /\ Good(n)
                    /\ l \in [Logins -> Login \cup {Nil}]
                    /\ o \subseteq Changers
                    /\ Save(n, l, o)
    BY <2>7, <2>8, WithoutType DEF ChangesOf
  <2>10. changes' \in [Changers -> Change \cup {Nil}]
    BY <1>2 DEF StoreChange, IInv, AuthTypeOK
  <2> QED BY <1>2, <2>1, <2>9, <2>10, SaveKeeps DEF StoreChange
<1>3. ASSUME NEW c \in Changers, RefuseChange(c)
      PROVE  IInv'
  BY <1>3 DEF RefuseChange, IInv, AuthTypeOK, AdministratorRemains,
              NothingBeforeFirstChange
<1> QED BY <1>1, <1>2, <1>3

(* Logging in and out.                                                      *)
LEMMA LoginKeeps ==
    ASSUME IInv,
           \/ \E l \in Logins, u \in Users :
                 AuthenticateLocal(l, u) \/ AuthenticateLDAP(l, u)
           \/ \E l \in Logins : CreateSession(l) \/ DeleteSession(l)
    PROVE  IInv'
<1>1. logins' \in [Logins -> Login \cup {Nil}]
  <2>1. logins \in [Logins -> Login \cup {Nil}]
    BY DEF IInv, AuthTypeOK
  <2>2. ASSUME NEW l \in Logins, NEW u \in Users,
               AuthenticateLocal(l, u) \/ AuthenticateLDAP(l, u)
        PROVE  logins' \in [Logins -> Login \cup {Nil}]
    <3>1. PICK provider \in {"local", "ldap"} : LoggedIn(l, provider, u)
      BY <2>2 DEF AuthenticateLocal, AuthenticateLDAP
    <3>2. [provider |-> provider, user |-> u, open |-> FALSE] \in Login
      BY DEF Login
    <3> QED BY <2>1, <3>1, <3>2 DEF LoggedIn
  <2>3. ASSUME NEW l \in Logins, CreateSession(l)
        PROVE  logins' \in [Logins -> Login \cup {Nil}]
    <3>1. logins[l] \in Login
      BY <2>1, <2>3 DEF CreateSession
    <3>2. [logins[l] EXCEPT !.open = TRUE] \in Login
      BY <3>1 DEF Login
    <3>3. logins' = [logins EXCEPT ![l] = [logins[l] EXCEPT !.open = TRUE]]
      BY <2>3 DEF CreateSession
    <3> QED BY <2>1, <3>2, <3>3
  <2>4. CASE \E l \in Logins : DeleteSession(l)
    BY <2>1, <2>4 DEF DeleteSession
  <2> QED BY <2>2, <2>3, <2>4
<1>2. UNCHANGED <<config, authFile, process, generated, shown, changes,
                  overtaken>>
  BY DEF AuthenticateLocal, AuthenticateLDAP, LoggedIn, CreateSession,
         DeleteSession
<1>3. process = "up"
  BY DEF AuthenticateLocal, AuthenticateLDAP, Serving, CreateSession,
         DeleteSession, Open, IInv, AuthTypeOK
<1> QED BY <1>1, <1>2, <1>3 DEF IInv, AuthTypeOK, AdministratorRemains,
                          NothingBeforeFirstChange

-----------------------------------------------------------------------------
(* Every step of every operation, failed writes, the end of the process and *)
(* starts included, keeps the invariant.                                    *)
THEOREM AuthInvariance == AuthSpec => []IInv
<1>1. IInv /\ [AuthNext]_authVars => IInv'
  <2> SUFFICES ASSUME IInv, [AuthNext]_authVars PROVE IInv'
    OBVIOUS
  <2>1. CASE AuthNext
    BY <2>1, LifecycleKeeps, OperationKeeps, ChangeKeeps, LoginKeeps
       DEF AuthNext
  <2>2. CASE UNCHANGED authVars
    BY <2>2 DEF authVars, IInv, AuthTypeOK, AdministratorRemains,
                NothingBeforeFirstChange
  <2> QED BY <2>1, <2>2
<1> QED BY <1>1, InitHolds, PTL DEF AuthSpec

(* Type correctness of settings, file, accounts and calls under way.        *)
THEOREM AuthTypeCorrect == AuthSpec => []AuthTypeOK
BY AuthInvariance, PTL DEF IInv

(* For any number of accounts and concurrent requests, with failing writes  *)
(* and restarts, the settings in memory and in AUTH_FILE leave somebody who *)
(* administers: UpdateSettings, UpdateUser and DeleteUser check enough.     *)
THEOREM AdministratorAlwaysRemains == AuthSpec => []AdministratorRemains
BY AuthInvariance, PTL DEF IInv

(* requireAuthentication keeps everything but the change of the temporary   *)
(* password out until it is done, and no operation sets the mark again.     *)
THEOREM FirstChangeComesFirst == AuthSpec => []NothingBeforeFirstChange
BY AuthInvariance, PTL DEF IInv

(* What makes comparing the hash again enough: the account of a change that *)
(* was overtaken is gone or holds another hash than the change has read.    *)
OvertakenNoticed ==
    \A c \in overtaken :
        /\ changes[c] # Nil
        /\ config.accounts[changes[c].user] # Nil =>
              config.accounts[changes[c].user].hash # changes[c].hash

(* Storing an account keeps this when the account's hash is none that a     *)
(* change it overtakes has read.                                            *)
LEMMA SaveNotices ==
    ASSUME IInv, OvertakenNoticed, process = "up",
           NEW u \in Users, NEW account, NEW remaining, NEW late,
           Save(WithAccount(u, account), remaining, late),
           late \subseteq ChangesOf(u),
           \A c \in (overtaken \cup late) \cap ChangesOf(u) :
              account # Nil => account.hash # changes[c].hash,
           \A c \in overtaken \cup late : changes'[c] = changes[c]
    PROVE  OvertakenNoticed'
<1>1. config \in Config
  BY MemoryType
<1>2. \A v \in Users : WithAccount(u, account).accounts[v] =
         IF v = u THEN account ELSE config.accounts[v]
  BY <1>1 DEF WithAccount, Config
<1>3. CASE config' = config /\ overtaken' = overtaken
  BY <1>3 DEF OvertakenNoticed
<1>4. CASE /\ config' = WithAccount(u, account)
           /\ overtaken' = overtaken \cup late
  <2> SUFFICES ASSUME NEW c \in overtaken \cup late
               PROVE  /\ changes[c] # Nil
                      /\ config'.accounts[changes[c].user] # Nil =>
                            config'.accounts[changes[c].user].hash
                               # changes[c].hash
    BY <1>4 DEF OvertakenNoticed
  <2>1. c \in Changers /\ changes[c] # Nil
    BY DEF OvertakenNoticed, ChangesOf, IInv, AuthTypeOK
  <2>2. changes[c].user \in Users
    BY <2>1 DEF IInv, AuthTypeOK, Change
  <2>3. CASE changes[c].user = u
    BY <1>2, <1>4, <2>1, <2>3 DEF ChangesOf
  <2>4. CASE changes[c].user # u
    <3>1. c \in overtaken
      BY <2>4 DEF ChangesOf
    <3> QED BY <1>2, <1>4, <2>1, <2>2, <2>4, <3>1 DEF OvertakenNoticed
  <2> QED BY <2>3, <2>4
<1> QED BY <1>3, <1>4 DEF Save

(* A new hash is none that a change under way has read.                     *)
LEMMA NewHashDiffers ==
    ASSUME NEW u, NEW h \in NewHashes(u), NEW c \in ChangesOf(u)
    PROVE  h # changes[c].hash
BY DEF NewHashes, InUse

(* Every step keeps OvertakenNoticed.                                       *)
LEMMA NextNotices ==
    ASSUME IInv, OvertakenNoticed, AuthNext
    PROVE  OvertakenNoticed'
<1>1. /\ changes \in [Changers -> Change \cup {Nil}]
      /\ overtaken \subseteq Changers
  BY DEF IInv, AuthTypeOK
<1>2. process # "up" => overtaken = {}
  BY <1>1 DEF OvertakenNoticed, IInv, AuthTypeOK
<1>3. CASE \/ Start \/ PrintPassword \/ Crash
           \/ \E h \in Hashes : EnsureTemporaryAdmin(h) \/ BootstrapFails(h)
  BY <1>2, <1>3 DEF OvertakenNoticed, Start, PrintPassword, Crash,
                    EnsureTemporaryAdmin, BootstrapFails
<1>4. ASSUME NEW mode, NEW ldapAdmins, UpdateSettings(mode, ldapAdmins)
      PROVE  OvertakenNoticed'
  <2>1. config \in Config /\ changes' = changes
    BY <1>4, AdministratingUnmarked DEF UpdateSettings, Good
  <2>2. [config EXCEPT !.mode = mode, !.ldapAdmins = ldapAdmins].accounts
           = config.accounts
    BY <2>1 DEF Config
  <2>3. config'.accounts = config.accounts /\ overtaken' = overtaken
    BY <1>4, <2>2 DEF UpdateSettings, Save
  <2> QED BY <2>1, <2>3 DEF OvertakenNoticed
<1>5. ASSUME NEW u \in Users, NEW role, NEW active, CreateUser(u, role, active)
      PROVE  OvertakenNoticed'
  <2>1. PICK h \in NewHashes(u) :
           Save(WithAccount(u, [role |-> role, active |-> active, hash |-> h,
                                temporary |-> FALSE]), logins, {})
    BY <1>5 DEF CreateUser
  <2>2. process = "up" /\ changes' = changes
    BY <1>5, AdministratingUnmarked DEF CreateUser
  <2> QED BY <2>1, <2>2, NewHashDiffers, SaveNotices
<1>6. ASSUME NEW u \in Users, NEW role, NEW active, UpdateUser(u, role, active)
      PROVE  OvertakenNoticed'
  <2>1. PICK h \in NewHashes(u) \cup {config.accounts[u].hash} :
           LET next == WithAccount(u, UpdatedAccount(config.accounts[u], role,
                                                     active, h))
               late == IF h = config.accounts[u].hash THEN {}
                       ELSE ChangesOf(u)
           IN  KeepsAdmin(next) /\ Save(next, Without(UserSessions(u)), late)
    BY <1>6 DEF UpdateUser
  <2>2. /\ process = "up" /\ changes' = changes
        /\ config \in Config /\ config.accounts[u] # Nil
    BY <1>6, AdministratingUnmarked DEF UpdateUser, Good
  <2> DEFINE account == UpdatedAccount(config.accounts[u], role, active, h)
             late == IF h = config.accounts[u].hash THEN {} ELSE ChangesOf(u)
  <2>3. account.hash = h
    BY <2>2 DEF UpdatedAccount, Config, Account
  <2>4. /\ Save(WithAccount(u, account), Without(UserSessions(u)), late)
        /\ late \subseteq ChangesOf(u)
    BY <2>1
  <2>5. \A c \in (overtaken \cup late) \cap ChangesOf(u) : h # changes[c].hash
    <3>1. CASE h = config.accounts[u].hash
      BY <2>2, <3>1 DEF OvertakenNoticed, ChangesOf
    <3>2. CASE h # config.accounts[u].hash
      BY <3>2, NewHashDiffers
    <3> QED BY <3>1, <3>2
  <2> HIDE DEF account, late
  <2> QED BY <2>2, <2>3, <2>4, <2>5, SaveNotices
<1>7. ASSUME NEW u \in Users, DeleteUser(u)
      PROVE  OvertakenNoticed'
  <2>1. /\ process = "up" /\ changes' = changes
        /\ Save(WithAccount(u, Nil), Without(UserSessions(u)), ChangesOf(u))
    BY <1>7, AdministratingUnmarked DEF DeleteUser
  <2> QED BY <2>1, SaveNotices
<1>8. ASSUME NEW c \in Changers, NEW kind, NEW u, BeginChange(c, kind, u)
      PROVE  OvertakenNoticed'
  BY <1>1, <1>8 DEF BeginChange, OvertakenNoticed
<1>9. ASSUME NEW c \in Changers, StoreChange(c)
      PROVE  OvertakenNoticed'
  <2> DEFINE u == changes[c].user
             account(h) == [config.accounts[u] EXCEPT
                               !.hash = h, !.temporary = FALSE]
  <2>1. /\ process = "up" /\ changes[c] \in Change
        /\ \A d \in Changers \ {c} : changes'[d] = changes[d]
        /\ c \notin overtaken
    BY <1>1, <1>9 DEF StoreChange, StillVerified, OvertakenNoticed, IInv,
                      AuthTypeOK
  <2>2. u \in Users /\ config \in Config /\ config.accounts[u] # Nil
    BY <1>9, <2>1, MemoryType DEF Change, StoreChange, StillVerified
  <2>3. PICK h \in NewHashes(u) :
           Save(WithAccount(u, account(h)), logins, ChangesOf(u) \ {c})
    BY <1>9 DEF StoreChange
  <2>4. account(h).hash = h
    BY <2>2 DEF Config, Account
  <2>5. \A d \in overtaken \cup (ChangesOf(u) \ {c}) : changes'[d] = changes[d]
    BY <1>1, <2>1 DEF ChangesOf
  <2>6. \A d \in ChangesOf(u) : h # changes[d].hash
    BY NewHashDiffers
  <2> HIDE DEF account, u
  <2> QED BY <2>1, <2>2, <2>3, <2>4, <2>5, <2>6, SaveNotices
<1>10. ASSUME NEW c \in Changers, RefuseChange(c)
       PROVE  OvertakenNoticed'
  BY <1>1, <1>10 DEF RefuseChange, OvertakenNoticed
<1>11. CASE \/ \E l \in Logins, u \in Users :
                 AuthenticateLocal(l, u) \/ AuthenticateLDAP(l, u)
            \/ \E l \in Logins : CreateSession(l) \/ DeleteSession(l)
  BY <1>11 DEF AuthenticateLocal, AuthenticateLDAP, LoggedIn, CreateSession,
               DeleteSession, OvertakenNoticed
<1> QED BY <1>3, <1>4, <1>5, <1>6, <1>7, <1>8, <1>9, <1>10, <1>11 DEF AuthNext

(* ChangePassword and CompleteTemporaryPasswordChange give up the lock for  *)
(* the slow hash functions.  With any number of them and of administrators, *)
(* one that was overtaken meanwhile has no effect: whoever set a password   *)
(* or deleted the account after the old one was verified is never undone.   *)
THEOREM ChangesAreVerified == AuthSpec => PasswordChangeIsVerified
<1> DEFINE Harmless ==
      \A c \in overtaken :
         changes'[c] = Nil /\ config' # Nil => UNCHANGED <<config, authFile>>
<1>1. AuthInit => OvertakenNoticed
  BY DEF AuthInit, OvertakenNoticed
<1>2. IInv /\ OvertakenNoticed /\ [AuthNext]_authVars => OvertakenNoticed'
  BY NextNotices DEF authVars, OvertakenNoticed
<1>3. IInv /\ OvertakenNoticed /\ [AuthNext]_authVars => [Harmless]_authVars
  <2> SUFFICES ASSUME IInv, OvertakenNoticed, AuthNext, NEW c \in overtaken,
                      changes'[c] = Nil, config' # Nil
               PROVE  UNCHANGED <<config, authFile>>
    OBVIOUS
  <2>1. /\ changes \in [Changers -> Change \cup {Nil}] /\ process = "up"
        /\ c \in Changers /\ changes[c] # Nil
        /\ ~StillVerified(changes[c])
    BY DEF IInv, AuthTypeOK, OvertakenNoticed, StillVerified
  <2>2. ~(Start \/ Crash \/ \E h \in Hashes :
             EnsureTemporaryAdmin(h) \/ BootstrapFails(h))
    BY <2>1 DEF Start, Crash, EnsureTemporaryAdmin, BootstrapFails
  <2>3. ASSUME NEW d \in Changers, StoreChange(d)
        PROVE  FALSE
    BY <2>1, <2>3 DEF StoreChange
  <2>4. PICK d \in Changers : RefuseChange(d)
    BY <2>1, <2>2, <2>3
       DEF AuthNext, PrintPassword, UpdateSettings, CreateUser, UpdateUser,
           DeleteUser, BeginChange, AuthenticateLocal, AuthenticateLDAP,
           LoggedIn, CreateSession, DeleteSession
  <2> QED BY <2>4 DEF RefuseChange
<1> QED BY <1>1, <1>2, <1>3, AuthInvariance, PTL
        DEF AuthSpec, PasswordChangeIsVerified

(* UpdateSettings, UpdateUser and DeleteUser revoke every session whose     *)
(* rights they change, and no other step changes the rights of one.         *)
THEOREM RightsEndSessions == AuthSpec => SessionsEndWithRights
<1> DEFINE Kept(l) ==
      /\ ModeIncludes(config.mode, logins[l].provider) =>
             ModeIncludes(config'.mode, logins[l].provider)
      /\ logins[l].provider = "local" =>
             \/ config'.accounts[logins[l].user]
                   = config.accounts[logins[l].user]
             \/ config.accounts[logins[l].user] = Nil
             \/ changes' # changes
<1>1. ASSUME IInv, AuthNext, NEW l \in Logins,
             Open(l), logins'[l] # Nil, config' # config
      PROVE  Kept(l)
  <2>1. /\ logins[l] \in Login
        /\ process = "up"
        /\ config \in Config
        /\ changes \in [Changers -> Change \cup {Nil}]
    BY <1>1 DEF IInv, AuthTypeOK, Open
  <2>2. \A next, remaining, late :
           Save(next, remaining, late) => config' = next /\ logins' = remaining
    BY <1>1 DEF Save
  <2>3. \A u \in Users : \A account :
           config' = WithAccount(u, account) =>
              /\ config'.mode = config.mode
              /\ \A v \in Users \ {u} :
                    config'.accounts[v] = config.accounts[v]
    BY <2>1 DEF WithAccount, Config
  <2>4. \A revoked : logins' = Without(revoked) => l \notin revoked
    BY <1>1 DEF Without
  <2>5. logins[l].user \in Users
    BY <2>1 DEF Login
  <2>6. ASSUME NEW mode, NEW ldapAdmins, UpdateSettings(mode, ldapAdmins)
        PROVE  Kept(l)
    <3>1. /\ config' = [config EXCEPT !.mode = mode, !.ldapAdmins = ldapAdmins]
          /\ logins' = Without(ProviderSessions(mode))
      BY <2>2, <2>6 DEF UpdateSettings
    <3>2. config'.mode = mode /\ config'.accounts = config.accounts
      BY <2>1, <3>1 DEF Config
    <3>3. ModeIncludes(mode, logins[l].provider)
      BY <1>1, <2>4, <3>1 DEF ProviderSessions
    <3> QED BY <3>2, <3>3
  <2>7. ASSUME NEW u \in Users, NEW role, NEW active,
               CreateUser(u, role, active)
        PROVE  Kept(l)
    BY <2>2, <2>3, <2>5, <2>7 DEF CreateUser
  <2>8. ASSUME NEW u \in Users, NEW account,
               config' = WithAccount(u, account),
               logins' = Without(UserSessions(u))
        PROVE  Kept(l)
    <3>1. logins[l].provider = "local" => logins[l].user # u
      BY <1>1, <2>4, <2>8 DEF UserSessions
    <3> QED BY <2>3, <2>5, <2>8, <3>1
  <2>9. ASSUME NEW u \in Users, NEW role, NEW active,
               UpdateUser(u, role, active)
        PROVE  Kept(l)
    BY <2>2, <2>8, <2>9 DEF UpdateUser
  <2>10. ASSUME NEW u \in Users, DeleteUser(u)
         PROVE  Kept(l)
    BY <2>2, <2>8, <2>10 DEF DeleteUser
  <2>11. ASSUME NEW c \in Changers, StoreChange(c)
         PROVE  Kept(l)
    <3>1. changes[c].user \in Users
      BY <2>1, <2>11 DEF StoreChange, Change
    <3>2. config'.mode = config.mode
      BY <2>2, <2>3, <2>11, <3>1 DEF StoreChange
    <3>3. changes' # changes
      BY <2>1, <2>11 DEF StoreChange
    <3> QED BY <3>2, <3>3
  <2>12. ~(\/ Start \/ PrintPassword \/ Crash
           \/ \E h \in Hashes : EnsureTemporaryAdmin(h) \/ BootstrapFails(h))
    BY <1>1, <2>1 DEF Start, PrintPassword, Crash, EnsureTemporaryAdmin,
                      BootstrapFails
  <2>13. /\ ~\E c \in Changers, kind \in {"change", "complete"}, u \in Users :
               BeginChange(c, kind, u)
         /\ ~\E c \in Changers : RefuseChange(c)
         /\ ~\E k \in Logins, u \in Users :
               AuthenticateLocal(k, u) \/ AuthenticateLDAP(k, u)
         /\ ~\E k \in Logins : CreateSession(k) \/ DeleteSession(k)
    BY <1>1 DEF BeginChange, RefuseChange, AuthenticateLocal,
                AuthenticateLDAP, LoggedIn, CreateSession, DeleteSession
  <2> HIDE DEF Kept
  <2> QED BY <1>1, <2>6, <2>7, <2>9, <2>10, <2>11, <2>12, <2>13 DEF AuthNext
<1>2. IInv /\ [AuthNext]_authVars =>
        [\A l \in Logins : Open(l) /\ logins'[l] # Nil /\ config' # config =>
            Kept(l)]_authVars
  BY <1>1
<1> QED BY <1>2, AuthInvariance, PTL DEF AuthSpec, SessionsEndWithRights
=============================================================================
