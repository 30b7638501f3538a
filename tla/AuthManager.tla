---------------------------- MODULE AuthManager ----------------------------
(***************************************************************************)
(* auth.Manager: the authentication settings and the local accounts, in    *)
(* memory and in AUTH_FILE, from the first start of the process on.        *)
(*                                                                         *)
(* Every change runs under the lock, writes the whole file and puts the    *)
(* memory back when writing fails.  The last step of writing, Chmod, comes *)
(* after the rename: when it fails, the file already holds the change that *)
(* the caller is told did not happen.  Changing one's own password reads   *)
(* the account, releases the lock for the slow hash functions, and takes   *)
(* it again to store the new hash.                                         *)
(*                                                                         *)
(* A password is represented by its bcrypt hash, which is salted and hence *)
(* new whenever one is computed.  Hashes of different accounts are never   *)
(* compared.  The clusters an operator may use are left out.               *)
(***************************************************************************)
EXTENDS Naturals

CONSTANTS
    Users,       \* account names, up to case (findUserIndex)
    FirstAdmin,  \* the name EnsureTemporaryAdmin uses
    Hashes,      \* password hashes
    Changers,    \* goroutines that change their user's own password
    Logins,      \* logins, each with the session it leads to
    AuthFaults,  \* whether writing the file may fail
    Nil

ASSUME AuthAssumption ==
    /\ FirstAdmin \in Users
    /\ AuthFaults \in BOOLEAN
    /\ Nil \notin Hashes

VARIABLES
    config,     \* m.config, Nil while m.configured is false
    authFile,   \* content of AUTH_FILE, Nil when there is none
    process,    \* "down", "printing" (the first password) or "up"
    generated,  \* hash of the generated password, Nil when there is none
    shown,      \* whether the generated password was printed
    changes,    \* what each password change has read, Nil when idle
    logins,     \* who has authenticated, and whether m.sessions holds it
    overtaken   \* history: the changes whose account was given another
                \* password, or was deleted, after they had read it

authVars ==
    <<config, authFile, process, generated, shown, changes, logins, overtaken>>

Account ==
    [role : {"admin", "operator"}, active : BOOLEAN, hash : Hashes,
     temporary : BOOLEAN]

Config ==
    [mode : {"local", "ldap", "both"}, ldapAdmins : BOOLEAN,
     accounts : [Users -> Account \cup {Nil}]]

Login ==
    [provider : {"local", "ldap"}, user : Users, open : BOOLEAN]

Change == [kind : {"change", "complete"}, user : Users, hash : Hashes]

(* Nil is none of the records.                                              *)
ASSUME NilAssumption == Nil \notin Account \cup Config \cup Change \cup Login

(* What the variables hold: a process has settings unless it is down, and   *)
(* calls are under way only while it serves.                                *)
AuthTypeOK ==
    /\ config \in Config \cup {Nil}
    /\ authFile \in Config \cup {Nil}
    /\ process \in {"down", "printing", "up"}
    /\ generated \in Hashes \cup {Nil}
    /\ shown \in BOOLEAN
    /\ changes \in [Changers -> Change \cup {Nil}]
    /\ logins \in [Logins -> Login \cup {Nil}]
    /\ overtaken \subseteq Changers
    /\ process = "down" <=> config = Nil
    /\ \A c \in Changers : changes[c] # Nil => process = "up"
    /\ \A l \in Logins : logins[l] # Nil => process = "up"

AuthInit ==
    /\ config = Nil
    /\ authFile = Nil
    /\ process = "down"
    /\ generated = Nil
    /\ shown = FALSE
    /\ changes = [c \in Changers |-> Nil]
    /\ logins = [l \in Logins |-> Nil]
    /\ overtaken = {}

-----------------------------------------------------------------------------
ModeIncludes(mode, provider) == mode = "both" \/ mode = provider

(* activeAdminCount, which is only compared with 0.                         *)
ActiveAdmins(accounts) ==
    {u \in Users : /\ accounts[u] # Nil
                   /\ accounts[u].active
                   /\ accounts[u].role = "admin"}

(* The password changes under way for u's account.                          *)
ChangesOf(u) == {c \in Changers : changes[c] # Nil /\ changes[c].user = u}

(* Hashes of u's account that are stored or remembered somewhere.           *)
InUse(u) ==
    {generated}
      \cup {c.accounts[u].hash : c \in {d \in {config, authFile} :
                                          d # Nil /\ d.accounts[u] # Nil}}
      \cup {changes[c].hash : c \in ChangesOf(u)}

NewHashes(u) == Hashes \ InUse(u)

WithAccount(u, account) == [config EXCEPT !.accounts[u] = account]

(* saveLocked.  When it fails, the memory is put back and no session is     *)
(* revoked.  When it succeeds, it overtakes a set of password changes.      *)
Save(next, remaining, late) ==
    \/ /\ config' = next /\ authFile' = next /\ logins' = remaining
       /\ overtaken' = overtaken \cup late
    \/ /\ AuthFaults
       /\ authFile' \in {authFile, next}
       /\ UNCHANGED <<config, logins, overtaken>>

(* The logins that are left when the open sessions in a set are revoked.    *)
Without(revoked) == [l \in Logins |-> IF l \in revoked THEN Nil ELSE logins[l]]

Open(l) == logins[l] # Nil /\ logins[l].open

UserSessionsKept(u) == {}  \* mutant: revokeSessions is not called

(* revokeSessions, for local accounts.                                      *)
UserSessions(u) ==
    {l \in Logins : /\ Open(l)
                    /\ logins[l].provider = "local"
                    /\ logins[l].user = u}

(* revokeProviderSessionsLocked.                                            *)
ProviderSessions(mode) ==
    {l \in Logins : Open(l) /\ ~ModeIncludes(mode, logins[l].provider)}

-----------------------------------------------------------------------------
StartWithoutAdmin ==  \* mutant: EnsureTemporaryAdmin is not called
    /\ process = "down"
    /\ config' = authFile
    /\ process' = "up"
    /\ UNCHANGED <<authFile, generated, shown, changes, logins, overtaken>>

(* main: NewManager loads the file; without one, EnsureTemporaryAdmin       *)
(* stores an administrator with a generated password, which main prints     *)
(* after some more steps.                                                   *)
Start ==
    /\ process = "down"
    /\ authFile # Nil
    /\ config' = authFile
    /\ process' = "up"
    /\ UNCHANGED <<authFile, generated, shown, changes, logins, overtaken>>

FirstConfig(h) ==
    [mode |-> "local", ldapAdmins |-> FALSE,
     accounts |-> [u \in Users |->
         IF u = FirstAdmin
         THEN [role |-> "admin", active |-> TRUE, hash |-> h,
               temporary |-> TRUE]
         ELSE Nil]]

EnsureTemporaryAdmin(h) ==
    /\ process = "down"
    /\ authFile = Nil
    /\ config' = FirstConfig(h)
    /\ authFile' = FirstConfig(h)
    /\ process' = "printing"
    /\ generated' = h
    /\ UNCHANGED <<shown, changes, logins, overtaken>>

(* The file was replaced, but saveLocked reports an error: main exits.      *)
BootstrapFails(h) ==
    /\ AuthFaults
    /\ process = "down"
    /\ authFile = Nil
    /\ authFile' = FirstConfig(h)
    /\ generated' = h
    /\ UNCHANGED <<config, process, shown, changes, logins, overtaken>>

PrintPassword ==
    /\ process = "printing"
    /\ process' = "up"
    /\ shown' = TRUE
    /\ UNCHANGED <<config, authFile, generated, changes, logins, overtaken>>

(* The process ends, with every call under way.                             *)
Crash ==
    /\ process # "down"
    /\ process' = "down"
    /\ config' = Nil
    /\ changes' = [c \in Changers |-> Nil]
    /\ logins' = [l \in Logins |-> Nil]
    /\ overtaken' = {}
    /\ UNCHANGED <<authFile, generated, shown>>

-----------------------------------------------------------------------------
(* Nobody can log in before the generated password was printed.             *)
Serving == process = "up" /\ shown

AdministratingEarly == Serving  \* mutant: a temporary password opens all routes

(* Administrators whom requireAuthentication and requireAdmin let in: local *)
(* ones not before they have replaced a temporary password.  Who sends a    *)
(* request is left open, and with it the handlers' refusal to disable one's *)
(* own account: the sender may have lost the role since it was checked, as  *)
(* when two administrators remove each other.                               *)
Administrating ==
    /\ Serving
    /\ \/ /\ ModeIncludes(config.mode, "local")
          /\ \E u \in ActiveAdmins(config.accounts) :
                ~config.accounts[u].temporary
       \/ ModeIncludes(config.mode, "ldap") /\ config.ldapAdmins

UpdateSettings(mode, ldapAdmins) ==
    /\ Administrating
    /\ ModeIncludes(mode, "local") => ActiveAdmins(config.accounts) # {}
    /\ mode = "ldap" => ldapAdmins
    /\ Save([config EXCEPT !.mode = mode, !.ldapAdmins = ldapAdmins],
            Without(ProviderSessions(mode)), {})
    /\ UNCHANGED <<process, generated, shown, changes>>

CreateUser(u, role, active) ==
    /\ Administrating
    /\ config.accounts[u] = Nil
    /\ \E h \in NewHashes(u) :
          Save(WithAccount(u, [role |-> role, active |-> active, hash |-> h,
                               temporary |-> FALSE]), logins, {})
    /\ UNCHANGED <<process, generated, shown, changes>>

KeepsAdminLocalOnly(next) ==  \* mutant: "both" is forgotten
    next.mode = "local" => ActiveAdmins(next.accounts) # {}

(* The check that an administrator is left, when local login is enabled.    *)
KeepsAdmin(next) ==
    ModeIncludes(next.mode, "local") => ActiveAdmins(next.accounts) # {}

(* The account UpdateUser stores: a reset of the password does not clear    *)
(* MustChangePassword.                                                      *)
UpdatedAccount(account, role, active, h) ==
    [account EXCEPT !.role = role, !.active = active, !.hash = h]

UpdateUser(u, role, active) ==
    /\ Administrating
    /\ config.accounts[u] # Nil
    /\ \E h \in NewHashes(u) \cup {config.accounts[u].hash} :
          LET next == WithAccount(u, UpdatedAccount(config.accounts[u], role,
                                                    active, h))
              late == IF h = config.accounts[u].hash THEN {} ELSE ChangesOf(u)
          IN  KeepsAdmin(next) /\ Save(next, Without(UserSessions(u)), late)
    /\ UNCHANGED <<process, generated, shown, changes>>

DeleteUser(u) ==
    /\ Administrating
    /\ config.accounts[u] # Nil
    /\ LET next == WithAccount(u, Nil)
       IN  /\ KeepsAdmin(next)
           /\ Save(next, Without(UserSessions(u)), ChangesOf(u))
    /\ UNCHANGED <<process, generated, shown, changes>>

-----------------------------------------------------------------------------
(* handleAuthLogin: AuthenticateLocal or AuthenticateLDAP, without the lock *)
(* from reading the settings on, and then CreateSession.                    *)
LoggedIn(l, provider, u) ==
    /\ logins[l] = Nil
    /\ ModeIncludes(config.mode, provider)
    /\ logins' = [logins EXCEPT ![l] =
          [provider |-> provider, user |-> u, open |-> FALSE]]
    /\ UNCHANGED <<config, authFile, process, generated, shown, changes,
                   overtaken>>

AuthenticateLocal(l, u) ==
    /\ Serving
    /\ config.accounts[u] # Nil
    /\ config.accounts[u].active
    /\ LoggedIn(l, "local", u)

(* The directory accepts the name and the password.                         *)
AuthenticateLDAP(l, u) == Serving /\ LoggedIn(l, "ldap", u)

CreateSession(l) ==
    /\ logins[l] # Nil
    /\ ~logins[l].open
    /\ logins' = [logins EXCEPT ![l].open = TRUE]
    /\ UNCHANGED <<config, authFile, process, generated, shown, changes,
                   overtaken>>

(* DeleteSession, after logging out or because Session finds the session    *)
(* expired or no longer covered by the settings.                            *)
DeleteSession(l) ==
    /\ Open(l)
    /\ logins' = [logins EXCEPT ![l] = Nil]
    /\ UNCHANGED <<config, authFile, process, generated, shown, changes,
                   overtaken>>

-----------------------------------------------------------------------------
(* ChangePassword ("change") and CompleteTemporaryPasswordChange            *)
(* ("complete").  First the account is read and verified.                   *)
BeginChange(c, kind, u) ==
    /\ Serving
    /\ changes[c] = Nil
    /\ config.accounts[u] # Nil
    /\ config.accounts[u].active
    /\ kind = "complete" => config.accounts[u].temporary
    /\ changes' = [changes EXCEPT ![c] =
          [kind |-> kind, user |-> u, hash |-> config.accounts[u].hash]]
    /\ UNCHANGED <<config, authFile, process, generated, shown, logins,
                   overtaken>>

StillPresent(change) ==  \* mutant: the hash is not compared again
    LET account == config.accounts[change.user] IN
    /\ account # Nil
    /\ change.kind = "complete" => account.active /\ account.temporary

(* What is checked again under the lock before the new hash is stored.      *)
StillVerified(change) ==
    LET account == config.accounts[change.user] IN
    /\ account # Nil
    /\ account.hash = change.hash
    /\ change.kind = "complete" => account.active /\ account.temporary

StoreChange(c) ==
    /\ changes[c] # Nil
    /\ StillVerified(changes[c])
    /\ LET u == changes[c].user IN
       \E h \in NewHashes(u) :
          Save(WithAccount(u, [config.accounts[u] EXCEPT !.hash = h,
                                                         !.temporary = FALSE]),
               logins, ChangesOf(u) \ {c})
    /\ changes' = [changes EXCEPT ![c] = Nil]
    /\ UNCHANGED <<process, generated, shown>>

RefuseChange(c) ==
    /\ changes[c] # Nil
    /\ ~StillVerified(changes[c])
    /\ changes' = [changes EXCEPT ![c] = Nil]
    /\ overtaken' = overtaken \ {c}
    /\ UNCHANGED <<config, authFile, process, generated, shown, logins>>

-----------------------------------------------------------------------------
AuthNext ==
    \/ Start \/ PrintPassword \/ Crash
    \/ \E h \in Hashes : EnsureTemporaryAdmin(h) \/ BootstrapFails(h)
    \/ \E mode \in {"local", "ldap", "both"}, ldapAdmins \in BOOLEAN :
          UpdateSettings(mode, ldapAdmins)
    \/ \E u \in Users, role \in {"admin", "operator"}, active \in BOOLEAN :
          CreateUser(u, role, active) \/ UpdateUser(u, role, active)
    \/ \E u \in Users : DeleteUser(u)
    \/ \E c \in Changers, kind \in {"change", "complete"}, u \in Users :
          BeginChange(c, kind, u)
    \/ \E c \in Changers : StoreChange(c) \/ RefuseChange(c)
    \/ \E l \in Logins, u \in Users :
          AuthenticateLocal(l, u) \/ AuthenticateLDAP(l, u)
    \/ \E l \in Logins : CreateSession(l) \/ DeleteSession(l)

AuthSpec == AuthInit /\ [][AuthNext]_authVars

-----------------------------------------------------------------------------
(* Whatever administrators do at the same time, whichever writes of the     *)
(* file fail, and whenever the process restarts, the settings in memory and *)
(* those in the file leave somebody who administers: an active local        *)
(* administrator when local login is enabled, an LDAP administrator when it *)
(* is not.  The rule is checked in three operations, each against the       *)
(* memory, while the file may be ahead of it after a failed write.          *)
AdministratorRemains ==
    \A c \in {config, authFile} : c # Nil =>
        IF c.mode = "ldap"
        THEN c.ldapAdmins
        ELSE \E u \in Users : /\ c.accounts[u] # Nil
                              /\ c.accounts[u].role = "admin"
                              /\ c.accounts[u].active

(* Until the generated password is replaced, nothing else is configured:    *)
(* settings with an account that must still change its password, in memory  *)
(* or in the file, are those of the first start.  Failed writes, restarts   *)
(* and edits of accounts never bring the mark back.                         *)
NothingBeforeFirstChange ==
    \A c \in {config, authFile}, u \in Users :
        c # Nil /\ c.accounts[u] # Nil /\ c.accounts[u].temporary =>
            c = FirstConfig(generated)

(* A password change never undoes what happened after it verified the old   *)
(* password, although it gives up the lock meanwhile.  Once an              *)
(* administrator or another change of the same user has set a password, or  *)
(* the account was deleted, perhaps to be created anew under its name, the  *)
(* change ends without any effect on the settings or the file.              *)
PasswordChangeIsVerified ==
    [][\A c \in overtaken :
         changes'[c] = Nil /\ config' # Nil =>
            UNCHANGED <<config, authFile>>]_authVars

(* A session ends with the rights it was opened with: one that stays open   *)
(* through a step saw no login method switched off that it needs, and its   *)
(* account neither edited by an administrator nor deleted; a change of      *)
(* one's own password leaves it open.                                       *)
SessionsEndWithRights ==
    [][\A l \in Logins :
         Open(l) /\ logins'[l] # Nil /\ config' # config =>
             /\ ModeIncludes(config.mode, logins[l].provider) =>
                    ModeIncludes(config'.mode, logins[l].provider)
             /\ logins[l].provider = "local" =>
                    \/ config'.accounts[logins[l].user]
                          = config.accounts[logins[l].user]
                    \/ config.accounts[logins[l].user] = Nil
                    \/ changes' # changes]_authVars

(* What the README says of the first start: a process that serves requests  *)
(* with local login has an administrator whose password somebody was told.  *)
AdministratorCanLogIn ==
    process = "up" /\ ModeIncludes(config.mode, "local") =>
        \E u \in ActiveAdmins(config.accounts) :
            shown \/ config.accounts[u].hash # generated
=============================================================================
