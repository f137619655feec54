------------------------------- MODULE Accounts -------------------------------
(***************************************************************************)
(* The local accounts (LocalAuthStore, users.json) and the handlers that   *)
(* sign operators in and let them manage accounts, second factors and      *)
(* passkeys.  Every method of the store is one critical section that       *)
(* changes the accounts in memory and then saves all of them; the save may *)
(* raise, which ends the request with the change in memory only.  A        *)
(* session is a cookie of the browser, which survives a restart when       *)
(* [web] secret_key is set.  Requests that call the store more than once   *)
(* are split, so that requests of other browsers come in between.          *)
(***************************************************************************)
EXTENDS Naturals, Nothing

CONSTANTS
  Names, Admin,       \* user names; the bootstrap account
  Passwords, Default, \* passwords of 8 characters or more; the default one
  Browsers,
  Enrolments,         \* TOTP secrets, each with one recovery code
  Keys                \* passkeys, by credential id

ASSUME AccountsAssumption ==
  /\ Admin \in Names
  /\ Default \notin Passwords
  /\ None \notin Names \union Enrolments \union Keys \union Passwords \union {Default}

Accounts == [password : Passwords \union {Default}, mustChange : BOOLEAN,
             totp : Enrolments \union {None}, recovery : SUBSET Enrolments,
             passkeys : SUBSET Keys]

ASSUME NoAccountAssumption == None \notin Accounts

VARIABLES
  users,     \* LocalAuthStore._users, None where there is no such account
  disk,      \* users.json
  session,   \* per browser, its session
  request,   \* per browser, the request between two calls of the store
  drawn,     \* TOTP secrets ever drawn by a browser
  admitted,  \* ghost: per recovery code, the logins it completed since it was
             \* enrolled (again, if the operator had to confirm twice)
  promised,  \* ghost: users told that 2FA is on, and not disabled since
  dirty,     \* ghost: a save failed, and none has made up for it
  undone     \* ghost: a restart has undone a change that was not saved, or everything

accountVars == <<users, disk, session, request, drawn, admitted, promised, dirty,
                 undone>>

SignedOut == [user |-> None, method |-> "none", mustChange |-> FALSE,
              pending |-> None, pendingMust |-> FALSE,
              enrolling |-> None, challenge |-> "none"]

Idle == [op |-> "none", user |-> None, arg |-> None]

\* mutant: without passkeys, as a file of an older release has it.
NewAccountBare(pw, must) ==
  [password |-> pw, mustChange |-> must, totp |-> None, recovery |-> {}]

NewAccount(pw, must) ==
  [password |-> pw, mustChange |-> must, totp |-> None, recovery |-> {},
   passkeys |-> {}]

Exists(n) == users[n] # None

\* _save of what the caller made of the accounts; it raises unless `ok'.
Save(accounts, ok) ==
  /\ users' = accounts
  /\ disk' = IF ok THEN accounts ELSE disk
  /\ dirty' = (~ok /\ accounts # disk)

\* require_login lets the request through to a handler other than change_password.
SignedIn(b) == session[b].user # None /\ ~session[b].mustChange /\ request[b] = Idle

FullSession(n, how, must) ==
  [SignedOut EXCEPT !.user = n, !.method = how, !.mustChange = must]

(***************************************************************************)
(* Signing in                                                              *)
(***************************************************************************)
\* login_post, up to authenticate: a match is saved as last_login.
LoginPost(b, n, ok) ==
  /\ request[b] = Idle
  /\ Exists(n)
  /\ Save(users, ok)
  /\ request' = [request EXCEPT ![b] = IF ok THEN [Idle EXCEPT !.op = "login", !.user = n] ELSE Idle]
  /\ UNCHANGED <<session, drawn, admitted, promised, undone>>

\* login_post goes on: must_change_password and totp_enabled are looked up now.
Establish(b) ==
  /\ request[b].op = "login"
  /\ LET n    == request[b].user
         must == Exists(n) /\ users[n].mustChange
     IN  session' = [session EXCEPT ![b] =
           IF Exists(n) /\ users[n].totp # None
           THEN [SignedOut EXCEPT !.pending = n, !.pendingMust = must]
           ELSE FullSession(n, "local", must)]
  /\ request' = [request EXCEPT ![b] = Idle]
  /\ UNCHANGED <<users, disk, dirty, drawn, admitted, promised, undone>>

\* The password is not a local one, but RADIUS accepts it.
LoginRadius(b, n) ==
  /\ request[b] = Idle
  /\ session' = [session EXCEPT ![b] = FullSession(n, "radius", FALSE)]
  /\ UNCHANGED <<users, disk, dirty, request, drawn, admitted, promised, undone>>

Promote(b) ==
  session' = [session EXCEPT ![b] =
                FullSession(session[b].pending, "local", session[b].pendingMust)]

\* login_2fa_post with the code of the enrolled secret.
Login2faCode(b) ==
  /\ request[b] = Idle
  /\ session[b].pending # None
  /\ Exists(session[b].pending)
  /\ users[session[b].pending].totp # None
  /\ Promote(b)
  /\ UNCHANGED <<users, disk, dirty, request, drawn, admitted, promised, undone>>

\* mutant: a used code is struck out in memory only.
ConsumeUnsaved(n, code, ok) ==
  /\ Exists(n)
  /\ code \in users[n].recovery
  /\ users' = [users EXCEPT ![n].recovery = @ \ {code}]
  /\ UNCHANGED <<disk, dirty>>

\* consume_recovery_code
ConsumeRecoveryCode(n, code, ok) ==
  /\ Exists(n)
  /\ code \in users[n].recovery
  /\ Save([users EXCEPT ![n].recovery = @ \ {code}], ok)

\* login_2fa_post with a recovery code.
Login2faRecovery(b, code, ok) ==
  /\ request[b] = Idle
  /\ session[b].pending # None
  /\ ConsumeRecoveryCode(session[b].pending, code, ok)
  /\ IF ok THEN Promote(b) /\ admitted' = [admitted EXCEPT ![code] = IF @ < 2 THEN @ + 1 ELSE @]
           ELSE UNCHANGED <<session, admitted>>
  /\ UNCHANGED <<request, drawn, promised, undone>>

Logout(b) ==
  /\ request[b] = Idle
  /\ session' = [session EXCEPT ![b] = SignedOut]
  /\ UNCHANGED <<users, disk, dirty, request, drawn, admitted, promised, undone>>

(***************************************************************************)
(* Changing one's own account                                              *)
(***************************************************************************)
\* change_password_post, up to authenticate with the current password.
ChangePasswordPost(b, new, ok) ==
  /\ request[b] = Idle
  /\ session[b].user # None /\ session[b].method = "local"
  /\ Exists(session[b].user)
  /\ users[session[b].user].password # new
  /\ Save(users, ok)
  /\ request' = [request EXCEPT ![b] =
       IF ok THEN [op |-> "change", user |-> session[b].user, arg |-> new] ELSE Idle]
  /\ UNCHANGED <<session, drawn, admitted, promised, undone>>

\* mutant: the new password is not saved.
ChangeUnsaved(n, new, ok) ==
  /\ users' = [users EXCEPT ![n].password = new, ![n].mustChange = FALSE]
  /\ UNCHANGED <<disk, dirty>>

\* mutant: the account is made anew.
ChangeAnew(n, new, ok) == Save([users EXCEPT ![n] = NewAccount(new, FALSE)], ok)

\* change_password
Change(n, new, ok) ==
  Save([users EXCEPT ![n].password = new, ![n].mustChange = FALSE], ok)

\* change_password_post goes on; the account may be gone by now.
ChangePassword(b, ok) ==
  /\ request[b].op = "change"
  /\ IF Exists(request[b].user)
     THEN /\ Change(request[b].user, request[b].arg, ok)
          /\ session' = IF ok THEN [session EXCEPT ![b].mustChange = FALSE] ELSE session
     ELSE UNCHANGED <<users, disk, dirty, session>>
  /\ request' = [request EXCEPT ![b] = Idle]
  /\ UNCHANGED <<drawn, admitted, promised, undone>>

\* settings_2fa_begin: secret and recovery codes wait in the session.
TwofaBegin(b, secret) ==
  /\ SignedIn(b)
  /\ session[b].method = "local"
  /\ secret \notin drawn
  /\ drawn' = drawn \union {secret}
  /\ session' = [session EXCEPT ![b].enrolling = secret]
  /\ UNCHANGED <<users, disk, dirty, request, admitted, promised, undone>>

EnrollTotp(n, e, ok) == Save([users EXCEPT ![n].totp = e, ![n].recovery = {e}], ok)

\* settings_2fa_confirm with a code of the pending secret.
TwofaConfirm(b, ok) ==
  LET n == session[b].user
      e == session[b].enrolling
  IN
  /\ SignedIn(b)
  /\ e # None
  /\ Exists(n)
  /\ EnrollTotp(n, e, ok)
  /\ IF ok THEN /\ session' = [session EXCEPT ![b].enrolling = None]
                /\ promised' = promised \union {n}
           ELSE UNCHANGED <<session, promised>>
  /\ admitted' = [admitted EXCEPT ![e] = 0]
  /\ UNCHANGED <<request, drawn, undone>>

DisableTotp(n, ok) == Save([users EXCEPT ![n].totp = None, ![n].recovery = {}], ok)

\* settings_2fa_disable with a code of the enrolled secret.
TwofaDisable(b, ok) ==
  LET n == session[b].user IN
  /\ SignedIn(b)
  /\ Exists(n)
  /\ users[n].totp # None
  /\ DisableTotp(n, ok)
  /\ promised' = promised \ {n}
  /\ UNCHANGED <<session, request, drawn, admitted, undone>>

(***************************************************************************)
(* Passkeys                                                                *)
(***************************************************************************)
\* settings_passkeys_register_begin
PasskeyRegisterBegin(b) ==
  /\ SignedIn(b)
  /\ session[b].method = "local"
  /\ session' = [session EXCEPT ![b].challenge = "register"]
  /\ UNCHANGED <<users, disk, dirty, request, drawn, admitted, promised, undone>>

AddPasskey(n, key, ok) == Save([users EXCEPT ![n].passkeys = @ \union {key}], ok)

\* settings_passkeys_register_complete: the authenticator has made a new
\* credential, and add_passkey saves it.
PasskeyRegisterComplete(b, key, ok) ==
  LET n == session[b].user IN
  /\ SignedIn(b)
  /\ session[b].challenge = "register"
  /\ Exists(n)
  /\ \A m \in Names : (Exists(m) => key \notin users[m].passkeys)
                     /\ (disk[m] # None => key \notin disk[m].passkeys)
  /\ AddPasskey(n, key, ok)
  /\ session' = [session EXCEPT ![b].challenge = "none"]
  /\ UNCHANGED <<request, drawn, admitted, promised, undone>>

OwnsPasskey(n, key) == Exists(n) /\ key \in users[n].passkeys

RemovePasskey(n, key, ok) ==
  /\ OwnsPasskey(n, key)
  /\ Save([users EXCEPT ![n].passkeys = @ \ {key}], ok)

\* settings_passkeys_remove
PasskeyRemove(b, key, ok) ==
  /\ SignedIn(b)
  /\ RemovePasskey(session[b].user, key, ok)
  /\ UNCHANGED <<session, request, drawn, admitted, promised, undone>>

\* login_passkey_begin, called from the login page, which a browser that is
\* signed in does not get to see.
PasskeyLoginBegin(b) ==
  /\ request[b] = Idle
  /\ session[b].user = None
  /\ session' = [session EXCEPT ![b].challenge = "login"]
  /\ UNCHANGED <<users, disk, dirty, request, drawn, admitted, promised, undone>>

\* login_passkey_complete, up to verify_authentication: the owner of the
\* credential is looked up, and the assertion is good.
PasskeyLoginComplete(b, n, key) ==
  /\ request[b] = Idle
  /\ session[b].challenge = "login"
  /\ OwnsPasskey(n, key)
  /\ session' = [session EXCEPT ![b].challenge = "none"]
  /\ request' = [request EXCEPT ![b] = [op |-> "passkey", user |-> n, arg |-> key]]
  /\ UNCHANGED <<users, disk, dirty, drawn, admitted, promised, undone>>

\* login_passkey_complete goes on: update_passkey_after_use saves, unless the
\* passkey is gone, and the session is established.
PasskeyEstablish(b, ok) ==
  LET n     == request[b].user
      there == OwnsPasskey(n, request[b].arg)
  IN
  /\ request[b].op = "passkey"
  /\ IF there THEN Save(users, ok) ELSE UNCHANGED <<users, disk, dirty>>
  /\ session' = IF there /\ ~ok THEN session
                ELSE [session EXCEPT ![b] =
                        FullSession(n, "local", Exists(n) /\ users[n].mustChange)]
  /\ request' = [request EXCEPT ![b] = Idle]
  /\ UNCHANGED <<drawn, admitted, promised, undone>>

(***************************************************************************)
(* Managing accounts                                                       *)
(***************************************************************************)
\* settings_user_add and add_user.
UserAdd(b, n, pw, ok) ==
  /\ SignedIn(b)
  /\ ~Exists(n)
  /\ Save([users EXCEPT ![n] = NewAccount(pw, FALSE)], ok)
  /\ UNCHANGED <<session, request, drawn, admitted, promised, undone>>

\* mutant: the last account may go as well.
RemovableAny(n) == Exists(n)

\* remove_user refuses to remove the last account.
Removable(n) == Exists(n) /\ \E m \in Names \ {n} : Exists(m)

\* settings_user_remove: not the user one is signed in as.
UserRemove(b, n, ok) ==
  /\ SignedIn(b)
  /\ session[b].user # n
  /\ Removable(n)
  /\ Save([users EXCEPT ![n] = None], ok)
  /\ promised' = promised \ {n}
  /\ UNCHANGED <<session, request, drawn, admitted, undone>>

\* _load: a file that cannot be read counts as empty.
LoadedUsers(readable) == IF readable THEN disk ELSE [n \in Names |-> None]

\* bootstrap_default_admin.
Bootstrapped(accounts) ==
  IF \A n \in Names : accounts[n] = None
  THEN [accounts EXCEPT ![Admin] = NewAccount(Default, TRUE)] ELSE accounts

\* The agent dies and is started again, with whatever it could read; the cookies are lost
\* if it draws a new secret_key.
AgentRestart(readable) ==
  /\ users' = Bootstrapped(LoadedUsers(readable))
  /\ disk' = users'
  /\ request' = [b \in Browsers |-> Idle]
  /\ session' \in {session, [b \in Browsers |-> SignedOut]}
  /\ dirty' = FALSE
  /\ undone' = (undone \/ dirty \/ ~readable)
  /\ promised' = IF readable THEN promised ELSE {}
  /\ UNCHANGED <<drawn, admitted>>

AccountsInit ==
  /\ users = Bootstrapped([n \in Names |-> None])
  /\ disk = users
  /\ session = [b \in Browsers |-> SignedOut]
  /\ request = [b \in Browsers |-> Idle]
  /\ drawn = {}
  /\ admitted = [e \in Enrolments |-> 0]
  /\ promised = {}
  /\ dirty = FALSE
  /\ undone = FALSE

Handlers(b, ok) ==
  \/ \E n \in Names : LoginPost(b, n, ok)
  \/ \E e \in Enrolments : Login2faRecovery(b, e, ok)
  \/ \E pw \in Passwords : ChangePasswordPost(b, pw, ok)
  \/ ChangePassword(b, ok)
  \/ TwofaConfirm(b, ok)
  \/ TwofaDisable(b, ok)
  \/ \E k \in Keys : PasskeyRegisterComplete(b, k, ok) \/ PasskeyRemove(b, k, ok)
  \/ PasskeyEstablish(b, ok)
  \/ \E n \in Names, pw \in Passwords : UserAdd(b, n, pw, ok)
  \/ \E n \in Names : UserRemove(b, n, ok)

AccountsNext ==
  \/ \E b \in Browsers, ok \in BOOLEAN : Handlers(b, ok)
  \/ \E b \in Browsers :
       \/ Establish(b)
       \/ \E n \in Names : LoginRadius(b, n)
       \/ Login2faCode(b)
       \/ Logout(b)
       \/ \E e \in Enrolments : TwofaBegin(b, e)
       \/ PasskeyRegisterBegin(b)
       \/ PasskeyLoginBegin(b)
       \/ \E n \in Names, k \in Keys : PasskeyLoginComplete(b, n, k)
  \/ \E readable \in BOOLEAN : AgentRestart(readable)

AccountsSpec == AccountsInit /\ [][AccountsNext]_accountVars

AccountsTypeOK ==
  /\ users \in [Names -> Accounts \union {None}]
  /\ disk \in [Names -> Accounts \union {None}]
  /\ session \in [Browsers ->
       [user : Names \union {None}, method : {"none", "local", "radius"},
        mustChange : BOOLEAN, pending : Names \union {None}, pendingMust : BOOLEAN,
        enrolling : Enrolments \union {None},
        challenge : {"none", "register", "login"}]]
  /\ request \in [Browsers ->
       [op : {"none", "login", "change", "passkey"}, user : Names \union {None},
        arg : Passwords \union Keys \union {None}]]
  /\ drawn \subseteq Enrolments
  /\ admitted \in [Enrolments -> 0 .. 2]
  /\ promised \subseteq Names
  /\ dirty \in BOOLEAN
  /\ undone \in BOOLEAN

\* A recovery code completes one login per enrolment at most, although it may be typed into
\* two browsers at once, saves fail and the agent restarts in between.
RecoveryCodeAdmitsOnce == \A e \in Enrolments : admitted[e] <= 1

\* While the default password still opens the bootstrap account, nobody who
\* came in as it can do anything but change it, whatever other browsers,
\* restarts and failing saves have done to the account meanwhile.  (A change of
\* which the operator was told that it failed is in force until a restart undoes
\* it, and a session may have come about through it; and a session outlives a
\* users.json that a start cannot read, which brings the default password back.)
DefaultPasswordIsGated ==
  \A b \in Browsers, n \in Names :
    session[b].user = n /\ session[b].method = "local" /\ ~session[b].mustChange /\ ~undone
      => ~Exists(n) \/ users[n].password # Default

\* There is an account to sign in with, now and after a restart, however
\* operators remove accounts, each other's included.
SomeoneCanSignIn ==
  (\E n \in Names : users[n] # None) /\ (\E n \in Names : disk[n] # None)

\* A user who was told that 2FA is on is enrolled, and will be after a restart,
\* until they disable it, the account is removed or a start cannot read users.json.
EnrolmentIsKept ==
  \A n \in promised : /\ users[n] # None /\ users[n].totp # None
                       /\ disk[n] # None /\ disk[n].totp # None
===============================================================================
