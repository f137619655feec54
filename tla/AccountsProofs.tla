----------------------------- MODULE AccountsProofs ----------------------------
(***************************************************************************)
(* The local accounts keep what their handlers promise, for any number of  *)
(* users, browsers, second factors and passkeys, whichever saves raise and *)
(* whenever the agent restarts.                                            *)
(***************************************************************************)
EXTENDS Accounts, TLAPS

Stores == [Names -> Accounts \union {None}]
Sessions ==
  [user : Names \union {None}, method : {"none", "local", "radius"},
   mustChange : BOOLEAN, pending : Names \union {None}, pendingMust : BOOLEAN,
   enrolling : Enrolments \union {None}, challenge : {"none", "register", "login"}]
Requests ==
  [op : {"none", "login", "change", "passkey"}, user : Names \union {None},
   arg : Passwords \union Keys \union {None}]

\* What holds of the accounts in memory and of those in users.json alike.
Populated(store) == \E n \in Names : store[n] # None
Gated(store) ==
  \A n \in Names :
    store[n] # None /\ store[n].password = Default => store[n].mustChange
Enrolled(store, who) == \A n \in who : store[n] # None /\ store[n].totp # None

StoresAreGood ==
  /\ Populated(users) /\ Gated(users) /\ Enrolled(users, promised)
  /\ Populated(disk) /\ Gated(disk) /\ Enrolled(disk, promised)

\* Nothing but a failed save keeps the file behind the memory.
CleanIsSaved == ~dirty => disk = users

\* A request between two calls is about a user, and one that changes a password about
\* the session's, and changes it to one that is not the default.
RequestsAreSound ==
  \A b \in Browsers :
    /\ request[b].op # "none" => request[b].user \in Names
    /\ request[b].op = "change" =>
         request[b].user = session[b].user /\ request[b].arg \in Passwords

\* Nobody is, or with a second factor would be, in with the default password and free
\* to go on.
NobodyPasses ==
  \A b \in Browsers, n \in Names :
    ~undone /\ Exists(n) /\ users[n].password = Default =>
      /\ ~(session[b].user = n /\ session[b].method = "local" /\ ~session[b].mustChange)
      /\ ~(session[b].pending = n /\ ~session[b].pendingMust)

\* A recovery code belongs to one user, in memory, in the file and in the session it was
\* drawn in.
CodesOf(store, n) == IF store[n] = None THEN {} ELSE store[n].recovery
Drawing(b, n) == IF session[b].user = n THEN {session[b].enrolling} \ {None} ELSE {}
Owns(n, e) ==
  \/ e \in CodesOf(users, n) \/ e \in CodesOf(disk, n)
  \/ \E b \in Browsers : e \in Drawing(b, n)

CodesHaveOneOwner ==
  /\ \A b \in Browsers : session[b].enrolling # None => session[b].user # None
  /\ \A n \in Names, e \in Enrolments : Owns(n, e) => e \in drawn
  /\ \A m, n \in Names, e \in Enrolments : Owns(m, e) /\ Owns(n, e) => m = n

\* A code that has admitted someone is in no account any more, not even in the file.
UsedCodesAreGone ==
  \A e \in Enrolments :
    /\ admitted[e] <= 1
    /\ admitted[e] = 1 =>
         \A n \in Names : e \notin CodesOf(users, n) /\ e \notin CodesOf(disk, n)

AccountsInv ==
  /\ AccountsTypeOK /\ StoresAreGood /\ CleanIsSaved
  /\ RequestsAreSound /\ NobodyPasses
  /\ CodesHaveOneOwner /\ UsedCodesAreGone

(***************************************************************************)
(* One critical section                                                    *)
(***************************************************************************)
\* bootstrap_default_admin leaves a file with an account in it alone.
LEMMA BootstrapIsIdle ==
  ASSUME NEW store, Populated(store)
  PROVE  Bootstrapped(store) = store
  BY DEF Bootstrapped, Populated

\* What a method of the store leaves of the accounts if it neither adds nor removes one,
\* nor touches a password or a second factor, but for codes it strikes out.
Mild(store) ==
  \A n \in Names :
    /\ store[n] = None <=> users[n] = None
    /\ store[n] # None =>
         /\ store[n].password = users[n].password
         /\ store[n].mustChange = users[n].mustChange
         /\ store[n].totp = users[n].totp
         /\ store[n].recovery \subseteq users[n].recovery

LEMMA UsersAreMild == Mild(users)
  BY DEF Mild

\* _save of good accounts leaves memory and file good, whether or not it raises; if it
\* raises, the file is good for those who are promised something still.
LEMMA SaveGood ==
  ASSUME StoresAreGood, CleanIsSaved, users \in Stores, disk \in Stores,
         NEW store \in Stores, NEW ok \in BOOLEAN, Save(store, ok),
         Populated(store), Gated(store), Enrolled(store, promised'),
         ~ok => promised' \subseteq promised
  PROVE  /\ users' \in Stores /\ disk' \in Stores /\ dirty' \in BOOLEAN
         /\ StoresAreGood' /\ CleanIsSaved'
<1>1. users' = store /\ disk' \in {store, disk} /\ dirty' \in BOOLEAN /\ (ok => disk' = store)
  BY DEF Save
<1>2. ~dirty' => disk' = users'
  BY DEF Save
<1>3. Populated(users') /\ Gated(users') /\ Enrolled(users', promised')
  BY <1>1
<1>4. Populated(disk') /\ Gated(disk')
  BY <1>1 DEF StoresAreGood
<1>5. Enrolled(disk', promised')
  BY <1>1 DEF StoresAreGood, Enrolled
<1>6. QED
  BY <1>1, <1>2, <1>3, <1>4, <1>5 DEF StoresAreGood, CleanIsSaved, Populated, Gated, Enrolled

LEMMA MildIsGood ==
  ASSUME StoresAreGood, promised \subseteq Names, NEW store \in Stores, Mild(store)
  PROVE  Populated(store) /\ Gated(store) /\ Enrolled(store, promised)
<1>1. Populated(users) /\ Gated(users) /\ Enrolled(users, promised)
  BY DEF StoresAreGood
<1>2. Populated(store)
  BY <1>1 DEF Populated, Mild
<1>3. Gated(store)
  BY <1>1 DEF Gated, Mild
<1>4. Enrolled(store, promised)
  BY <1>1 DEF Enrolled, Mild
<1>5. QED
  BY <1>2, <1>3, <1>4

\* Codes keep their owner while no account and no session gets any.
LEMMA CodesKeptBySave ==
  ASSUME CodesHaveOneOwner, NEW store, NEW ok \in BOOLEAN, Save(store, ok),
         \A n \in Names : CodesOf(store, n) \subseteq CodesOf(users, n),
         \A b \in Browsers : /\ session'[b].enrolling # None =>
                                  /\ session'[b].enrolling = session[b].enrolling
                                  /\ session'[b].user = session[b].user,
         drawn' = drawn
  PROVE  CodesHaveOneOwner'
<1>1. users' = store /\ disk' \in {store, disk}
  BY DEF Save
<1>2. ASSUME NEW n \in Names, NEW e \in Enrolments, Owns(n, e)' PROVE Owns(n, e)
  <2>1. CASE e \in CodesOf(users', n) \/ e \in CodesOf(disk', n)
    BY <1>1, <2>1 DEF Owns
  <2>2. CASE \E b \in Browsers : e \in Drawing(b, n)'
    BY <2>2 DEF Owns, Drawing
  <2>3. QED
    BY <1>2, <2>1, <2>2 DEF Owns, CodesOf
<1>3. QED
  BY <1>2 DEF CodesHaveOneOwner

\* The same, where the accounts are left alone.
LEMMA CodesKept ==
  ASSUME CodesHaveOneOwner, UNCHANGED <<users, disk>>,
         \A b \in Browsers : /\ session'[b].enrolling # None =>
                                  /\ session'[b].enrolling = session[b].enrolling
                                  /\ session'[b].user = session[b].user,
         drawn' = drawn
  PROVE  CodesHaveOneOwner'
<1>1. ASSUME NEW n \in Names, NEW e \in Enrolments, Owns(n, e)' PROVE Owns(n, e)
  BY <1>1 DEF Owns, Drawing, CodesOf
<1>2. QED
  BY <1>1 DEF CodesHaveOneOwner

LEMMA UsedCodesStayGone ==
  ASSUME UsedCodesAreGone, NEW store, NEW ok \in BOOLEAN, Save(store, ok),
         \A n \in Names : CodesOf(store, n) \subseteq CodesOf(users, n),
         admitted' = admitted
  PROVE  UsedCodesAreGone'
<1>1. users' = store /\ disk' \in {store, disk}
  BY DEF Save
<1>2. \A n \in Names, e \in Enrolments :
        /\ e \in CodesOf(users', n) => e \in CodesOf(users, n)
        /\ e \in CodesOf(disk', n) => e \in CodesOf(users, n) \/ e \in CodesOf(disk, n)
  BY <1>1
<1>3. QED
  BY <1>2 DEF UsedCodesAreGone, CodesOf

LEMMA MildKeepsCodes ==
  ASSUME NEW store, Mild(store)
  PROVE  \A n \in Names : CodesOf(store, n) \subseteq CodesOf(users, n)
  BY DEF Mild, CodesOf

\* Nobody gets past the default password while no account gets it, and each session
\* is as it was or one that is safe for its user.
SafeFor(s, n) ==
  /\ ~(s.user = n /\ s.method = "local" /\ ~s.mustChange)
  /\ ~(s.pending = n /\ ~s.pendingMust)

LEMMA NobodyPassesStill ==
  ASSUME NobodyPasses, undone' = undone,
         \A n \in Names : users'[n] # None /\ users'[n].password = Default =>
                            users[n] # None /\ users[n].password = Default,
         \A b \in Browsers :
           \/ session'[b] = session[b]
           \/ \A n \in Names : users'[n] # None /\ users'[n].password = Default /\ ~undone =>
                                 SafeFor(session'[b], n)
  PROVE  NobodyPasses'
<1> SUFFICES ASSUME NEW b \in Browsers, NEW n \in Names,
                    ~undone, users'[n] # None, users'[n].password = Default
             PROVE  SafeFor(session'[b], n)
  BY DEF NobodyPasses, Exists, SafeFor
<1>1. CASE session'[b] = session[b]
  BY <1>1 DEF NobodyPasses, Exists, SafeFor
<1>2. QED
  BY <1>1

(***************************************************************************)
(* One step of a handler                                                   *)
(***************************************************************************)
\* What the session of a browser may become where the accounts are `users'' and no code
\* is drawn: what it holds is what it held, and nobody passes.
SessionStep(b) ==
  /\ session'[b].enrolling # None => /\ session'[b].enrolling = session[b].enrolling
                                     /\ session'[b].user = session[b].user
  /\ \/ session'[b] = session[b]
     \/ \A n \in Names : users'[n] # None /\ users'[n].password = Default /\ ~undone =>
                           SafeFor(session'[b], n)

\* A step that leaves the accounts alone.
LEMMA SessionStepInv ==
  ASSUME AccountsInv, UNCHANGED <<users, disk, dirty, drawn, admitted, promised, undone>>,
         session' \in [Browsers -> Sessions], request' \in [Browsers -> Requests],
         \A b \in Browsers : SessionStep(b),
         RequestsAreSound'
  PROVE  AccountsInv'
<1>1. AccountsTypeOK'
  BY DEF AccountsInv, AccountsTypeOK, Sessions, Requests
<1>2. StoresAreGood' /\ CleanIsSaved' /\ UsedCodesAreGone'
  BY DEF AccountsInv, StoresAreGood, CleanIsSaved, UsedCodesAreGone, Populated, Gated,
         Enrolled, CodesOf
<1>3. NobodyPasses'
  BY NobodyPassesStill DEF AccountsInv, SessionStep
<1>4. CodesHaveOneOwner'
  BY CodesKept DEF AccountsInv, SessionStep
<1>5. QED
  BY <1>1, <1>2, <1>3, <1>4 DEF AccountsInv

\* A step that saves accounts which are mild.
LEMMA MildStepInv ==
  ASSUME AccountsInv, NEW store \in Stores, NEW ok \in BOOLEAN, Save(store, ok), Mild(store),
         UNCHANGED <<drawn, admitted, promised, undone>>,
         session' \in [Browsers -> Sessions], request' \in [Browsers -> Requests],
         \A b \in Browsers : SessionStep(b),
         RequestsAreSound'
  PROVE  AccountsInv'
<1>0. users \in Stores /\ disk \in Stores /\ promised \subseteq Names
  BY DEF AccountsInv, AccountsTypeOK, Stores
<1>1. Populated(store) /\ Gated(store) /\ Enrolled(store, promised')
  BY <1>0, MildIsGood DEF AccountsInv
<1>2. users' \in Stores /\ disk' \in Stores /\ dirty' \in BOOLEAN /\ StoresAreGood' /\ CleanIsSaved'
  BY <1>0, <1>1, SaveGood DEF AccountsInv
<1>3. AccountsTypeOK'
  BY <1>2 DEF AccountsInv, AccountsTypeOK, Sessions, Requests, Stores
<1>4. users' = store
  BY DEF Save
<1>5. NobodyPasses'
  <2>1. \A n \in Names : users'[n] # None /\ users'[n].password = Default =>
                            users[n] # None /\ users[n].password = Default
    BY <1>4 DEF Mild
  <2>2. QED
    BY <2>1, NobodyPassesStill DEF AccountsInv, SessionStep
<1>6. CodesHaveOneOwner'
  BY MildKeepsCodes, CodesKeptBySave DEF AccountsInv, SessionStep
<1>7. UsedCodesAreGone'
  BY MildKeepsCodes, UsedCodesStayGone DEF AccountsInv
<1>8. QED
  BY <1>2, <1>3, <1>5, <1>6, <1>7 DEF AccountsInv

\* What the steps start from.
LEMMA Shapes ==
  ASSUME AccountsInv, NEW b \in Browsers
  PROVE  /\ users \in Stores /\ disk \in Stores /\ dirty \in BOOLEAN /\ undone \in BOOLEAN
         /\ session \in [Browsers -> Sessions] /\ request \in [Browsers -> Requests]
         /\ drawn \subseteq Enrolments /\ admitted \in [Enrolments -> 0 .. 2]
         /\ promised \subseteq Names
         /\ session[b] \in Sessions /\ request[b] \in Requests
         /\ SignedOut \in Sessions /\ Idle \in Requests
         /\ SignedOut.user = None /\ SignedOut.pending = None /\ SignedOut.enrolling = None
         /\ Idle.op = "none"
         /\ request[b].op # "none" => request[b].user \in Names
  BY AccountsAssumption
  DEF AccountsInv, AccountsTypeOK, RequestsAreSound, Stores, Sessions, Requests, SignedOut, Idle

LEMMA FullSessionShape ==
  ASSUME NEW n \in Names, NEW how \in {"none", "local", "radius"}, NEW must \in BOOLEAN
  PROVE  LET s == FullSession(n, how, must) IN
         /\ s \in Sessions
         /\ s.user = n /\ s.method = how /\ s.mustChange = must
         /\ s.pending = None /\ s.enrolling = None
  BY DEF FullSession, SignedOut, Sessions

\* A session that comes about by signing in is safe for everybody if it must change the
\* password where that is the default one.
LEMMA FullSessionSafe ==
  ASSUME NEW n \in Names, NEW how \in {"none", "local", "radius"}, NEW must \in BOOLEAN,
         how = "local" /\ users[n] # None /\ users[n].password = Default /\ ~undone => must
  PROVE  \A m \in Names : users[m] # None /\ users[m].password = Default /\ ~undone
                            => SafeFor(FullSession(n, how, must), m)
  BY FullSessionShape, AccountsAssumption DEF SafeFor

\* The session of one browser changes.
LEMMA OneSession ==
  ASSUME AccountsInv, NEW b \in Browsers, NEW s \in Sessions,
         session' = [session EXCEPT ![b] = s],
         s.enrolling # None => s.enrolling = session[b].enrolling /\ s.user = session[b].user,
         \A n \in Names : users'[n] # None /\ users'[n].password = Default /\ ~undone
                            => SafeFor(s, n)
  PROVE  session' \in [Browsers -> Sessions] /\ \A c \in Browsers : SessionStep(c)
<1>1. session' \in [Browsers -> Sessions]
  BY Shapes
<1>2. session'[b] = s /\ \A c \in Browsers \ {b} : session'[c] = session[c]
  BY Shapes
<1>3. QED
  BY <1>1, <1>2 DEF SessionStep

LEMMA NoSession ==
  ASSUME session' = session
  PROVE  \A c \in Browsers : SessionStep(c)
  BY DEF SessionStep

\* The browser of a request that is at its end, or has none, may change its session.
LEMMA RequestEnds ==
  ASSUME AccountsInv, NEW b \in Browsers,
         session' = session \/ \E s \in Sessions : session' = [session EXCEPT ![b] = s],
         (request' = request /\ request[b] = Idle) \/ request' = [request EXCEPT ![b] = Idle]
  PROVE  request' \in [Browsers -> Requests] /\ RequestsAreSound'
<1>1. \A c \in Browsers \ {b} : session'[c] = session[c] /\ request'[c] = request[c]
  BY Shapes
<1>2. request'[b] = Idle
  BY Shapes
<1>3. QED
  BY <1>1, <1>2, Shapes DEF AccountsInv, RequestsAreSound

\* Nobody passes with a session that was safe, or another challenge or end of it.
LEMMA SessionWasSafe ==
  ASSUME AccountsInv, NEW b \in Browsers, NEW n \in Names,
         users[n] # None, users[n].password = Default, ~undone
  PROVE  SafeFor(session[b], n)
  BY DEF AccountsInv, NobodyPasses, SafeFor, Exists

LEMMA DefaultMustChange ==
  ASSUME AccountsInv, NEW n \in Names, users[n] # None, users[n].password = Default
  PROVE  users[n].mustChange = TRUE
  BY Shapes, NoAccountAssumption DEF AccountsInv, StoresAreGood, Gated, Stores, Accounts

LEMMA LoginPostInv ==
  ASSUME AccountsInv, NEW b \in Browsers, NEW n \in Names, NEW ok \in BOOLEAN,
         LoginPost(b, n, ok)
  PROVE  AccountsInv'
<1>1. [Idle EXCEPT !.op = "login", !.user = n] \in Requests
  BY DEF Idle, Requests
<1>2. request' \in [Browsers -> Requests]
  BY <1>1, Shapes DEF LoginPost
<1>3. RequestsAreSound'
  BY Shapes DEF AccountsInv, RequestsAreSound, LoginPost, Idle
<1>4. QED
  BY <1>2, <1>3, NoSession, Shapes, UsersAreMild, MildStepInv DEF LoginPost

LEMMA EstablishInv ==
  ASSUME AccountsInv, NEW b \in Browsers, Establish(b)
  PROVE  AccountsInv'
<1> DEFINE n == request[b].user
           must == Exists(n) /\ users[n].mustChange
<1>0. n \in Names /\ must \in BOOLEAN
  BY Shapes DEF Establish
<1>1. users[n] # None /\ users[n].password = Default => must
  BY <1>0, DefaultMustChange DEF Exists
<1>2. CASE Exists(n) /\ users[n].totp # None
  <2> DEFINE s == [SignedOut EXCEPT !.pending = n, !.pendingMust = must]
  <2>1. /\ s \in Sessions /\ s.enrolling = None
        /\ s.user = None /\ s.pending = n /\ s.pendingMust = must
    BY <1>0 DEF SignedOut, Sessions
  <2>2. session' = [session EXCEPT ![b] = s] /\ UNCHANGED users
    BY <1>2 DEF Establish
  <2>3. \A m \in Names : users'[m] # None /\ users'[m].password = Default /\ ~undone
                            => SafeFor(s, m)
    BY <1>1, <2>1, <2>2, AccountsAssumption DEF SafeFor
  <2>4. session' \in [Browsers -> Sessions] /\ \A c \in Browsers : SessionStep(c)
    BY <2>1, <2>2, <2>3, OneSession
  <2>5. request' \in [Browsers -> Requests] /\ RequestsAreSound'
    BY <2>1, <2>2, RequestEnds DEF Establish
  <2>6. QED
    BY <2>4, <2>5, SessionStepInv DEF Establish
<1>3. CASE ~(Exists(n) /\ users[n].totp # None)
  <2> DEFINE s == FullSession(n, "local", must)
  <2>1. s \in Sessions /\ s.enrolling = None
    BY <1>0, FullSessionShape
  <2>2. session' = [session EXCEPT ![b] = s] /\ UNCHANGED users
    BY <1>3 DEF Establish
  <2>3. \A m \in Names : users'[m] # None /\ users'[m].password = Default /\ ~undone
                            => SafeFor(s, m)
    BY <1>0, <1>1, <2>2, FullSessionSafe
  <2>4. session' \in [Browsers -> Sessions] /\ \A c \in Browsers : SessionStep(c)
    BY <2>1, <2>2, <2>3, OneSession
  <2>5. request' \in [Browsers -> Requests] /\ RequestsAreSound'
    BY <2>1, <2>2, RequestEnds DEF Establish
  <2>6. QED
    BY <2>4, <2>5, SessionStepInv DEF Establish
<1>4. QED
  BY <1>2, <1>3

LEMMA LoginRadiusInv ==
  ASSUME AccountsInv, NEW b \in Browsers, NEW n \in Names, LoginRadius(b, n)
  PROVE  AccountsInv'
<1> DEFINE s == FullSession(n, "radius", FALSE)
<1>1. s \in Sessions /\ s.enrolling = None
  BY FullSessionShape
<1>2. session' = [session EXCEPT ![b] = s] /\ UNCHANGED users
  BY DEF LoginRadius
<1>3. \A m \in Names : users'[m] # None /\ users'[m].password = Default /\ ~undone
                          => SafeFor(s, m)
  BY <1>2, FullSessionSafe
<1>4. session' \in [Browsers -> Sessions] /\ \A c \in Browsers : SessionStep(c)
  BY <1>1, <1>2, <1>3, OneSession
<1>5. request' \in [Browsers -> Requests] /\ RequestsAreSound'
  BY <1>1, <1>2, RequestEnds DEF LoginRadius
<1>6. QED
  BY <1>4, <1>5, SessionStepInv DEF LoginRadius

\* Promote turns a session that waits for the second factor into a full one.
LEMMA PromoteStep ==
  ASSUME AccountsInv, NEW b \in Browsers, session[b].pending # None, Promote(b),
         \A n \in Names : users'[n] # None /\ users'[n].password = Default =>
                            users[n] # None /\ users[n].password = Default
  PROVE  /\ session' \in [Browsers -> Sessions] /\ \A c \in Browsers : SessionStep(c)
         /\ \E s \in Sessions : session' = [session EXCEPT ![b] = s]
<1> DEFINE n == session[b].pending
           must == session[b].pendingMust
           s == FullSession(n, "local", must)
<1>0. n \in Names /\ must \in BOOLEAN
  BY Shapes DEF Sessions
<1>1. s \in Sessions /\ s.enrolling = None
  BY <1>0, FullSessionShape
<1>2. session' = [session EXCEPT ![b] = s]
  BY DEF Promote
<1>3. users[n] # None /\ users[n].password = Default /\ ~undone => must
  BY <1>0, SessionWasSafe DEF SafeFor
<1>4. \A m \in Names : users'[m] # None /\ users'[m].password = Default /\ ~undone
                          => SafeFor(s, m)
  BY <1>0, <1>3, FullSessionSafe
<1>5. QED
  BY <1>1, <1>2, <1>4, OneSession

LEMMA Login2faCodeInv ==
  ASSUME AccountsInv, NEW b \in Browsers, Login2faCode(b)
  PROVE  AccountsInv'
<1>1. /\ session' \in [Browsers -> Sessions] /\ \A c \in Browsers : SessionStep(c)
      /\ \E s \in Sessions : session' = [session EXCEPT ![b] = s]
  BY PromoteStep DEF Login2faCode
<1>2. request' \in [Browsers -> Requests] /\ RequestsAreSound'
  BY <1>1, RequestEnds DEF Login2faCode
<1>3. QED
  BY <1>1, <1>2, SessionStepInv DEF Login2faCode

LEMMA LogoutInv ==
  ASSUME AccountsInv, NEW b \in Browsers, Logout(b)
  PROVE  AccountsInv'
<1>1. \A n \in Names : SafeFor(SignedOut, n)
  BY AccountsAssumption DEF SafeFor, SignedOut
<1>2. session' \in [Browsers -> Sessions] /\ \A c \in Browsers : SessionStep(c)
  BY <1>1, Shapes, OneSession DEF Logout
<1>3. request' \in [Browsers -> Requests] /\ RequestsAreSound'
  BY Shapes, RequestEnds DEF Logout
<1>4. QED
  BY <1>2, <1>3, SessionStepInv DEF Logout

\* A new challenge changes nothing the invariant looks at.
LEMMA ChallengeStep ==
  ASSUME AccountsInv, NEW b \in Browsers, NEW c \in {"none", "register", "login"},
         session' = [session EXCEPT ![b].challenge = c],
         \A n \in Names : users'[n] # None /\ users'[n].password = Default =>
                            users[n] # None /\ users[n].password = Default
  PROVE  /\ session' \in [Browsers -> Sessions] /\ \A d \in Browsers : SessionStep(d)
         /\ \E s \in Sessions : session' = [session EXCEPT ![b] = s]
<1> DEFINE s == [session[b] EXCEPT !.challenge = c]
<1>1. /\ s \in Sessions /\ s.user = session[b].user /\ s.method = session[b].method
      /\ s.mustChange = session[b].mustChange /\ s.pending = session[b].pending
      /\ s.pendingMust = session[b].pendingMust /\ s.enrolling = session[b].enrolling
  BY Shapes DEF Sessions
<1>2. session' = [session EXCEPT ![b] = s]
  OBVIOUS
<1>3. \A n \in Names : users'[n] # None /\ users'[n].password = Default /\ ~undone
                         => SafeFor(s, n)
  BY <1>1, SessionWasSafe DEF SafeFor
<1>4. QED
  BY <1>1, <1>2, <1>3, OneSession

LEMMA PasskeyBeginInv ==
  ASSUME AccountsInv, NEW b \in Browsers, PasskeyRegisterBegin(b) \/ PasskeyLoginBegin(b)
  PROVE  AccountsInv'
<1>1. /\ session' \in [Browsers -> Sessions] /\ \A d \in Browsers : SessionStep(d)
      /\ \E s \in Sessions : session' = [session EXCEPT ![b] = s]
  BY ChallengeStep DEF PasskeyRegisterBegin, PasskeyLoginBegin
<1>2. request' \in [Browsers -> Requests] /\ RequestsAreSound'
  BY <1>1, RequestEnds DEF PasskeyRegisterBegin, PasskeyLoginBegin, SignedIn
<1>3. QED
  BY <1>1, <1>2, SessionStepInv DEF PasskeyRegisterBegin, PasskeyLoginBegin

\* A step that saves accounts which are good, whatever it changed.
LEMMA SaveStepInv ==
  ASSUME AccountsInv, NEW store \in Stores, NEW ok \in BOOLEAN, Save(store, ok),
         Populated(store), Gated(store), Enrolled(store, promised'),
         ~ok => promised' \subseteq promised,
         promised' \subseteq Names, undone' = undone, drawn' = drawn,
         admitted' \in [Enrolments -> 0 .. 2],
         session' \in [Browsers -> Sessions], request' \in [Browsers -> Requests],
         RequestsAreSound', NobodyPasses', CodesHaveOneOwner', UsedCodesAreGone'
  PROVE  AccountsInv'
<1>1. users \in Stores /\ disk \in Stores
  BY DEF AccountsInv, AccountsTypeOK, Stores
<1>2. users' \in Stores /\ disk' \in Stores /\ dirty' \in BOOLEAN /\ StoresAreGood' /\ CleanIsSaved'
  BY <1>1, SaveGood DEF AccountsInv
<1>3. AccountsTypeOK'
  BY <1>2 DEF AccountsInv, AccountsTypeOK, Sessions, Requests, Stores
<1>4. QED
  BY <1>2, <1>3 DEF AccountsInv

\* One account is struck out, added, or becomes another.
LEMMA OneAccount ==
  ASSUME NEW store \in Stores, NEW n \in Names, NEW a \in Accounts \union {None}
  PROVE  /\ [store EXCEPT ![n] = a] \in Stores
         /\ [store EXCEPT ![n] = a][n] = a
         /\ \A m \in Names \ {n} : [store EXCEPT ![n] = a][m] = store[m]
  BY DEF Stores

LEMMA StoreShapes ==
  AccountsInv => /\ users \in Stores /\ disk \in Stores /\ promised \subseteq Names
                 /\ admitted \in [Enrolments -> 0 .. 2]
                 /\ session \in [Browsers -> Sessions] /\ request \in [Browsers -> Requests]
  BY DEF AccountsInv, AccountsTypeOK, Stores, Sessions, Requests

\* The code struck out has no other owner, so it is gone.
LEMMA Login2faRecoveryInv ==
  ASSUME AccountsInv, NEW b \in Browsers, NEW e \in Enrolments, NEW ok \in BOOLEAN,
         Login2faRecovery(b, e, ok)
  PROVE  AccountsInv'
<1> DEFINE n == session[b].pending
           a == [users[n] EXCEPT !.recovery = @ \ {e}]
           store == [users EXCEPT ![n] = a]
<1>0. n \in Names /\ users[n] \in Accounts /\ e \in CodesOf(users, n)
  BY Shapes DEF Sessions, Stores, Login2faRecovery, ConsumeRecoveryCode, Exists, CodesOf
<1>1. /\ a \in Accounts /\ a.password = users[n].password /\ a.mustChange = users[n].mustChange
      /\ a.totp = users[n].totp /\ a.recovery = users[n].recovery \ {e}
  BY <1>0 DEF Accounts
<1> HIDE DEF a
<1>2. store \in Stores /\ store[n] = a /\ \A m \in Names \ {n} : store[m] = users[m]
  BY <1>0, <1>1, Shapes, OneAccount
<1>3. Mild(store)
  BY <1>0, <1>1, <1>2, NoAccountAssumption DEF Mild
<1>4. Save(store, ok) /\ users' = store
  BY DEF a, Login2faRecovery, ConsumeRecoveryCode, Save
<1>5. \A m \in Names : users'[m] # None /\ users'[m].password = Default =>
                            users[m] # None /\ users[m].password = Default
  BY <1>3, <1>4 DEF Mild
<1>6. CASE ~ok
  <2>1. session' = session /\ request' = request /\ admitted' = admitted
    BY <1>6 DEF Login2faRecovery
  <2>2. request' \in [Browsers -> Requests] /\ RequestsAreSound'
    BY <2>1, RequestEnds DEF Login2faRecovery
  <2>3. session' \in [Browsers -> Sessions] /\ \A c \in Browsers : SessionStep(c)
    BY <2>1, NoSession, Shapes
  <2>4. QED
    BY <1>2, <1>3, <1>4, <2>1, <2>2, <2>3, MildStepInv DEF Login2faRecovery
<1>7. CASE ok
  <2>1. Promote(b) /\ admitted' = [admitted EXCEPT ![e] = IF @ < 2 THEN @ + 1 ELSE @]
    BY <1>7 DEF Login2faRecovery
  <2>2. /\ session' \in [Browsers -> Sessions] /\ \A c \in Browsers : SessionStep(c)
        /\ \E s \in Sessions : session' = [session EXCEPT ![b] = s]
    BY <1>5, <2>1, PromoteStep DEF Login2faRecovery
  <2>3. request' \in [Browsers -> Requests] /\ RequestsAreSound'
    BY <2>2, RequestEnds DEF Login2faRecovery
  <2>4. NobodyPasses'
    BY <1>5, <2>2, NobodyPassesStill DEF AccountsInv, SessionStep, Login2faRecovery
  <2>5. CodesHaveOneOwner'
    BY <1>3, <1>4, <2>2, MildKeepsCodes, CodesKeptBySave
    DEF AccountsInv, SessionStep, Login2faRecovery
  <2>6. admitted[e] = 0
    <3>1. admitted[e] \in 0 .. 2 /\ admitted[e] <= 1 /\ admitted[e] # 1
      BY <1>0, Shapes DEF AccountsInv, UsedCodesAreGone
    <3>2. QED
      BY <3>1
  <2>7. admitted'[e] = 1 /\ \A x \in Enrolments \ {e} : admitted'[x] = admitted[x]
    BY <2>1, <2>6, Shapes
  <2>8. users' = store /\ disk' = store
    BY <1>4, <1>7 DEF Save
  <2>9. \A m \in Names : e \notin CodesOf(store, m)
    <3>1. e \notin CodesOf(store, n)
      BY <1>1, <1>2, <1>0, NoAccountAssumption DEF CodesOf
    <3>2. \A m \in Names \ {n} : e \notin CodesOf(users, m)
      BY <1>0 DEF AccountsInv, CodesHaveOneOwner, Owns
    <3>3. QED
      BY <1>2, <3>1, <3>2 DEF CodesOf
  <2>10. \A m \in Names : CodesOf(store, m) \subseteq CodesOf(users, m)
    BY <1>3, MildKeepsCodes
  <2>11. UsedCodesAreGone'
    <3> SUFFICES ASSUME NEW x \in Enrolments
                 PROVE  /\ admitted'[x] <= 1
                        /\ admitted'[x] = 1 => \A m \in Names : x \notin CodesOf(store, m)
      BY <2>8 DEF UsedCodesAreGone, CodesOf
    <3>1. CASE x = e
      <4>1. admitted'[x] <= 1
        BY <2>7, <3>1
      <4>2. \A m \in Names : x \notin CodesOf(store, m)
        BY <2>9, <3>1
      <4>3. QED
        BY <4>1, <4>2
    <3>2. CASE x # e
      <4>1. /\ admitted[x] <= 1
            /\ admitted[x] = 1 => \A m \in Names : x \notin CodesOf(users, m)
        BY DEF AccountsInv, UsedCodesAreGone
      <4>2. admitted'[x] = admitted[x]
        BY <2>7, <3>2
      <4>3. QED
        BY <4>1, <4>2, <2>10
    <3>3. QED
      BY <3>1, <3>2
  <2>12. admitted' \in [Enrolments -> 0 .. 2]
    BY <2>1, Shapes
  <2>13. Populated(store) /\ Gated(store) /\ Enrolled(store, promised)
    BY <1>2, <1>3, Shapes, MildIsGood DEF AccountsInv
  <2>14. UNCHANGED <<promised, undone, drawn>>
    BY DEF Login2faRecovery
  <2>15. QED
    BY <1>2, <1>4, <2>2, <2>3, <2>4, <2>5, <2>11, <2>12, <2>13, <2>14, Shapes, SaveStepInv
<1>8. QED
  BY <1>6, <1>7

LEMMA ChangePasswordPostInv ==
  ASSUME AccountsInv, NEW b \in Browsers, NEW pw \in Passwords, NEW ok \in BOOLEAN,
         ChangePasswordPost(b, pw, ok)
  PROVE  AccountsInv'
<1> DEFINE r == [op |-> "change", user |-> session[b].user, arg |-> pw]
<1>0. session[b].user \in Names /\ r \in Requests
  BY Shapes DEF Sessions, Requests, ChangePasswordPost
<1>1. request' \in [Browsers -> Requests] /\ session' = session
  BY <1>0, Shapes DEF ChangePasswordPost
<1>2. /\ request'[b] \in {r, Idle}
      /\ \A c \in Browsers \ {b} : request'[c] = request[c]
  BY <1>0, Shapes DEF ChangePasswordPost
<1>3. RequestsAreSound'
  BY <1>0, <1>1, <1>2, Shapes DEF AccountsInv, RequestsAreSound
<1>4. QED
  BY <1>1, <1>3, NoSession, Shapes, UsersAreMild, MildStepInv DEF ChangePasswordPost


LEMMA ChangePasswordInv ==
  ASSUME AccountsInv, NEW b \in Browsers, NEW ok \in BOOLEAN, ChangePassword(b, ok)
  PROVE  AccountsInv'
<1> DEFINE n == request[b].user
           new == request[b].arg
           a == [users[n] EXCEPT !.password = new, !.mustChange = FALSE]
           store == [users EXCEPT ![n] = a]
           s == [session[b] EXCEPT !.mustChange = FALSE]
<1>0. n \in Names /\ n = session[b].user /\ new \in Passwords /\ new # Default
  BY AccountsAssumption DEF AccountsInv, RequestsAreSound, ChangePassword
<1>1. CASE ~Exists(n)
  <2>1. session' = session /\ request' = [request EXCEPT ![b] = Idle]
    BY <1>1 DEF ChangePassword
  <2>2. request' \in [Browsers -> Requests] /\ RequestsAreSound'
    BY <2>1, RequestEnds
  <2>3. QED
    BY <1>1, <2>1, <2>2, NoSession, Shapes, SessionStepInv DEF ChangePassword
<1>2. CASE Exists(n)
  <2>1. users[n] \in Accounts /\ users[n] # None
    BY <1>0, <1>2, Shapes DEF Stores, Exists
  <2>2. /\ a \in Accounts /\ a.password = new /\ a.totp = users[n].totp
        /\ a.recovery = users[n].recovery
    BY <1>0, <2>1 DEF Accounts
  <2> HIDE DEF a
  <2>3. store \in Stores /\ store[n] = a /\ \A m \in Names \ {n} : store[m] = users[m]
    BY <1>0, <2>2, Shapes, OneAccount
  <2>4. store = [users EXCEPT ![n].password = new, ![n].mustChange = FALSE]
    BY <1>0, <2>1, Shapes DEF Stores, a
  <2>5. Save(store, ok) /\ users' = store
    BY <1>2, <2>4 DEF ChangePassword, Change, Save
  <2>6. a # None
    BY <2>2, NoAccountAssumption
  <2>7. Populated(store) /\ Gated(store) /\ Enrolled(store, promised)
    <3>1. Populated(users) /\ Gated(users) /\ Enrolled(users, promised)
      BY DEF AccountsInv, StoresAreGood
    <3>2. Populated(store)
      BY <1>0, <2>3, <2>6 DEF Populated
    <3>3. Gated(store)
      BY <1>0, <2>2, <2>3, <3>1 DEF Gated
    <3>4. Enrolled(store, promised)
      BY <2>2, <2>3, <2>6, <3>1, Shapes DEF Enrolled
    <3>5. QED
      BY <3>2, <3>3, <3>4
  <2>8. \A m \in Names : CodesOf(store, m) \subseteq CodesOf(users, m)
    BY <2>1, <2>2, <2>3, <2>6 DEF CodesOf
  <2>9. /\ s \in Sessions /\ s.enrolling = session[b].enrolling /\ s.user = n
        /\ s.pending = session[b].pending /\ s.pendingMust = session[b].pendingMust
    BY <1>0, Shapes DEF Sessions
  <2>10. session' = session \/ session' = [session EXCEPT ![b] = s]
    BY <1>2 DEF ChangePassword
  <2>11. \A m \in Names : users'[m] # None /\ users'[m].password = Default =>
                            users[m] # None /\ users[m].password = Default
    BY <1>0, <2>2, <2>3, <2>5
  <2>12. \A m \in Names : users'[m] # None /\ users'[m].password = Default /\ ~undone
                            => SafeFor(s, m)
    <3> SUFFICES ASSUME NEW m \in Names, users'[m] # None, users'[m].password = Default, ~undone
                 PROVE  SafeFor(s, m)
      OBVIOUS
    <3>1. m # n
      BY <1>0, <2>2, <2>3, <2>5
    <3>2. SafeFor(session[b], m)
      BY <2>11, SessionWasSafe
    <3>3. QED
      BY <2>9, <3>1, <3>2 DEF SafeFor
  <2>13. session' \in [Browsers -> Sessions] /\ \A c \in Browsers : SessionStep(c)
    <3>1. CASE session' = session
      BY <3>1, NoSession, Shapes
    <3>2. CASE session' = [session EXCEPT ![b] = s]
      BY <1>0, <2>9, <2>12, <3>2, OneSession
    <3>3. QED
      BY <2>10, <3>1, <3>2
  <2>14. request' \in [Browsers -> Requests] /\ RequestsAreSound'
    BY <2>9, <2>10, RequestEnds DEF ChangePassword
  <2>15. UNCHANGED <<drawn, admitted, promised, undone>>
    BY DEF ChangePassword
  <2>16. NobodyPasses'
    BY <2>11, <2>13, <2>15, NobodyPassesStill DEF AccountsInv, SessionStep
  <2>17. CodesHaveOneOwner'
    BY <2>5, <2>8, <2>13, <2>15, CodesKeptBySave DEF AccountsInv, SessionStep
  <2>18. UsedCodesAreGone'
    BY <2>5, <2>8, <2>15, UsedCodesStayGone DEF AccountsInv
  <2>19. QED
    BY <2>3, <2>5, <2>7, <2>13, <2>14, <2>15, <2>16, <2>17, <2>18, Shapes, SaveStepInv
<1>3. QED
  BY <1>1, <1>2

\* A secret that was never drawn has no owner yet.
LEMMA TwofaBeginInv ==
  ASSUME AccountsInv, NEW b \in Browsers, NEW e \in Enrolments, TwofaBegin(b, e)
  PROVE  AccountsInv'
<1> DEFINE s == [session[b] EXCEPT !.enrolling = e]
<1>0. request[b] = Idle /\ session[b].user \in Names /\ e # None
  BY Shapes, AccountsAssumption DEF TwofaBegin, SignedIn, Sessions
<1>1. /\ s \in Sessions /\ s.user = session[b].user /\ s.method = session[b].method
      /\ s.mustChange = session[b].mustChange /\ s.pending = session[b].pending
      /\ s.pendingMust = session[b].pendingMust /\ s.enrolling = e
  BY Shapes DEF Sessions
<1>2. session' = [session EXCEPT ![b] = s]
  BY DEF TwofaBegin
<1> HIDE DEF s
<1>3. session'[b] = s /\ \A c \in Browsers \ {b} : session'[c] = session[c]
  BY <1>2, Shapes
<1>4. UNCHANGED <<users, disk, dirty, request, admitted, promised, undone>>
  BY DEF TwofaBegin
<1>5. session' \in [Browsers -> Sessions] /\ drawn' \subseteq Enrolments
  BY <1>1, <1>2, Shapes DEF TwofaBegin
<1>6. AccountsTypeOK'
  BY <1>4, <1>5 DEF AccountsInv, AccountsTypeOK, Sessions
<1>7. StoresAreGood' /\ CleanIsSaved' /\ UsedCodesAreGone'
  BY <1>4 DEF AccountsInv, StoresAreGood, CleanIsSaved, UsedCodesAreGone, Populated, Gated,
         Enrolled, CodesOf
<1>8. RequestsAreSound'
  BY <1>1, <1>3, <1>4 DEF AccountsInv, RequestsAreSound
<1>9. \A n \in Names : users'[n] # None /\ users'[n].password = Default /\ ~undone
                         => SafeFor(s, n)
  BY <1>1, <1>4, SessionWasSafe DEF SafeFor
<1>10. NobodyPasses'
  BY <1>3, <1>4, <1>9, NobodyPassesStill DEF AccountsInv
<1>11. CodesHaveOneOwner'
  <2>1. e \notin drawn /\ drawn' = drawn \union {e}
    BY DEF TwofaBegin
  <2>2. \A n \in Names : ~Owns(n, e)
    BY <2>1 DEF AccountsInv, CodesHaveOneOwner
  <2>3. ASSUME NEW n \in Names, NEW x \in Enrolments, Owns(n, x)'
        PROVE  Owns(n, x) \/ (x = e /\ n = session[b].user)
    <3>1. CASE x \in CodesOf(users', n) \/ x \in CodesOf(disk', n)
      BY <1>4, <3>1 DEF Owns
    <3>2. ASSUME NEW c \in Browsers, x \in Drawing(c, n)'
        PROVE  Owns(n, x) \/ (x = e /\ n = session[b].user)
      <4>1. CASE c = b
        BY <1>1, <1>3, <3>2, <4>1 DEF Drawing
      <4>2. CASE c # b
        BY <1>3, <3>2, <4>2 DEF Drawing, Owns
      <4>3. QED
        BY <4>1, <4>2
    <3>3. QED
      BY <2>3, <3>1, <3>2 DEF Owns, CodesOf
  <2>4. \A c \in Browsers : session'[c].enrolling # None => session'[c].user # None
    BY <1>0, <1>1, <1>3, AccountsAssumption DEF AccountsInv, CodesHaveOneOwner
  <2>5. \A n \in Names, x \in Enrolments : Owns(n, x)' => x \in drawn'
    BY <2>1, <2>3 DEF AccountsInv, CodesHaveOneOwner
  <2>6. ASSUME NEW m \in Names, NEW n \in Names, NEW x \in Enrolments, Owns(m, x)', Owns(n, x)'
        PROVE  m = n
    <3>1. CASE x = e
      BY <2>2, <2>3, <2>6, <3>1
    <3>2. CASE x # e
      BY <2>3, <2>6, <3>2 DEF AccountsInv, CodesHaveOneOwner
    <3>3. QED
      BY <3>1, <3>2
  <2>7. QED
    BY <2>4, <2>5, <2>6 DEF CodesHaveOneOwner
<1>12. QED
  BY <1>6, <1>7, <1>8, <1>10, <1>11 DEF AccountsInv

\* The code enters the account of the user in whose session it waits, who owned it before.
LEMMA TwofaConfirmInv ==
  ASSUME AccountsInv, NEW b \in Browsers, NEW ok \in BOOLEAN, TwofaConfirm(b, ok)
  PROVE  AccountsInv'
<1> DEFINE n == session[b].user
           e == session[b].enrolling
           a == [users[n] EXCEPT !.totp = e, !.recovery = {e}]
           store == [users EXCEPT ![n] = a]
           s == [session[b] EXCEPT !.enrolling = None]
<1>0. /\ n \in Names /\ e \in Enrolments /\ users[n] \in Accounts
      /\ request[b] = Idle /\ e # None /\ users[n] # None
  BY Shapes, NoAccountAssumption DEF Sessions, Stores, TwofaConfirm, SignedIn, Exists
<1>1. /\ a \in Accounts /\ a.password = users[n].password /\ a.mustChange = users[n].mustChange
      /\ a.totp = e /\ a.recovery = {e}
  BY <1>0 DEF Accounts
<1>2. store = [users EXCEPT ![n].totp = e, ![n].recovery = {e}]
  BY <1>0, Shapes DEF Stores
<1>3. /\ s \in Sessions /\ s.enrolling = None /\ s.user = n /\ s.method = session[b].method
      /\ s.mustChange = session[b].mustChange /\ s.pending = session[b].pending
      /\ s.pendingMust = session[b].pendingMust
  BY Shapes DEF Sessions
<1>4. session' = session \/ session' = [session EXCEPT ![b] = s]
  BY DEF TwofaConfirm
<1>5. Save(store, ok) /\ users' = store
  BY <1>2 DEF TwofaConfirm, EnrollTotp, Save
<1> HIDE DEF a, s
<1>6. store \in Stores /\ store[n] = a /\ (\A m \in Names \ {n} : store[m] = users[m]) /\ a # None
  BY <1>0, <1>1, Shapes, OneAccount, NoAccountAssumption
<1> HIDE DEF store
<1>7. /\ promised' = (IF ok THEN promised \union {n} ELSE promised)
      /\ admitted' = [admitted EXCEPT ![e] = 0] /\ UNCHANGED <<request, drawn, undone>>
  BY DEF TwofaConfirm
<1>8. Populated(store) /\ Gated(store) /\ Enrolled(store, promised')
  <2>1. Populated(users) /\ Gated(users) /\ Enrolled(users, promised)
    BY DEF AccountsInv, StoresAreGood
  <2>2. Populated(store)
    BY <1>0, <1>6 DEF Populated
  <2>3. Gated(store)
    BY <1>0, <1>1, <1>6, <2>1 DEF Gated
  <2>4. Enrolled(store, promised')
    BY <1>0, <1>1, <1>6, <1>7, <2>1, Shapes DEF Enrolled
  <2>5. QED
    BY <2>2, <2>3, <2>4
<1>9. \A m \in Names : users'[m] # None /\ users'[m].password = Default =>
                            users[m] # None /\ users[m].password = Default
  BY <1>0, <1>1, <1>5, <1>6
<1>10. session' \in [Browsers -> Sessions] /\ \A c \in Browsers : SessionStep(c)
  <2>1. CASE session' = session
    BY <2>1, NoSession, Shapes
  <2>2. CASE session' = [session EXCEPT ![b] = s]
    <3>1. \A m \in Names : users'[m] # None /\ users'[m].password = Default /\ ~undone
                             => SafeFor(s, m)
      BY <1>3, <1>9, SessionWasSafe DEF SafeFor
    <3>2. QED
      BY <1>3, <2>2, <3>1, OneSession
  <2>3. QED
    BY <1>4, <2>1, <2>2
<1>11. request' \in [Browsers -> Requests] /\ RequestsAreSound'
  BY <1>0, <1>3, <1>4, <1>7, RequestEnds
<1>12. NobodyPasses'
  BY <1>7, <1>9, <1>10, NobodyPassesStill DEF AccountsInv, SessionStep
<1>13. users' = store /\ disk' \in {store, disk}
  BY <1>5 DEF Save
<1>14. \A m \in Names, x \in Enrolments :
         x \in CodesOf(store, m) => x \in CodesOf(users, m) \/ (x = e /\ m = n)
  BY <1>0, <1>1, <1>6 DEF CodesOf
<1>15. CodesHaveOneOwner'
  <2>0. Owns(n, e)
    BY <1>0 DEF Owns, Drawing
  <2>1. ASSUME NEW m \in Names, NEW x \in Enrolments, Owns(m, x)' PROVE Owns(m, x)
    <3>1. CASE x \in CodesOf(users', m) \/ x \in CodesOf(disk', m)
      BY <1>13, <1>14, <2>0, <3>1 DEF Owns
    <3>2. ASSUME NEW c \in Browsers, x \in Drawing(c, m)' PROVE Owns(m, x)
      BY <1>10, <3>2 DEF SessionStep, Drawing, Owns
    <3>3. QED
      BY <2>1, <3>1, <3>2 DEF Owns, CodesOf
  <2>2. \A c \in Browsers : session'[c].enrolling # None => session'[c].user # None
    BY <1>10 DEF AccountsInv, CodesHaveOneOwner, SessionStep
  <2>3. QED
    BY <1>7, <2>1, <2>2 DEF AccountsInv, CodesHaveOneOwner
<1>16. admitted' \in [Enrolments -> 0 .. 2] /\ admitted'[e] = 0
       /\ \A x \in Enrolments \ {e} : admitted'[x] = admitted[x]
  BY <1>0, <1>7, Shapes
<1>17. UsedCodesAreGone'
  <2> SUFFICES ASSUME NEW x \in Enrolments, x # e
               PROVE  /\ admitted'[x] <= 1
                      /\ admitted'[x] = 1 =>
                           \A m \in Names : x \notin CodesOf(users', m) /\ x \notin CodesOf(disk', m)
    BY <1>16 DEF UsedCodesAreGone, CodesOf
  <2>1. /\ admitted[x] <= 1
        /\ admitted[x] = 1 =>
             \A m \in Names : x \notin CodesOf(users, m) /\ x \notin CodesOf(disk, m)
    BY DEF AccountsInv, UsedCodesAreGone
  <2>2. admitted'[x] = admitted[x]
    BY <1>16
  <2>3. QED
    BY <1>13, <1>14, <2>1, <2>2
<1>18. promised' \subseteq Names /\ (~ok => promised' \subseteq promised)
  BY <1>0, <1>7, Shapes
<1>19. QED
  BY <1>5, <1>6, <1>7, <1>8, <1>10, <1>11, <1>12, <1>15, <1>16, <1>17, <1>18, SaveStepInv

\* A step that makes of one account another, or none, and leaves the sessions alone.
LEMMA AccountStepInv ==
  ASSUME AccountsInv, NEW n \in Names, NEW a \in Accounts \union {None}, NEW ok \in BOOLEAN,
         Save([users EXCEPT ![n] = a], ok),
         CodesOf([users EXCEPT ![n] = a], n) \subseteq CodesOf(users, n),
         a # None /\ a.password = Default =>
           a.mustChange /\ users[n] # None /\ users[n].password = Default,
         Populated([users EXCEPT ![n] = a]),
         promised' \subseteq promised,
         n \in promised' => a # None /\ a.totp # None,
         UNCHANGED <<session, request, drawn, admitted, undone>>
  PROVE  AccountsInv'
<1> DEFINE store == [users EXCEPT ![n] = a]
<1>1. store \in Stores /\ store[n] = a /\ \A m \in Names \ {n} : store[m] = users[m]
  BY StoreShapes DEF Stores
<1>2. Save(store, ok) /\ users' = store /\ Populated(store)
  BY DEF Save
<1>3. \A m \in Names : CodesOf(store, m) \subseteq CodesOf(users, m)
  <2>1. CodesOf(store, n) \subseteq CodesOf(users, n)
    OBVIOUS
  <2> HIDE DEF store
  <2>2. \A m \in Names \ {n} : CodesOf(store, m) = CodesOf(users, m)
    BY <1>1 DEF CodesOf
  <2>3. QED
    BY <2>1, <2>2
<1> HIDE DEF store
<1>4. Gated(store) /\ Enrolled(store, promised')
  <2>1. Gated(users) /\ Enrolled(users, promised)
    BY DEF AccountsInv, StoresAreGood
  <2>2. QED
    BY <1>1, <2>1, StoreShapes DEF Gated, Enrolled
<1>5. NobodyPasses'
  <2>1. \A m \in Names : users'[m] # None /\ users'[m].password = Default =>
                            users[m] # None /\ users[m].password = Default
    BY <1>1, <1>2
  <2>2. QED
    BY <2>1, NobodyPassesStill DEF AccountsInv
<1>6. CodesHaveOneOwner'
  BY <1>2, <1>3, CodesKeptBySave DEF AccountsInv
<1>7. UsedCodesAreGone'
  BY <1>2, <1>3, UsedCodesStayGone DEF AccountsInv
<1>8. RequestsAreSound'
  BY DEF AccountsInv, RequestsAreSound
<1>9. QED
  BY <1>1, <1>2, <1>4, <1>5, <1>6, <1>7, <1>8, StoreShapes, SaveStepInv

LEMMA TwofaDisableInv ==
  ASSUME AccountsInv, NEW b \in Browsers, NEW ok \in BOOLEAN, TwofaDisable(b, ok)
  PROVE  AccountsInv'
<1> DEFINE n == session[b].user
           a == [users[n] EXCEPT !.totp = None, !.recovery = {}]
           store == [users EXCEPT ![n] = a]
<1>0. n \in Names /\ users[n] \in Accounts /\ users[n] # None
  BY Shapes, NoAccountAssumption DEF Sessions, Stores, TwofaDisable, SignedIn, Exists
<1>1. /\ a \in Accounts /\ a.password = users[n].password /\ a.mustChange = users[n].mustChange
      /\ a.recovery = {}
  BY <1>0 DEF Accounts
<1>2. store = [users EXCEPT ![n].totp = None, ![n].recovery = {}]
  BY <1>0, Shapes DEF Stores
<1>3. Save(store, ok)
  BY <1>2 DEF TwofaDisable, DisableTotp
<1> HIDE DEF a
<1>4. store[n] = a /\ a # None /\ a \in Accounts \union {None}
  BY <1>0, <1>1, StoreShapes, NoAccountAssumption DEF Stores
<1>5. CodesOf(store, n) = {}
  BY <1>1, <1>4 DEF CodesOf
<1>6. Populated(store)
  BY <1>0, <1>4 DEF Populated
<1>7. a.password = Default => a.mustChange
  BY <1>0, <1>1, DefaultMustChange
<1>8. promised' = promised \ {n} /\ UNCHANGED <<session, request, drawn, admitted, undone>>
  BY DEF TwofaDisable
<1>9. QED
  BY <1>0, <1>1, <1>3, <1>4, <1>5, <1>6, <1>7, <1>8, AccountStepInv

LEMMA UserAddInv ==
  ASSUME AccountsInv, NEW b \in Browsers, NEW n \in Names, NEW pw \in Passwords,
         NEW ok \in BOOLEAN, UserAdd(b, n, pw, ok)
  PROVE  AccountsInv'
<1> DEFINE a == NewAccount(pw, FALSE)
           store == [users EXCEPT ![n] = a]
<1>1. /\ a \in Accounts /\ a.password # Default /\ a.recovery = {} /\ a # None
  <2>1. a \in Accounts /\ a.password = pw /\ a.recovery = {}
    BY AccountsAssumption DEF NewAccount, Accounts
  <2>2. QED
    BY <2>1, AccountsAssumption, NoAccountAssumption
<1>2. Save(store, ok) /\ users[n] = None
  BY DEF UserAdd, Exists
<1> HIDE DEF a
<1>3. store[n] = a
  BY <1>1, StoreShapes DEF Stores
<1>4. CodesOf(store, n) = {} /\ Populated(store)
  BY <1>1, <1>3 DEF CodesOf, Populated
<1>5. n \notin promised
  BY <1>2 DEF AccountsInv, StoresAreGood, Enrolled
<1>6. UNCHANGED <<session, request, drawn, admitted, promised, undone>>
  BY DEF UserAdd
<1>7. QED
  BY <1>1, <1>2, <1>4, <1>5, <1>6, AccountStepInv

LEMMA UserRemoveInv ==
  ASSUME AccountsInv, NEW b \in Browsers, NEW n \in Names, NEW ok \in BOOLEAN,
         UserRemove(b, n, ok)
  PROVE  AccountsInv'
<1> DEFINE store == [users EXCEPT ![n] = None]
<1>1. store[n] = None /\ \A m \in Names \ {n} : store[m] = users[m]
  BY StoreShapes DEF Stores
<1>2. Populated(store)
  BY <1>1 DEF UserRemove, Removable, Exists, Populated
<1>3. CodesOf(store, n) = {}
  BY <1>1 DEF CodesOf
<1>4. /\ Save(store, ok) /\ promised' = promised \ {n}
      /\ UNCHANGED <<session, request, drawn, admitted, undone>>
  BY DEF UserRemove
<1>5. QED
  BY <1>2, <1>3, <1>4, AccountStepInv

\* Passkeys come and go without touching the rest of the account.
LEMMA PasskeysAreMild ==
  ASSUME users \in Stores, NEW n \in Names, users[n] # None, NEW keys \in SUBSET Keys
  PROVE  /\ [users EXCEPT ![n].passkeys = keys] \in Stores
         /\ Mild([users EXCEPT ![n].passkeys = keys])
<1> DEFINE a == [users[n] EXCEPT !.passkeys = keys]
           store == [users EXCEPT ![n] = a]
<1>1. users[n] \in Accounts
  BY DEF Stores
<1>2. /\ a \in Accounts /\ a.password = users[n].password /\ a.mustChange = users[n].mustChange
      /\ a.totp = users[n].totp /\ a.recovery = users[n].recovery
  BY <1>1 DEF Accounts
<1>3. store = [users EXCEPT ![n].passkeys = keys]
  BY DEF Stores
<1> HIDE DEF a
<1>4. store \in Stores /\ store[n] = a /\ \A m \in Names \ {n} : store[m] = users[m]
  BY <1>2, OneAccount
<1> HIDE DEF store
<1>5. Mild(store)
  BY <1>2, <1>4, NoAccountAssumption DEF Mild
<1>6. QED
  BY <1>3, <1>4, <1>5

LEMMA PasskeyRegisterCompleteInv ==
  ASSUME AccountsInv, NEW b \in Browsers, NEW k \in Keys, NEW ok \in BOOLEAN,
         PasskeyRegisterComplete(b, k, ok)
  PROVE  AccountsInv'
<1> DEFINE n == session[b].user
           keys == users[n].passkeys \union {k}
           store == [users EXCEPT ![n].passkeys = keys]
<1>0. n \in Names /\ users[n] # None /\ keys \in SUBSET Keys /\ request[b] = Idle
  <2>1. n \in Names /\ users[n] # None /\ request[b] = Idle
    BY Shapes DEF Sessions, PasskeyRegisterComplete, SignedIn, Exists
  <2>2. users[n] \in Accounts
    BY <2>1, Shapes DEF Stores
  <2>3. QED
    BY <2>1, <2>2 DEF Accounts
<1>1. Save(store, ok)
  BY DEF PasskeyRegisterComplete, AddPasskey
<1>2. store \in Stores /\ Mild(store)
  BY <1>0, Shapes, PasskeysAreMild
<1>3. \A m \in Names : users'[m] # None /\ users'[m].password = Default =>
                            users[m] # None /\ users[m].password = Default
  BY <1>1, <1>2 DEF Mild, Save
<1>4. /\ session' \in [Browsers -> Sessions] /\ \A c \in Browsers : SessionStep(c)
      /\ \E s \in Sessions : session' = [session EXCEPT ![b] = s]
  BY <1>3, ChallengeStep DEF PasskeyRegisterComplete
<1>5. request' \in [Browsers -> Requests] /\ RequestsAreSound'
  BY <1>0, <1>4, RequestEnds DEF PasskeyRegisterComplete
<1> HIDE DEF store
<1>6. QED
  BY <1>1, <1>2, <1>4, <1>5, MildStepInv DEF PasskeyRegisterComplete

LEMMA PasskeyRemoveInv ==
  ASSUME AccountsInv, NEW b \in Browsers, NEW k \in Keys, NEW ok \in BOOLEAN,
         PasskeyRemove(b, k, ok)
  PROVE  AccountsInv'
<1> DEFINE n == session[b].user
           keys == users[n].passkeys \ {k}
           store == [users EXCEPT ![n].passkeys = keys]
<1>0. n \in Names /\ users[n] # None /\ keys \in SUBSET Keys /\ request[b] = Idle
  <2>1. n \in Names /\ users[n] # None /\ request[b] = Idle
    BY Shapes DEF Sessions, PasskeyRemove, RemovePasskey, OwnsPasskey, SignedIn, Exists
  <2>2. users[n] \in Accounts
    BY <2>1, Shapes DEF Stores
  <2>3. QED
    BY <2>1, <2>2 DEF Accounts
<1>1. Save(store, ok)
  BY DEF PasskeyRemove, RemovePasskey
<1>2. store \in Stores /\ Mild(store)
  BY <1>0, Shapes, PasskeysAreMild
<1>3. request' \in [Browsers -> Requests] /\ RequestsAreSound'
  BY <1>0, RequestEnds DEF PasskeyRemove
<1> HIDE DEF store
<1>4. QED
  BY <1>1, <1>2, <1>3, NoSession, Shapes, MildStepInv DEF PasskeyRemove

LEMMA PasskeyLoginCompleteInv ==
  ASSUME AccountsInv, NEW b \in Browsers, NEW n \in Names, NEW k \in Keys,
         PasskeyLoginComplete(b, n, k)
  PROVE  AccountsInv'
<1> DEFINE r == [op |-> "passkey", user |-> n, arg |-> k]
<1>1. /\ session' \in [Browsers -> Sessions] /\ \A c \in Browsers : SessionStep(c)
      /\ \E s \in Sessions : session' = [session EXCEPT ![b] = s]
  BY ChallengeStep DEF PasskeyLoginComplete
<1>2. r \in Requests
  BY DEF Requests
<1>3. request' \in [Browsers -> Requests]
  BY <1>2, Shapes DEF PasskeyLoginComplete
<1>4. /\ request'[b] = r /\ \A c \in Browsers \ {b} : request'[c] = request[c]
      /\ \A c \in Browsers \ {b} : session'[c] = session[c]
  BY <1>1, Shapes DEF PasskeyLoginComplete
<1>5. RequestsAreSound'
  BY <1>4 DEF AccountsInv, RequestsAreSound
<1>6. QED
  BY <1>1, <1>3, <1>5, SessionStepInv DEF PasskeyLoginComplete

LEMMA PasskeyEstablishInv ==
  ASSUME AccountsInv, NEW b \in Browsers, NEW ok \in BOOLEAN, PasskeyEstablish(b, ok)
  PROVE  AccountsInv'
<1> DEFINE n == request[b].user
           must == Exists(n) /\ users[n].mustChange
           s == FullSession(n, "local", must)
           there == OwnsPasskey(n, request[b].arg)
<1>0. n \in Names /\ must \in BOOLEAN
  BY Shapes DEF PasskeyEstablish
<1>1. users[n] # None /\ users[n].password = Default => must
  BY <1>0, DefaultMustChange DEF Exists
<1>2. s \in Sessions /\ s.enrolling = None
  BY <1>0, FullSessionShape
<1>3. \A m \in Names : users[m] # None /\ users[m].password = Default /\ ~undone
                            => SafeFor(s, m)
  BY <1>0, <1>1, FullSessionSafe
<1>4. session' = session \/ session' = [session EXCEPT ![b] = s]
  BY DEF PasskeyEstablish
<1>5. users' = users
  BY DEF PasskeyEstablish, Save
<1> HIDE DEF s
<1>6. session' \in [Browsers -> Sessions] /\ \A c \in Browsers : SessionStep(c)
  <2>1. CASE session' = session
    BY <2>1, NoSession, Shapes
  <2>2. CASE session' = [session EXCEPT ![b] = s]
    BY <1>2, <1>3, <1>5, <2>2, OneSession
  <2>3. QED
    BY <1>4, <2>1, <2>2
<1>7. request' \in [Browsers -> Requests] /\ RequestsAreSound'
  BY <1>2, <1>4, RequestEnds DEF PasskeyEstablish
<1>8. CASE there
  <2>1. Save(users, ok)
    BY <1>8 DEF PasskeyEstablish
  <2>2. QED
    BY <1>6, <1>7, <2>1, Shapes, UsersAreMild, MildStepInv DEF PasskeyEstablish
<1>9. CASE ~there
  <2>1. UNCHANGED <<users, disk, dirty>>
    BY <1>9 DEF PasskeyEstablish
  <2>2. QED
    BY <1>6, <1>7, <2>1, SessionStepInv DEF PasskeyEstablish
<1>10. QED
  BY <1>8, <1>9

\* The file has an account, so it is what the memory becomes; unless a change is undone,
\* it is what the memory was.
LEMMA AgentRestartInv ==
  ASSUME AccountsInv, AgentRestart(TRUE)
  PROVE  AccountsInv'
<1>1. Populated(disk) /\ users' = disk /\ disk' = disk
  BY BootstrapIsIdle DEF AccountsInv, StoresAreGood, AgentRestart, LoadedUsers
<1>2. /\ ~dirty' /\ UNCHANGED <<drawn, admitted, promised>>
      /\ request' = [b \in Browsers |-> Idle]
      /\ session' \in {session, [b \in Browsers |-> SignedOut]}
      /\ undone' \in BOOLEAN
  BY Shapes DEF AgentRestart, AccountsInv, AccountsTypeOK
<1>3. AccountsTypeOK'
  <2>1. SignedOut \in Sessions /\ Idle \in Requests
    BY DEF SignedOut, Idle, Sessions, Requests
  <2>2. session' \in [Browsers -> Sessions] /\ request' \in [Browsers -> Requests]
    BY <1>2, <2>1 DEF AccountsInv, AccountsTypeOK, Sessions
  <2>3. dirty' \in BOOLEAN
    BY DEF AgentRestart
  <2>4. QED
    BY <1>1, <1>2, <2>2, <2>3 DEF AccountsInv, AccountsTypeOK, Sessions, Requests
<1>4. StoresAreGood' /\ CleanIsSaved'
  BY <1>1, <1>2 DEF AccountsInv, StoresAreGood, CleanIsSaved, Populated, Gated, Enrolled
<1>5. RequestsAreSound'
  BY <1>2 DEF RequestsAreSound, Idle
<1>6. NobodyPasses'
  <2>1. CASE undone'
    BY <2>1 DEF NobodyPasses
  <2>2. CASE ~undone'
    <3>1. users' = users /\ undone' = undone
      BY <1>1, <2>2 DEF AgentRestart, AccountsInv, AccountsTypeOK, CleanIsSaved
    <3>2. \A b \in Browsers, n \in Names : session'[b] = session[b] \/ SafeFor(session'[b], n)
      BY <1>2, AccountsAssumption DEF SafeFor, SignedOut
    <3>3. QED
      BY <1>2, <3>1, <3>2, AccountsAssumption, NobodyPassesStill DEF AccountsInv, SafeFor, SignedOut
  <2>3. QED
    BY <2>1, <2>2
<1>7. CodesHaveOneOwner'
  <2>1. \A b \in Browsers : session'[b].enrolling # None =>
           session'[b].enrolling = session[b].enrolling /\ session'[b].user = session[b].user
    BY <1>2 DEF SignedOut
  <2>2. ASSUME NEW n \in Names, NEW e \in Enrolments, Owns(n, e)' PROVE Owns(n, e)
    BY <1>1, <2>1, <2>2 DEF Owns, Drawing, CodesOf
  <2>3. QED
    BY <1>2, <2>1, <2>2 DEF AccountsInv, CodesHaveOneOwner
<1>8. UsedCodesAreGone'
  BY <1>1, <1>2 DEF AccountsInv, UsedCodesAreGone, CodesOf
<1>9. QED
  BY <1>3, <1>4, <1>5, <1>6, <1>7, <1>8 DEF AccountsInv

\* A start that cannot read users.json begins anew, with the default account alone.
LEMMA FreshStartInv ==
  ASSUME AccountsInv, AgentRestart(FALSE)
  PROVE  AccountsInv'
<1> DEFINE admin == NewAccount(Default, TRUE)
<1>1. /\ users' = [n \in Names |-> IF n = Admin THEN admin ELSE None]
      /\ disk' = users'
      /\ admin # None /\ admin \in Accounts /\ admin.mustChange
      /\ admin.recovery = {}
  <2>1. admin \in Accounts /\ admin.mustChange /\ admin.recovery = {}
    BY DEF NewAccount, Accounts
  <2>2. admin # None
    BY <2>1, NoAccountAssumption
  <2> DEFINE none == [n \in Names |-> None]
  <2>3. users' = Bootstrapped(none) /\ disk' = users'
    BY DEF AgentRestart, LoadedUsers
  <2>4. Bootstrapped(none) = [none EXCEPT ![Admin] = admin]
    BY DEF Bootstrapped
  <2>5. QED
    BY <2>1, <2>2, <2>3, <2>4
<1>2. /\ ~dirty' /\ promised' = {} /\ undone' /\ UNCHANGED <<drawn, admitted>>
      /\ request' = [b \in Browsers |-> Idle]
      /\ session' \in {session, [b \in Browsers |-> SignedOut]}
  BY DEF AgentRestart
<1> HIDE DEF admin
<1>3. AccountsTypeOK'
  <2>1. SignedOut \in Sessions /\ Idle \in Requests
    BY DEF SignedOut, Idle, Sessions, Requests
  <2>2. session' \in [Browsers -> Sessions] /\ request' \in [Browsers -> Requests]
    BY <1>2, <2>1 DEF AccountsInv, AccountsTypeOK, Sessions
  <2>3. dirty' \in BOOLEAN /\ undone' \in BOOLEAN
    BY <1>2 DEF AgentRestart
  <2>4. users' \in [Names -> Accounts \union {None}] /\ disk' \in [Names -> Accounts \union {None}]
    BY <1>1
  <2>5. QED
    BY <1>2, <2>2, <2>3, <2>4 DEF AccountsInv, AccountsTypeOK, Sessions, Requests
<1>4. StoresAreGood' /\ CleanIsSaved'
  BY <1>1, <1>2, AccountsAssumption
  DEF StoresAreGood, CleanIsSaved, Populated, Gated, Enrolled
<1>5. RequestsAreSound'
  BY <1>2 DEF RequestsAreSound, Idle
<1>6. NobodyPasses'
  BY <1>2 DEF NobodyPasses
<1>7. \A n \in Names : CodesOf(users, n)' = {} /\ CodesOf(disk, n)' = {}
  BY <1>1 DEF CodesOf
<1>8. CodesHaveOneOwner'
  <2>1. \A b \in Browsers : session'[b].enrolling # None =>
           session'[b].enrolling = session[b].enrolling /\ session'[b].user = session[b].user
    BY <1>2 DEF SignedOut
  <2>2. ASSUME NEW n \in Names, NEW e \in Enrolments, Owns(n, e)' PROVE Owns(n, e)
    BY <1>7, <2>1, <2>2 DEF Owns, Drawing
  <2>3. QED
    BY <1>2, <2>1, <2>2 DEF AccountsInv, CodesHaveOneOwner
<1>9. UsedCodesAreGone'
  BY <1>2, <1>7 DEF AccountsInv, UsedCodesAreGone
<1>10. QED
  BY <1>3, <1>4, <1>5, <1>6, <1>8, <1>9 DEF AccountsInv

(***************************************************************************)
(* The invariant                                                           *)
(***************************************************************************)
LEMMA AccountsInvInit == AccountsInit => AccountsInv
<1> SUFFICES ASSUME AccountsInit PROVE AccountsInv
  OBVIOUS
<1> DEFINE a == NewAccount(Default, TRUE)
<1>1. a \in Accounts /\ a.mustChange = TRUE /\ a.recovery = {}
  BY AccountsAssumption DEF NewAccount, Accounts
<1>2. a # None
  BY <1>1, NoAccountAssumption
<1>3. users = [[n \in Names |-> None] EXCEPT ![Admin] = a] /\ disk = users
  BY DEF AccountsInit, Bootstrapped
<1> HIDE DEF a
<1>4. users \in Stores /\ users[Admin] = a /\ \A n \in Names \ {Admin} : users[n] = None
  BY <1>1, <1>3, AccountsAssumption DEF Stores
<1>5. SignedOut \in Sessions /\ Idle \in Requests
  BY DEF SignedOut, Idle, Sessions, Requests
<1>6. AccountsTypeOK
  <2>1. session \in [Browsers -> Sessions] /\ request \in [Browsers -> Requests]
    BY <1>5 DEF AccountsInit
  <2>2. admitted \in [Enrolments -> 0 .. 2]
    BY DEF AccountsInit
  <2>3. drawn = {} /\ promised = {} /\ dirty \in BOOLEAN /\ undone \in BOOLEAN
    BY DEF AccountsInit
  <2>4. QED
    BY <1>3, <1>4, <2>1, <2>2, <2>3 DEF AccountsTypeOK, Stores, Sessions, Requests
<1>7. StoresAreGood /\ CleanIsSaved
  BY <1>1, <1>2, <1>3, <1>4, AccountsAssumption
  DEF AccountsInit, StoresAreGood, CleanIsSaved, Populated, Gated, Enrolled
<1>8. RequestsAreSound /\ NobodyPasses
  BY AccountsAssumption DEF AccountsInit, RequestsAreSound, NobodyPasses, Idle, SignedOut
<1>9. \A n \in Names : CodesOf(users, n) = {} /\ CodesOf(disk, n) = {}
  BY <1>1, <1>3, <1>4 DEF CodesOf
<1>10. \A b \in Browsers : session[b].enrolling = None
  BY DEF AccountsInit, SignedOut
<1>11. CodesHaveOneOwner /\ UsedCodesAreGone
  BY <1>9, <1>10 DEF AccountsInit, CodesHaveOneOwner, UsedCodesAreGone, Owns, Drawing
<1>12. QED
  BY <1>6, <1>7, <1>8, <1>11 DEF AccountsInv

LEMMA AccountsInvStep == AccountsInv /\ [AccountsNext]_accountVars => AccountsInv'
<1> SUFFICES ASSUME AccountsInv, [AccountsNext]_accountVars PROVE AccountsInv'
  OBVIOUS
<1>1. ASSUME NEW b \in Browsers, NEW ok \in BOOLEAN, Handlers(b, ok) PROVE AccountsInv'
  BY <1>1, LoginPostInv, Login2faRecoveryInv, ChangePasswordPostInv, ChangePasswordInv,
     TwofaConfirmInv, TwofaDisableInv, PasskeyRegisterCompleteInv, PasskeyRemoveInv,
     PasskeyEstablishInv, UserAddInv, UserRemoveInv
  DEF Handlers
<1>2. ASSUME NEW b \in Browsers,
             \/ Establish(b) \/ Login2faCode(b) \/ Logout(b)
             \/ \E n \in Names : LoginRadius(b, n)
             \/ \E e \in Enrolments : TwofaBegin(b, e)
             \/ PasskeyRegisterBegin(b) \/ PasskeyLoginBegin(b)
             \/ \E n \in Names, k \in Keys : PasskeyLoginComplete(b, n, k)
      PROVE  AccountsInv'
  BY <1>2, EstablishInv, LoginRadiusInv, Login2faCodeInv, LogoutInv, TwofaBeginInv,
     PasskeyBeginInv, PasskeyLoginCompleteInv
<1>3. ASSUME NEW readable \in BOOLEAN, AgentRestart(readable) PROVE AccountsInv'
  BY <1>3, AgentRestartInv, FreshStartInv
<1>4. CASE UNCHANGED accountVars
  BY <1>4
  DEF accountVars, AccountsInv, AccountsTypeOK, StoresAreGood, CleanIsSaved, RequestsAreSound,
      NobodyPasses, CodesHaveOneOwner, UsedCodesAreGone, Populated, Gated, Enrolled, Exists,
      CodesOf, Owns, Drawing
<1>5. QED
  BY <1>1, <1>2, <1>3, <1>4 DEF AccountsNext

LEMMA AccountsAreInvariant == AccountsSpec => []AccountsInv
  BY AccountsInvInit, AccountsInvStep, PTL DEF AccountsSpec

\* Accounts, sessions and requests have the shape the handlers read, in memory and in
\* users.json, which is parsed anew at every start.
THEOREM AccountsTypesHold == AccountsSpec => []AccountsTypeOK
  BY AccountsAreInvariant, PTL DEF AccountsInv

\* A recovery code completes one login per enrolment at most, whatever number of browsers
\* it is typed into, and whichever saves fail and restarts come in between.
THEOREM RecoveryCodesAdmitOnce == AccountsSpec => []RecoveryCodeAdmitsOnce
<1>1. AccountsInv => RecoveryCodeAdmitsOnce
  BY DEF AccountsInv, UsedCodesAreGone, RecoveryCodeAdmitsOnce
<1>2. QED
  BY <1>1, AccountsAreInvariant, PTL

\* The default password opens nothing but the form that changes it.
THEOREM DefaultPasswordsAreGated == AccountsSpec => []DefaultPasswordIsGated
<1>1. AccountsInv => DefaultPasswordIsGated
  BY DEF AccountsInv, NobodyPasses, DefaultPasswordIsGated
<1>2. QED
  BY <1>1, AccountsAreInvariant, PTL

\* No interleaving of operators that remove accounts, failed saves and restarts locks
\* everybody out.
THEOREM SomeoneCanAlwaysSignIn == AccountsSpec => []SomeoneCanSignIn
<1>1. AccountsInv => SomeoneCanSignIn
  BY DEF AccountsInv, StoresAreGood, Populated, SomeoneCanSignIn
<1>2. QED
  BY <1>1, AccountsAreInvariant, PTL

\* Who was told that 2FA is on stays enrolled, now and after a restart.
THEOREM EnrolmentsAreKept == AccountsSpec => []EnrolmentIsKept
<1>1. AccountsInv => EnrolmentIsKept
  BY DEF AccountsInv, StoresAreGood, Enrolled, EnrolmentIsKept
<1>2. QED
  BY <1>1, AccountsAreInvariant, PTL
================================================================================
