------------------------------ MODULE AccessProofs ------------------------------
(***************************************************************************)
(* The login throttle, the API tokens and the secrets of config.ini: what  *)
(* is promised about them holds for any number of clients, tokens, forms   *)
(* and sections; and that they and the accounts stay out of each other's   *)
(* way when they run side by side.                                         *)
(***************************************************************************)
EXTENDS MCAccess, AccountsProofs, FiniteSetTheorems, SequenceTheorems

(***************************************************************************)
(* API tokens                                                              *)
(***************************************************************************)
\* A token that was never drawn is nowhere, so that a new one cannot be an old one that
\* was promised to be refused.
TokensInv ==
  /\ tokens \in [Tokens -> SUBSET Scopes] /\ tokenDisk \in [Tokens -> SUBSET Scopes]
  /\ minted \subseteq Tokens /\ holds \subseteq minted /\ revoked \subseteq minted
  /\ \A t \in Tokens \ minted : tokens[t] = NoToken /\ tokenDisk[t] = NoToken
  /\ TokensAreAsTold

LEMMA TokensInvInit == TokensInit => TokensInv
  BY DEF TokensInit, TokensInv, TokensAreAsTold, NoToken

LEMMA TokensInvStep == TokensInv /\ [TokensNext]_tokenVars => TokensInv'
<1> SUFFICES ASSUME TokensInv, [TokensNext]_tokenVars PROVE TokensInv'
  OBVIOUS
<1> USE DEF TokensInv, TokensAreAsTold, NoToken
<1>1. ASSUME NEW t \in Tokens, NEW ok \in BOOLEAN, NEW scopes \in SUBSET Scopes,
             Mint(t, scopes, ok)
      PROVE  TokensInv'
  BY <1>1 DEF Mint, NewToken, SaveTokens
<1>2. ASSUME NEW t \in Tokens, NEW ok \in BOOLEAN, Revoke(t, ok) PROVE TokensInv'
  BY <1>2 DEF Revoke, RevokeToken, SaveTokens
<1>3. ASSUME NEW t \in Tokens, NEW ok \in BOOLEAN, Authenticate(t, ok) PROVE TokensInv'
  BY <1>3 DEF Authenticate, SaveTokens
<1>4. ASSUME NEW t \in Tokens, ShowToken(t) PROVE TokensInv'
  BY <1>4 DEF ShowToken
<1>5. ASSUME NEW readable \in BOOLEAN, TokensRestart(readable) PROVE TokensInv'
  BY <1>5 DEF TokensRestart, LoadedTokens
<1>6. CASE UNCHANGED tokenVars
  BY <1>6 DEF tokenVars
<1>7. QED
  BY <1>1, <1>2, <1>3, <1>4, <1>5, <1>6 DEF TokensNext

\* A token an operator was given opens the API until they try to revoke it, one they were
\* told is revoked does not, now and after a restart.
THEOREM TokensStayAsTold == TokensSpec => []TokensAreAsTold
<1>1. TokensInv => TokensAreAsTold
  BY DEF TokensInv
<1>2. QED
  BY <1>1, TokensInvInit, TokensInvStep, PTL DEF TokensSpec

(***************************************************************************)
(* The login throttle                                                      *)
(***************************************************************************)
UnderWay(login) == {a \in Attempts : attempt[a].login = login /\ attempt[a] # Free}

\* The limiter's own record of a user name is the record of the guesses, and it leaves
\* room for the attempts under way.
ThrottleInv ==
  /\ byUser \in [Logins -> Seq(Nat)] /\ guesses = byUser
  /\ byIp \in [Ips -> Seq(Nat)]
  /\ attempt \in [Attempts -> [ip : Ips, login : Logins] \union {Free}]
  /\ \A login \in Logins :
       Len(byUser[login]) + Cardinality(UnderWay(login)) < MaxFailures + Cardinality(Attempts)

LEMMA AttemptsAreFew ==
  \A S \in SUBSET Attempts :
    IsFiniteSet(S) /\ Cardinality(S) \in Nat /\ Cardinality(S) <= Cardinality(Attempts)
  BY ThrottleAssumption, FS_Subset, FS_CardinalityType

LEMMA OlderIsShorter ==
  ASSUME NEW ages \in Seq(Nat)
  PROVE  Older(ages) \in Seq(Nat) /\ Len(Older(ages)) <= Len(ages)
<1> DEFINE old == {i \in 1 .. Len(ages) : ages[i] >= Window}
           n == Cardinality(old)
<1>1. Len(ages) \in Nat
  OBVIOUS
<1>2. n \in Nat /\ n <= Len(ages)
  <2>1. IsFiniteSet(1 .. Len(ages)) /\ Cardinality(1 .. Len(ages)) = Len(ages)
    <3>1. /\ IsFiniteSet(1 .. Len(ages))
          /\ Cardinality(1 .. Len(ages)) = IF 1 > Len(ages) THEN 0 ELSE Len(ages) - 1 + 1
      BY <1>1, FS_Interval
    <3>2. QED
      BY <1>1, <3>1
  <2>2. old \in SUBSET (1 .. Len(ages))
    OBVIOUS
  <2>3. QED
    BY <2>1, <2>2, FS_Subset, FS_CardinalityType
<1>3. Older(ages) = [i \in 1 .. Len(ages) - n |-> ages[i + n] + 1]
  BY DEF Older
<1> HIDE DEF n
<1>4. \A i \in 1 .. Len(ages) - n : ages[i + n] + 1 \in Nat
  BY <1>1, <1>2
<1>5. QED
  BY <1>1, <1>2, <1>3, <1>4

LEMMA ThrottleInvInit == ThrottleInit => ThrottleInv
<1> SUFFICES ASSUME ThrottleInit PROVE ThrottleInv
  OBVIOUS
<1>1. \A login \in Logins : UnderWay(login) = {}
  BY DEF ThrottleInit, UnderWay
<1>2. Cardinality({}) = 0 /\ Cardinality(Attempts) \in Nat
  BY ThrottleAssumption, FS_EmptySet, FS_CardinalityType
<1>3. \A login \in Logins :
        Len(byUser[login]) + Cardinality(UnderWay(login)) < MaxFailures + Cardinality(Attempts)
  <2>1. \A login \in Logins : Len(byUser[login]) = 0
    BY DEF ThrottleInit
  <2>2. \A login \in Logins : Cardinality(UnderWay(login)) = 0
    BY <1>1, <1>2
  <2>3. QED
    BY <1>2, <2>1, <2>2, ThrottleAssumption
<1>4. QED
  BY <1>3 DEF ThrottleInit, ThrottleInv

LEMMA ThrottleInvStep == ThrottleInv /\ [ThrottleNext]_throttleVars => ThrottleInv'
<1> SUFFICES ASSUME ThrottleInv, [ThrottleNext]_throttleVars PROVE ThrottleInv'
  OBVIOUS
<1>0. /\ byUser \in [Logins -> Seq(Nat)] /\ guesses = byUser /\ byIp \in [Ips -> Seq(Nat)]
      /\ attempt \in [Attempts -> [ip : Ips, login : Logins] \union {Free}]
      /\ \A l \in Logins :
           Len(byUser[l]) + Cardinality(UnderWay(l)) < MaxFailures + Cardinality(Attempts)
  BY DEF ThrottleInv
<1>1. \A l \in Logins : /\ UnderWay(l) \in SUBSET Attempts /\ UnderWay(l)' \in SUBSET Attempts
                        /\ Len(byUser[l]) \in Nat
  BY <1>0 DEF UnderWay
<1>2. \A l \in Logins :
        /\ IsFiniteSet(UnderWay(l)) /\ IsFiniteSet(UnderWay(l)')
        /\ Cardinality(UnderWay(l)) \in Nat /\ Cardinality(UnderWay(l)') \in Nat
        /\ Cardinality(UnderWay(l)') <= Cardinality(Attempts)
  BY <1>1, AttemptsAreFew
<1>3. MaxFailures \in Nat \ {0} /\ Cardinality(Attempts) \in Nat
  BY ThrottleAssumption, FS_CardinalityType
<1>4. ASSUME NEW a \in Attempts, NEW ip \in Ips, NEW login \in Logins, Attempt(a, ip, login)
      PROVE  ThrottleInv'
  <2>1. attempt' \in [Attempts -> [ip : Ips, login : Logins] \union {Free}]
    BY <1>0, <1>4 DEF Attempt
  <2>2. UNCHANGED <<byIp, byUser, guesses>>
    BY <1>4 DEF Attempt
  <2>3. Len(byUser[login]) < MaxFailures
    BY <1>1, <1>3, <1>4 DEF Attempt, Locked
  <2>4. \A l \in Logins \ {login} : UnderWay(l)' \subseteq UnderWay(l)
    BY <1>0, <1>4 DEF Attempt, UnderWay
  <2>5. ASSUME NEW l \in Logins
        PROVE  Len(byUser[l]) + Cardinality(UnderWay(l)') < MaxFailures + Cardinality(Attempts)
    <3>1. CASE l = login
      BY <1>1, <1>2, <1>3, <2>3, <3>1
    <3>2. CASE l # login
      <4>1. Cardinality(UnderWay(l)') <= Cardinality(UnderWay(l))
        BY <1>2, <2>4, <3>2, FS_Subset
      <4>2. QED
        BY <1>0, <1>1, <1>2, <1>3, <4>1
    <3>3. QED
      BY <3>1, <3>2
  <2>6. QED
    BY <1>0, <2>1, <2>2, <2>5 DEF ThrottleInv, UnderWay
<1>5. ASSUME NEW a \in Attempts, attempt[a] # Free, attempt' = [attempt EXCEPT ![a] = Free]
      PROVE  \E login \in Logins, ip \in Ips :
             /\ attempt[a].login = login /\ attempt[a].ip = ip
             /\ attempt' \in [Attempts -> [ip : Ips, login : Logins] \union {Free}]
             /\ UnderWay(login)' = UnderWay(login) \ {a} /\ a \in UnderWay(login)
             /\ \A l \in Logins \ {login} : UnderWay(l)' = UnderWay(l)
  <2>1. PICK login \in Logins, ip \in Ips : attempt[a] = [ip |-> ip, login |-> login]
    BY <1>0, <1>5
  <2>2. attempt'[a] = Free /\ \A b \in Attempts \ {a} : attempt'[b] = attempt[b]
    BY <1>0, <1>5
  <2>3. attempt' \in [Attempts -> [ip : Ips, login : Logins] \union {Free}]
    BY <1>0, <1>5
  <2>4. UnderWay(login)' = UnderWay(login) \ {a}
    BY <2>2 DEF UnderWay
  <2>5. \A l \in Logins \ {login} : UnderWay(l)' = UnderWay(l)
    BY <2>1, <2>2 DEF UnderWay
  <2>6. a \in UnderWay(login)
    BY <1>5, <2>1 DEF UnderWay
  <2>7. QED
    BY <2>1, <2>3, <2>4, <2>5, <2>6
<1>6. ASSUME NEW a \in Attempts, Failed(a) PROVE ThrottleInv'
  <2>1. PICK login \in Logins, ip \in Ips :
          /\ attempt[a].login = login /\ attempt[a].ip = ip
          /\ attempt' \in [Attempts -> [ip : Ips, login : Logins] \union {Free}]
          /\ UnderWay(login)' = UnderWay(login) \ {a} /\ a \in UnderWay(login)
          /\ \A l \in Logins \ {login} : UnderWay(l)' = UnderWay(l)
    BY <1>5, <1>6 DEF Failed
  <2>2. /\ byUser' = [byUser EXCEPT ![login] = Append(@, 0)]
        /\ byIp' = [byIp EXCEPT ![ip] = Append(@, 0)]
        /\ guesses' = byUser'
    BY <1>0, <1>6, <2>1 DEF Failed
  <2>3. /\ byUser'[login] = Append(byUser[login], 0)
        /\ \A l \in Logins \ {login} : byUser'[l] = byUser[l]
        /\ byUser' \in [Logins -> Seq(Nat)] /\ byIp' \in [Ips -> Seq(Nat)]
    BY <1>0, <2>1, <2>2
  <2>4. Len(byUser'[login]) = Len(byUser[login]) + 1
    BY <1>0, <2>1, <2>3
  <2>5. Cardinality(UnderWay(login)') = Cardinality(UnderWay(login)) - 1
    BY <1>2, <2>1, FS_RemoveElement
  <2>6. ASSUME NEW l \in Logins
        PROVE  Len(byUser'[l]) + Cardinality(UnderWay(l)') < MaxFailures + Cardinality(Attempts)
    <3>1. CASE l = login
      <4>1. Len(byUser'[l]) = Len(byUser[l]) + 1 /\ Cardinality(UnderWay(l)') = Cardinality(UnderWay(l)) - 1
        BY <2>4, <2>5, <3>1
      <4>2. QED
        BY <1>0, <1>1, <1>2, <1>3, <4>1
    <3>2. CASE l # login
      BY <1>0, <2>1, <2>3, <3>2
    <3>3. QED
      BY <3>1, <3>2
  <2>7. QED
    BY <2>1, <2>2, <2>3, <2>6 DEF ThrottleInv, UnderWay
<1>7. ASSUME NEW a \in Attempts, Succeeded(a) PROVE ThrottleInv'
  <2>1. PICK login \in Logins, ip \in Ips :
          /\ attempt[a].login = login /\ attempt[a].ip = ip
          /\ attempt' \in [Attempts -> [ip : Ips, login : Logins] \union {Free}]
          /\ UnderWay(login)' = UnderWay(login) \ {a} /\ a \in UnderWay(login)
          /\ \A l \in Logins \ {login} : UnderWay(l)' = UnderWay(l)
    BY <1>5, <1>7 DEF Succeeded
  <2>2. /\ byUser' = [byUser EXCEPT ![login] = <<>>]
        /\ byIp' = [byIp EXCEPT ![ip] = <<>>]
        /\ guesses' = byUser'
    BY <1>0, <1>7, <2>1 DEF Succeeded
  <2>3. /\ byUser'[login] = <<>>
        /\ \A l \in Logins \ {login} : byUser'[l] = byUser[l]
        /\ byUser' \in [Logins -> Seq(Nat)] /\ byIp' \in [Ips -> Seq(Nat)]
    BY <1>0, <2>1, <2>2
  <2>4. ASSUME NEW l \in Logins
        PROVE  Len(byUser'[l]) + Cardinality(UnderWay(l)') < MaxFailures + Cardinality(Attempts)
    <3>1. CASE l = login
      BY <1>2, <1>3, <2>3, <3>1
    <3>2. CASE l # login
      BY <1>0, <2>1, <2>3, <3>2
    <3>3. QED
      BY <3>1, <3>2
  <2>5. QED
    BY <2>1, <2>2, <2>3, <2>4 DEF ThrottleInv, UnderWay
<1>8. CASE TimePasses
  <2>1. /\ byIp' = [ip \in Ips |-> Older(byIp[ip])]
        /\ byUser' = [login \in Logins |-> Older(byUser[login])]
        /\ guesses' = byUser' /\ attempt' = attempt
    BY <1>0, <1>8 DEF TimePasses
  <2>2. byUser' \in [Logins -> Seq(Nat)] /\ byIp' \in [Ips -> Seq(Nat)]
    BY <1>0, <2>1, OlderIsShorter
  <2>3. ASSUME NEW l \in Logins
        PROVE  Len(byUser'[l]) + Cardinality(UnderWay(l)) < MaxFailures + Cardinality(Attempts)
    <3>1. Len(byUser'[l]) <= Len(byUser[l])
      BY <1>0, <2>1, OlderIsShorter
    <3>2. Len(byUser'[l]) \in Nat
      BY <2>2
    <3>3. QED
      BY <1>0, <1>1, <1>2, <1>3, <3>1, <3>2
  <2>4. QED
    BY <1>0, <2>1, <2>2, <2>3 DEF ThrottleInv, UnderWay
<1>9. CASE UNCHANGED throttleVars
  BY <1>9 DEF throttleVars, ThrottleInv, UnderWay
<1>10. QED
  BY <1>4, <1>6, <1>7, <1>8, <1>9 DEF ThrottleNext

\* Whatever number of addresses wrong passwords come from, the limiter lets no more of
\* them be tried on a user name than it counts, but for those it let through together.
THEOREM GuessesStayBounded == ThrottleSpec => []GuessesAreBounded
<1>1. ThrottleInv => GuessesAreBounded
  <2> SUFFICES ASSUME ThrottleInv, NEW l \in Logins
               PROVE  Len(guesses[l]) < MaxFailures + Cardinality(Attempts)
    BY DEF GuessesAreBounded
  <2>1. UnderWay(l) \in SUBSET Attempts
    BY DEF UnderWay
  <2>2. Cardinality(UnderWay(l)) \in Nat /\ Cardinality(Attempts) \in Nat
    BY <2>1, AttemptsAreFew, ThrottleAssumption, FS_CardinalityType
  <2>3. /\ Len(guesses[l]) \in Nat
        /\ Len(guesses[l]) + Cardinality(UnderWay(l)) < MaxFailures + Cardinality(Attempts)
    BY DEF ThrottleInv
  <2>4. QED
    BY <2>2, <2>3, ThrottleAssumption
<1>2. QED
  BY <1>1, ThrottleInvInit, ThrottleInvStep, PTL DEF ThrottleSpec

(***************************************************************************)
(* The configuration                                                       *)
(***************************************************************************)
Secrets  == [form : {"blank", "clear", "enc"}, text : Texts \union {None}, key : 0 .. 2]
Contents == [there : BOOLEAN, value : Profiles \union {None, "on", "off"}, secret : Secrets]
Files    == [Sections -> Contents]
Updates  == [section : Sections, contents : Contents, typed : Texts \union {None}]
FormStates == [step : {"idle", "read", "save"}, todo : Seq(Updates), copy : Files \union {None}]

ConfigTyped ==
  /\ file \in Files /\ told \in [SecretSections -> Texts \union {None}]
  /\ key \in 0 .. 2 /\ manager \in {0, key}
  /\ up \in BOOLEAN /\ migrated \in BOOLEAN /\ alone \in BOOLEAN /\ beside \in 0 .. MaxBeside

\* A handler at work has one section or two to save, and the file it read if it is about to.
FormTyped(h) ==
  /\ h \in FormStates
  /\ h.step = "idle" <=> h = NoForm
  /\ h.step # "idle" => h.todo # <<>> /\ Len(h.todo) <= 2
  /\ h.step = "save" => h.copy \in Files
  /\ Len(h.todo) = 2 => h.todo[1].section # h.todo[2].section

FormsTyped == form \in [Forms -> FormStates] /\ \A f \in Forms : FormTyped(form[f])

\* A secret that is encrypted is so with the key there is, and none is in clear once the
\* file is migrated.
GoodSecret(s) ==
  /\ s.form = "enc" => key # 0 /\ s.key = key
  /\ migrated => s.form # "clear"

GoodFile(c) == \A s \in Sections : GoodSecret(c[s].secret)

\* That goes for what the handlers at work are going to save as well.
GoodForm(h) ==
  /\ \A i \in 1 .. Len(h.todo) : GoodSecret(h.todo[i].contents.secret)
  /\ h.step = "save" => GoodFile(h.copy)

SecretsAreGood == GoodFile(file) /\ \A f \in Forms : GoodForm(form[f])

\* What runs ends with the agent, and a start migrates with a key only.
DownIsIdle ==
  /\ ~up => manager = 0 /\ ~migrated /\ \A f \in Forms : form[f] = NoForm
  /\ migrated => manager # 0

\* An update writes the secret that is told, or the one that is there.
Honest(u) ==
  u.section \in SecretSections =>
    /\ u.contents.secret.text =
         IF u.typed # None \/ ~u.contents.there THEN u.typed ELSE file[u.section].secret.text
    /\ ~u.contents.there => u.contents.secret.text = None

\* One operator at a time: the file is what they were told, and what the one handler at
\* work has read.
OneAtATime == \A f, g \in Forms : form[f] # NoForm /\ form[g] # NoForm => f = g
ToldIsThere ==
  \A s \in SecretSections : /\ file[s].secret.text = told[s]
                            /\ ~file[s].there => file[s].secret.text = None
HonestForm(h) == \A i \in 1 .. Len(h.todo) : Honest(h.todo[i])
CurrentCopy(h) ==
  h.step = "save" => h.copy = [file EXCEPT ![h.todo[1].section] = h.todo[1].contents]

AloneIsHonest ==
  alone => /\ OneAtATime /\ ToldIsThere
           /\ \A f \in Forms : HonestForm(form[f]) /\ CurrentCopy(form[f])

SettingsInv == ConfigTyped /\ FormsTyped /\ SecretsAreGood /\ DownIsIdle /\ AloneIsHonest

LEMMA BlankIsSecret ==
  /\ Blank \in Secrets /\ GoodSecret(Blank) /\ Blank.text = None
  /\ NoSection \in Contents /\ NoSection.secret = Blank /\ NoSection.there = FALSE
  BY DEF Blank, Secrets, GoodSecret, NoSection, Contents

\* Where the form of one handler changes and the file, the key and what the agent knows
\* stay, the invariant holds if it does of that form.
LEMMA FormStepInv ==
  ASSUME SettingsInv, NEW f \in Forms, NEW h \in FormStates,
         form' = [form EXCEPT ![f] = h],
         UNCHANGED <<file, key, manager, up, migrated, alone, told>>,
         beside' \in 0 .. MaxBeside,
         up, FormTyped(h), GoodForm(h),
         alone => (\A g \in Forms \ {f} : form[g] = NoForm) /\ HonestForm(h) /\ CurrentCopy(h)
  PROVE  SettingsInv'
<1>1. /\ form' \in [Forms -> FormStates] /\ form'[f] = h
      /\ \A g \in Forms \ {f} : form'[g] = form[g]
  BY DEF SettingsInv, FormsTyped
<1>2. ConfigTyped'
  BY DEF SettingsInv, ConfigTyped
<1>3. FormsTyped'
  BY <1>1 DEF SettingsInv, FormsTyped
<1>4. SecretsAreGood'
  <2>1. \A g \in Forms : GoodForm(form'[g])
    BY <1>1 DEF SettingsInv, SecretsAreGood
  <2>2. QED
    BY <2>1 DEF SettingsInv, SecretsAreGood, GoodForm, GoodFile, GoodSecret
<1>5. DownIsIdle'
  BY DEF SettingsInv, DownIsIdle
<1>6. AloneIsHonest'
  <2> SUFFICES ASSUME alone PROVE AloneIsHonest'
    BY DEF AloneIsHonest
  <2>1. \A g \in Forms \ {f} : form'[g] = NoForm
    BY <1>1
  <2>2. OneAtATime'
    BY <2>1 DEF OneAtATime
  <2>3. ToldIsThere'
    BY DEF SettingsInv, AloneIsHonest, ToldIsThere
  <2>4. HonestForm(NoForm) /\ CurrentCopy(NoForm)
    BY DEF HonestForm, CurrentCopy, NoForm
  <2>5. \A g \in Forms : HonestForm(form'[g]) /\ CurrentCopy(form'[g])
    <3> SUFFICES ASSUME NEW g \in Forms PROVE HonestForm(form'[g]) /\ CurrentCopy(form'[g])
      OBVIOUS
    <3>1. CASE g = f
      BY <1>1, <3>1
    <3>2. CASE g # f
      BY <2>1, <2>4, <3>2
    <3>3. QED
      BY <3>1, <3>2
  <2>6. \A g \in Forms : HonestForm(form[g])' /\ CurrentCopy(form[g])'
    <3>1. \A g \in Forms : HonestForm(form[g])'
      BY <2>5 DEF HonestForm, Honest
    <3>2. \A g \in Forms : CurrentCopy(form[g])'
      BY <2>5 DEF CurrentCopy
    <3>3. QED
      BY <3>1, <3>2
  <2>7. QED
    BY <2>2, <2>3, <2>6 DEF AloneIsHonest
<1>7. QED
  BY <1>2, <1>3, <1>4, <1>5, <1>6 DEF SettingsInv

\* What Stored gives a handler is good, and says what was typed or what is there.
LEMMA StoredIsGood ==
  ASSUME SettingsInv, NEW s \in Sections, NEW t \in Texts \union {None}
  PROVE  /\ Stored(s, t) \in Secrets /\ GoodSecret(Stored(s, t))
         /\ Stored(s, t).text = IF t = None THEN file[s].secret.text ELSE t
<1>1. CASE t = None
  <2>1. file[s].secret \in Secrets /\ GoodSecret(file[s].secret)
    BY DEF SettingsInv, ConfigTyped, Files, Contents, SecretsAreGood, GoodFile
  <2>2. QED
    BY <1>1, <2>1 DEF Stored
<1>2. CASE t # None
  <2>1. Stored(s, t) = Enc(t)
    BY <1>2 DEF Stored
  <2>2. CASE manager = 0
    <3>1. Stored(s, t) = [form |-> "clear", text |-> t, key |-> 0] /\ ~migrated
      BY <2>1, <2>2 DEF Enc, Clear, SettingsInv, DownIsIdle, ConfigTyped
    <3>2. QED
      BY <1>2, <3>1 DEF Secrets, GoodSecret
  <2>3. CASE manager # 0
    <3>1. Stored(s, t) = [form |-> "enc", text |-> t, key |-> key] /\ key # 0 /\ key \in 0 .. 2
      BY <2>1, <2>3 DEF Enc, Encrypted, SettingsInv, ConfigTyped
    <3>2. QED
      BY <1>2, <3>1 DEF Secrets, GoodSecret
  <2>4. QED
    BY <2>2, <2>3
<1>3. QED
  BY <1>1, <1>2

\* An update a handler may submit.
GoodUpdate(u) ==
  u \in Updates /\ GoodSecret(u.contents.secret) /\ (alone => Honest(u))

LEMMA VaultIsGood ==
  ASSUME SettingsInv, NEW s \in Sections, NEW t \in Texts \union {None},
         NEW v \in Profiles \union {None, "on", "off"}
  PROVE  /\ GoodUpdate(Update(s, v, Stored(s, t), t))
         /\ Update(s, v, Stored(s, t), t).section = s
<1> DEFINE u == Update(s, v, Stored(s, t), t)
<1>1. /\ Stored(s, t) \in Secrets /\ GoodSecret(Stored(s, t))
      /\ Stored(s, t).text = IF t = None THEN file[s].secret.text ELSE t
  BY StoredIsGood
<1>2. /\ u \in Updates /\ u.section = s /\ u.typed = t
      /\ u.contents.secret = Stored(s, t) /\ u.contents.there = TRUE
  BY <1>1 DEF Update, Section, Updates, Contents
<1> HIDE DEF u
<1>3. GoodUpdate(u) /\ u.section = s
  BY <1>1, <1>2 DEF GoodUpdate, Honest
<1>4. QED
  BY <1>3 DEF u

\* A section without a secret, or a profile that is not there yet.
LEMMA PlainIsGood ==
  ASSUME SettingsInv, NEW s \in Sections, s \in SecretSections => ~file[s].there,
         NEW v \in Profiles \union {None, "on", "off"}
  PROVE  /\ GoodUpdate(Update(s, v, Blank, None))
         /\ Update(s, v, Blank, None).section = s
<1> DEFINE u == Update(s, v, Blank, None)
<1>1. /\ u \in Updates /\ u.section = s /\ u.typed = None
      /\ u.contents.secret = Blank /\ u.contents.there = TRUE
  BY BlankIsSecret DEF Update, Section, Updates, Contents
<1> HIDE DEF u
<1>2. alone /\ s \in SecretSections => file[s].secret.text = None
  BY DEF SettingsInv, AloneIsHonest, ToldIsThere
<1>3. GoodUpdate(u) /\ u.section = s
  BY <1>1, <1>2, BlankIsSecret DEF GoodUpdate, Honest
<1>4. QED
  BY <1>3 DEF u

LEMMA SubmitInv ==
  ASSUME SettingsInv, NEW f \in Forms, NEW updates \in Seq(Updates),
         updates # <<>>, Len(updates) <= 2,
         Len(updates) = 2 => updates[1].section # updates[2].section,
         \A i \in 1 .. Len(updates) : GoodUpdate(updates[i]),
         Submit(f, updates)
  PROVE  SettingsInv'
<1> DEFINE h == [step |-> "read", todo |-> updates, copy |-> None]
<1>1. /\ form' = [form EXCEPT ![f] = h]
      /\ UNCHANGED <<file, key, manager, up, migrated, alone, told>>
      /\ up /\ form[f] = NoForm
      /\ IF alone THEN (\A g \in Forms : form[g] = NoForm) /\ beside' = beside
         ELSE beside < MaxBeside /\ beside' = beside + 1
  BY DEF Submit, Begins
<1>2. h \in FormStates /\ h.step = "read" /\ h.todo = updates /\ h # NoForm
  BY DEF FormStates, NoForm
<1> HIDE DEF h
<1>3. beside' \in 0 .. MaxBeside
  BY <1>1, SettingsAssumption DEF SettingsInv, ConfigTyped
<1>4. FormTyped(h)
  BY <1>2 DEF FormTyped
<1>5. GoodForm(h)
  BY <1>2 DEF GoodForm, GoodUpdate
<1>6. alone => (\A g \in Forms \ {f} : form[g] = NoForm) /\ HonestForm(h) /\ CurrentCopy(h)
  BY <1>1, <1>2 DEF GoodUpdate, HonestForm, CurrentCopy
<1>7. QED
  BY <1>1, <1>2, <1>3, <1>4, <1>5, <1>6, FormStepInv

\* The handlers that save one section, and those that save two.
LEMMA SubmitOne ==
  ASSUME SettingsInv, NEW f \in Forms, NEW u, GoodUpdate(u), Submit(f, <<u>>)
  PROVE  SettingsInv'
<1> DEFINE one == <<u>>
<1>1. one \in Seq(Updates) /\ one # <<>> /\ Len(one) = 1 /\ one[1] = u /\ Submit(f, one)
  BY DEF GoodUpdate
<1> HIDE DEF one
<1>2. \A i \in 1 .. Len(one) : GoodUpdate(one[i])
  BY <1>1
<1>3. QED
  BY <1>1, <1>2, SubmitInv

LEMMA SubmitTwo ==
  ASSUME SettingsInv, NEW f \in Forms, NEW u, NEW v, GoodUpdate(u), GoodUpdate(v),
         u.section # v.section, Submit(f, <<u, v>>)
  PROVE  SettingsInv'
<1>1. /\ <<u, v>> \in Seq(Updates) /\ <<u, v>> # <<>> /\ Len(<<u, v>>) = 2
      /\ <<u, v>>[1] = u /\ <<u, v>>[2] = v
  BY DEF GoodUpdate
<1> DEFINE both == <<u, v>>
<1> HIDE DEF both
<1>2. \A i \in 1 .. Len(both) : i = 1 \/ i = 2
  BY <1>1 DEF both
<1>3. \A i \in 1 .. Len(both) : GoodUpdate(both[i])
  BY <1>1, <1>2 DEF both
<1>4. /\ both \in Seq(Updates) /\ both # <<>> /\ Len(both) <= 2
      /\ both[1].section # both[2].section /\ Submit(f, both)
  BY <1>1 DEF both
<1>5. QED
  BY <1>3, <1>4, SubmitInv

LEMMA FormIsTyped ==
  ASSUME SettingsInv, NEW f \in Forms
  PROVE  /\ form[f] \in FormStates /\ FormTyped(form[f]) /\ GoodForm(form[f])
         /\ form \in [Forms -> FormStates] /\ beside \in 0 .. MaxBeside
         /\ file \in Files /\ GoodFile(file)
         /\ form[f] # NoForm => /\ up
                                /\ alone => /\ \A g \in Forms \ {f} : form[g] = NoForm
                                            /\ HonestForm(form[f]) /\ CurrentCopy(form[f])
  BY DEF SettingsInv, FormsTyped, ConfigTyped, SecretsAreGood, DownIsIdle, AloneIsHonest, OneAtATime

LEMMA RemoveSectionInv ==
  ASSUME SettingsInv, NEW f \in Forms, NEW s \in Sections, RemoveSection(f, s)
  PROVE  SettingsInv'
<1> DEFINE u == [Plain(s) EXCEPT !.contents = NoSection]
           c == [file EXCEPT ![s] = NoSection]
           h == [step |-> "save", todo |-> <<u>>, copy |-> c]
<1>1. /\ u \in Updates /\ u.section = s /\ u.contents = NoSection /\ u.typed = None
  BY BlankIsSecret DEF Plain, Update, Updates
<1>2. file \in Files /\ GoodFile(file)
  BY DEF SettingsInv, ConfigTyped, SecretsAreGood
<1>3. c \in Files
  BY <1>2, BlankIsSecret DEF Files
<1>4. GoodFile(c)
  BY <1>2, BlankIsSecret DEF Files, GoodFile
<1>5. /\ form' = [form EXCEPT ![f] = h]
      /\ UNCHANGED <<file, key, manager, up, migrated, alone, told>>
      /\ up
      /\ IF alone THEN (\A g \in Forms : form[g] = NoForm) /\ beside' = beside
         ELSE beside < MaxBeside /\ beside' = beside + 1
  BY DEF RemoveSection, Begins
<1>6. c = [file EXCEPT ![u.section] = u.contents]
  BY <1>1
<1> HIDE DEF u, c
<1>7. /\ h.step = "save" /\ h.copy = c /\ h.todo \in Seq(Updates) /\ Len(h.todo) = 1
      /\ h.todo # <<>> /\ h.todo[1] = u /\ h # NoForm /\ h \in FormStates
  BY <1>1, <1>3 DEF FormStates, NoForm
<1> HIDE DEF h
<1>8. \A i \in 1 .. Len(h.todo) : h.todo[i] = u
  BY <1>7
<1>9. Honest(u) /\ GoodSecret(u.contents.secret)
  BY <1>1, BlankIsSecret DEF Honest
<1>10. beside' \in 0 .. MaxBeside
  BY <1>5, SettingsAssumption DEF SettingsInv, ConfigTyped
<1>11. FormTyped(h)
  BY <1>3, <1>7 DEF FormTyped
<1>12. GoodForm(h)
  BY <1>4, <1>7, <1>8, <1>9 DEF GoodForm
<1>13. HonestForm(h) /\ CurrentCopy(h)
  BY <1>6, <1>7, <1>8, <1>9 DEF HonestForm, CurrentCopy
<1>14. QED
  BY <1>5, <1>7, <1>10, <1>11, <1>12, <1>13, FormStepInv

LEMMA UpdateSectionInv ==
  ASSUME SettingsInv, NEW f \in Forms, UpdateSection(f)
  PROVE  SettingsInv'
<1> DEFINE u == form[f].todo[1]
           c == [file EXCEPT ![u.section] = u.contents]
           h == [form[f] EXCEPT !.step = "save", !.copy = c]
<1>0. form[f].step = "read" /\ form[f] # NoForm
  BY DEF UpdateSection, NoForm
<1>1. /\ form[f] \in FormStates /\ FormTyped(form[f]) /\ GoodForm(form[f])
      /\ form \in [Forms -> FormStates] /\ beside \in 0 .. MaxBeside
      /\ file \in Files /\ GoodFile(file) /\ up
      /\ alone => (\A g \in Forms \ {f} : form[g] = NoForm) /\ HonestForm(form[f])
  BY <1>0, FormIsTyped
<1>2. /\ form[f].todo \in Seq(Updates) /\ form[f].todo # <<>>
      /\ Len(form[f].todo) <= 2
      /\ Len(form[f].todo) = 2 => form[f].todo[1].section # form[f].todo[2].section
  BY <1>0, <1>1 DEF FormStates, FormTyped
<1>3. Head(form[f].todo) = u /\ u \in Updates /\ 1 \in 1 .. Len(form[f].todo)
  BY <1>2
<1>4. GoodSecret(u.contents.secret)
  BY <1>1, <1>3 DEF GoodForm
<1>5. u.section \in Sections /\ u.contents \in Contents
  BY <1>3 DEF Updates
<1> HIDE DEF u
<1>6. c \in Files /\ GoodFile(c)
  BY <1>1, <1>4, <1>5 DEF Files, GoodFile
<1>7. /\ form' = [form EXCEPT ![f] = h]
      /\ UNCHANGED <<file, key, manager, up, migrated, alone, told, beside>>
  BY <1>1, <1>3 DEF UpdateSection
<1>8. c = [file EXCEPT ![u.section] = u.contents]
  OBVIOUS
<1> HIDE DEF c
<1>9. h \in FormStates /\ h.step = "save" /\ h.todo = form[f].todo /\ h.copy = c
  BY <1>1, <1>6 DEF FormStates
<1> HIDE DEF h
<1>10. FormTyped(h)
  BY <1>2, <1>6, <1>9 DEF FormTyped, NoForm
<1>11. GoodForm(h)
  BY <1>1, <1>6, <1>9 DEF GoodForm
<1>12. alone => HonestForm(h)
  BY <1>1, <1>9 DEF HonestForm
<1>13. CurrentCopy(h)
  BY <1>8, <1>9 DEF CurrentCopy, u
<1>14. QED
  BY <1>1, <1>7, <1>9, <1>10, <1>11, <1>12, <1>13, FormStepInv

\* A handler is done, or gives up.
LEMMA FormEndsInv ==
  ASSUME SettingsInv, NEW f \in Forms, form[f] # NoForm,
         form' = [form EXCEPT ![f] = NoForm],
         UNCHANGED <<file, key, manager, up, migrated, alone, told, beside>>
  PROVE  SettingsInv'
<1>1. NoForm \in FormStates /\ FormTyped(NoForm) /\ GoodForm(NoForm)
  BY DEF NoForm, FormStates, FormTyped, GoodForm
<1>2. HonestForm(NoForm) /\ CurrentCopy(NoForm)
  BY DEF NoForm, HonestForm, CurrentCopy
<1>3. QED
  BY <1>1, <1>2, FormIsTyped, FormStepInv

\* The file is replaced by what the handler made of the one it read; for one operator at a
\* time, that is the file with one section changed.
LEMMA SaveFileInv ==
  ASSUME SettingsInv, NEW f \in Forms, NEW ok \in BOOLEAN, SaveFile(f, ok)
  PROVE  SettingsInv'
<1> DEFINE u == form[f].todo[1]
           rest == Tail(form[f].todo)
           next == [step |-> "read", todo |-> rest, copy |-> None]
           h == IF ok /\ rest # <<>> THEN next ELSE NoForm
<1>0. form[f].step = "save" /\ form[f] # NoForm
  BY DEF SaveFile, NoForm
<1>1. /\ form[f] \in FormStates /\ FormTyped(form[f]) /\ GoodForm(form[f])
      /\ form \in [Forms -> FormStates] /\ up
      /\ alone => (\A g \in Forms \ {f} : form[g] = NoForm) /\ HonestForm(form[f]) /\ CurrentCopy(form[f])
  BY <1>0, FormIsTyped
<1>2. /\ form[f].todo \in Seq(Updates) /\ form[f].todo # <<>>
      /\ Len(form[f].todo) <= 2 /\ form[f].copy \in Files
      /\ Len(form[f].todo) = 2 => form[f].todo[1].section # form[f].todo[2].section
  BY <1>0, <1>1 DEF FormStates, FormTyped
<1>3. Head(form[f].todo) = u /\ u \in Updates /\ 1 \in 1 .. Len(form[f].todo)
  BY <1>2
<1>4. /\ rest \in Seq(Updates) /\ Len(rest) = Len(form[f].todo) - 1 /\ Len(rest) <= 1
      /\ \A i \in 1 .. Len(rest) : i = 1 /\ Len(form[f].todo) = 2 /\ rest[i] = form[f].todo[2]
  <2>1. /\ rest \in Seq(Updates) /\ Len(rest) = Len(form[f].todo) - 1
        /\ \A i \in 1 .. Len(rest) : rest[i] = form[f].todo[i + 1]
    BY <1>2, HeadTailProperties
  <2> HIDE DEF rest
  <2>2. Len(form[f].todo) \in Nat /\ Len(rest) \in Nat
    BY <1>2, <2>1, LenProperties
  <2>3. Len(rest) <= 1
    BY <1>2, <2>1, <2>2
  <2>4. \A n, m \in Nat : n <= 1 /\ n = m - 1 => \A i \in 1 .. n : i = 1 /\ m = 2
    OBVIOUS
  <2>5. \A i \in 1 .. Len(rest) : i = 1 /\ Len(form[f].todo) = 2
    BY <2>1, <2>2, <2>3, <2>4
  <2>6. ASSUME NEW i \in 1 .. Len(rest) PROVE rest[i] = form[f].todo[2]
    <3>1. rest[i] = form[f].todo[i + 1] /\ i + 1 = 2
      BY <2>1, <2>5
    <3>2. QED
      BY <3>1
  <2>7. QED
    BY <2>1, <2>3, <2>5, <2>6
<1>5. /\ file' = (IF ok THEN form[f].copy ELSE file)
      /\ form' = [form EXCEPT ![f] = h]
      /\ UNCHANGED <<key, manager, up, migrated, alone, beside>>
      /\ told' = IF alone /\ ok /\ u.section \in SecretSections
                    /\ (u.typed # None \/ ~u.contents.there)
                 THEN [told EXCEPT ![u.section] = u.typed] ELSE told
  BY <1>3 DEF SaveFile
<1>6. CASE ~ok
  BY <1>0, <1>5, <1>6, FormEndsInv
<1>7. CASE ok
  <2>1. /\ h \in FormStates /\ FormTyped(h) /\ GoodForm(h) /\ h.step # "save"
        /\ \A i \in 1 .. Len(h.todo) : h.todo[i] = form[f].todo[2] /\ Len(form[f].todo) = 2
    <3>1. CASE rest # <<>>
      <4>1. h = next /\ h.step = "read" /\ h.todo = rest /\ h # NoForm
        BY <1>7, <3>1 DEF NoForm
      <4>2. h \in FormStates
        BY <1>4, <4>1 DEF FormStates
      <4>3. FormTyped(h)
        <5>1. Len(rest) <= 2 /\ Len(rest) # 2
          BY <1>4
        <5>2. QED
          BY <3>1, <4>1, <4>2, <5>1 DEF FormTyped
      <4>4. \A i \in 1 .. Len(rest) : rest[i] = form[f].todo[2] /\ Len(form[f].todo) = 2
        BY <1>4
      <4>5. GoodForm(h)
        <5>1. Len(form[f].todo) = 2 => GoodSecret(form[f].todo[2].contents.secret)
          BY <1>1 DEF GoodForm
        <5>2. QED
          BY <4>1, <4>4, <5>1 DEF GoodForm
      <4>6. QED
        BY <4>1, <4>2, <4>3, <4>4, <4>5
    <3>2. CASE rest = <<>>
      <4>1. h = NoForm
        BY <3>2
      <4>2. NoForm \in FormStates /\ FormTyped(NoForm) /\ GoodForm(NoForm)
        BY DEF NoForm, FormStates, FormTyped, GoodForm
      <4>3. NoForm.step # "save" /\ NoForm.todo = <<>>
        BY DEF NoForm
      <4> HIDE DEF h
      <4>4. QED
        BY <4>1, <4>2, <4>3
    <3>3. QED
      BY <3>1, <3>2
  <2> HIDE DEF h
  <2>2. /\ form' \in [Forms -> FormStates] /\ form'[f] = h
        /\ \A g \in Forms \ {f} : form'[g] = form[g]
    BY <1>1, <1>5, <2>1
  <2>3. file' = form[f].copy /\ file' \in Files /\ GoodFile(file')
    BY <1>0, <1>1, <1>2, <1>5, <1>7 DEF GoodForm
  <2>4. u.section \in Sections /\ u.contents \in Contents /\ u.typed \in Texts \union {None}
    BY <1>3 DEF Updates
  <2>5. told' \in [SecretSections -> Texts \union {None}]
    BY <1>5, <2>4 DEF SettingsInv, ConfigTyped
  <2>6. ConfigTyped'
    BY <1>5, <2>3, <2>5 DEF SettingsInv, ConfigTyped
  <2>7. FormsTyped'
    BY <2>1, <2>2 DEF SettingsInv, FormsTyped
  <2>8. SecretsAreGood'
    <3>1. \A g \in Forms : GoodForm(form'[g])
      BY <2>1, <2>2 DEF SettingsInv, SecretsAreGood
    <3>2. QED
      BY <1>5, <2>3, <3>1 DEF SecretsAreGood, GoodForm, GoodFile, GoodSecret
  <2>9. DownIsIdle'
    BY <1>1, <1>5 DEF SettingsInv, DownIsIdle
  <2>10. AloneIsHonest'
    <3> SUFFICES ASSUME alone PROVE AloneIsHonest'
      BY <1>5 DEF AloneIsHonest
    <3>1. \A g \in Forms \ {f} : form'[g] = NoForm
      BY <1>1, <2>2
    <3>2. OneAtATime'
      BY <3>1 DEF OneAtATime
    <3>3. file' = [file EXCEPT ![u.section] = u.contents]
      BY <1>0, <1>1, <2>3 DEF CurrentCopy
    <3>4. /\ Honest(u)
          /\ Len(form[f].todo) = 2 => Honest(form[f].todo[2])
      BY <1>1, <1>3 DEF HonestForm
    <3> HIDE DEF u
    <3>5. /\ file'[u.section] = u.contents
          /\ \A s \in Sections \ {u.section} : file'[s] = file[s]
      BY <2>4, <3>3 DEF SettingsInv, ConfigTyped, Files
    <3>6. SecretSections \subseteq Sections
      BY DEF Sections
    <3>7. ToldIsThere'
      <4> SUFFICES ASSUME NEW s \in SecretSections
                   PROVE  /\ file'[s].secret.text = told'[s]
                          /\ ~file'[s].there => file'[s].secret.text = None
        BY DEF ToldIsThere
      <4>1. /\ file[s].secret.text = told[s]
            /\ ~file[s].there => file[s].secret.text = None
            /\ told \in [SecretSections -> Texts \union {None}]
        BY DEF SettingsInv, AloneIsHonest, ToldIsThere, ConfigTyped
      <4>2. CASE s # u.section
        BY <1>5, <3>5, <3>6, <4>1, <4>2
      <4>3. CASE s = u.section
        <5>1. /\ u.contents.secret.text =
                   IF u.typed # None \/ ~u.contents.there THEN u.typed ELSE told[s]
              /\ ~u.contents.there => u.contents.secret.text = None
          BY <3>4, <4>1, <4>3 DEF Honest
        <5>2. told'[s] = IF u.typed # None \/ ~u.contents.there THEN u.typed ELSE told[s]
          BY <1>5, <1>7, <4>1, <4>3
        <5>3. QED
          BY <3>5, <4>3, <5>1, <5>2
      <4>4. QED
        BY <4>2, <4>3
    <3>8. \A g \in Forms : HonestForm(form[g])' /\ CurrentCopy(form[g])'
      <4> SUFFICES ASSUME NEW g \in Forms
                   PROVE  HonestForm(form[g])' /\ CurrentCopy(form[g])'
        OBVIOUS
      <4>1. CASE g # f
        BY <3>1, <4>1 DEF HonestForm, CurrentCopy, NoForm
      <4>2. CASE g = f
        <5>1. form'[g] = h
          BY <2>2, <4>2
        <5>2. CurrentCopy(form[g])'
          BY <2>1, <5>1 DEF CurrentCopy
        <5>3. HonestForm(form[g])'
          <6> SUFFICES ASSUME NEW i \in 1 .. Len(h.todo), h.todo[i].section \in SecretSections
                       PROVE  LET v == h.todo[i] IN
                              /\ v.contents.secret.text =
                                   IF v.typed # None \/ ~v.contents.there
                                   THEN v.typed ELSE file'[v.section].secret.text
                              /\ ~v.contents.there => v.contents.secret.text = None
            BY <5>1 DEF HonestForm, Honest
          <6> DEFINE v == form[f].todo[2]
          <6>1. h.todo[i] = v /\ Honest(v) /\ v.section # u.section
            BY <1>2, <2>1, <3>4 DEF u
          <6> HIDE DEF v
          <6>2. file'[v.section] = file[v.section]
            BY <3>5, <3>6, <6>1
          <6>3. QED
            BY <6>1, <6>2 DEF Honest
        <5>4. QED
          BY <5>2, <5>3
      <4>3. QED
        BY <4>1, <4>2
    <3>9. QED
      BY <3>2, <3>7, <3>8 DEF AloneIsHonest
  <2>11. QED
    BY <2>6, <2>7, <2>8, <2>9, <2>10 DEF SettingsInv
<1>8. QED
  BY <1>6, <1>7

(***************************************************************************)
(* Start, stop, and a change by hand                                       *)
(***************************************************************************)
\* No key was there to encrypt with where one is created now.
LEMMA StartInv ==
  ASSUME SettingsInv, NEW readable \in BOOLEAN, NEW created \in BOOLEAN, NEW saved \in BOOLEAN,
         Start(readable, created, saved)
  PROVE  SettingsInv'
<1> DEFINE k == KeyAfter(readable, created)
           m == IF k # 0 /\ (readable \/ key # k) THEN k ELSE 0
<1>1. /\ ~up /\ up' = TRUE /\ key' = k /\ manager' = m
      /\ file' = (IF m # 0 /\ saved THEN MigratedFile(m) ELSE file)
      /\ migrated' = (m # 0 /\ (saved \/ file = MigratedFile(m)))
      /\ UNCHANGED <<form, alone, beside, told>>
  BY DEF Start
<1>2. k \in 0 .. 2 /\ (key # 0 => k = key) /\ (k = key \/ k = 1) /\ m \in {0, k}
  BY DEF KeyAfter, SettingsInv, ConfigTyped
<1>3. \A f \in Forms : form[f] = NoForm
  BY <1>1 DEF SettingsInv, DownIsIdle
<1> HIDE DEF k, m
<1>4. file \in Files /\ \A s \in Sections : file[s].secret \in Secrets /\ file[s] \in Contents
  BY DEF SettingsInv, ConfigTyped, Files, Contents
<1>5. \A s \in Sections : file[s].secret.form = "enc" => file[s].secret.key = k /\ k # 0
  BY <1>2 DEF SettingsInv, SecretsAreGood, GoodFile, GoodSecret
<1>6. m # 0 => /\ MigratedFile(m) \in Files
               /\ \A s \in Sections :
                    /\ MigratedFile(m)[s].secret.form # "clear"
                    /\ MigratedFile(m)[s].secret.form = "enc" =>
                         MigratedFile(m)[s].secret.key = k /\ k # 0
                    /\ MigratedFile(m)[s].secret.text = file[s].secret.text
                    /\ MigratedFile(m)[s].there = file[s].there
  <2> SUFFICES ASSUME m # 0
               PROVE  /\ MigratedFile(m) \in Files
                      /\ \A s \in Sections :
                           /\ MigratedFile(m)[s].secret.form # "clear"
                           /\ MigratedFile(m)[s].secret.form = "enc" =>
                                MigratedFile(m)[s].secret.key = k /\ k # 0
                           /\ MigratedFile(m)[s].secret.text = file[s].secret.text
                           /\ MigratedFile(m)[s].there = file[s].there
    OBVIOUS
  <2>1. m = k /\ k # 0 /\ m \in 0 .. 2
    BY <1>2
  <2> DEFINE e(s) == Encrypted(file[s].secret.text, m)
             c(s) == [file[s] EXCEPT !.secret = e(s)]
  <2>2. ASSUME NEW s \in Sections
        PROVE  /\ c(s) \in Contents /\ c(s).there = file[s].there
               /\ c(s).secret.form = "enc" /\ c(s).secret.key = m
               /\ c(s).secret.text = file[s].secret.text
    <3>1. /\ e(s) \in Secrets /\ e(s).form = "enc" /\ e(s).key = m
          /\ e(s).text = file[s].secret.text
      BY <1>4, <2>1 DEF Encrypted, Secrets
    <3> HIDE DEF e
    <3>2. QED
      BY <1>4, <3>1 DEF Contents
  <2>3. \A s \in Sections :
          MigratedFile(m)[s] = IF file[s].secret.form = "clear" THEN c(s) ELSE file[s]
    BY DEF MigratedFile
  <2> HIDE DEF c
  <2>4. \A s \in Sections : MigratedFile(m)[s] \in Contents
    BY <1>4, <2>2, <2>3
  <2>5. MigratedFile(m) \in Files
    BY <2>4 DEF MigratedFile, Files
  <2>6. \A s \in Sections :
          /\ MigratedFile(m)[s].secret.form # "clear"
          /\ MigratedFile(m)[s].secret.form = "enc" =>
               MigratedFile(m)[s].secret.key = k /\ k # 0
          /\ MigratedFile(m)[s].secret.text = file[s].secret.text
          /\ MigratedFile(m)[s].there = file[s].there
    BY <1>5, <2>1, <2>2, <2>3
  <2>7. QED
    BY <2>5, <2>6
<1>7. /\ file' \in Files
      /\ \A s \in Sections :
           /\ migrated' => file'[s].secret.form # "clear"
           /\ file'[s].secret.form = "enc" => file'[s].secret.key = k /\ k # 0
           /\ file'[s].secret.text = file[s].secret.text
           /\ file'[s].there = file[s].there
  BY <1>1, <1>4, <1>5, <1>6
<1>8. ConfigTyped'
  BY <1>1, <1>2, <1>7 DEF SettingsInv, ConfigTyped
<1>9. FormsTyped'
  BY <1>1 DEF SettingsInv, FormsTyped
<1>10. SecretsAreGood'
  <2>1. GoodFile(file)'
    BY <1>1, <1>7 DEF GoodFile, GoodSecret
  <2>2. \A f \in Forms : GoodForm(form[f])'
    BY <1>1, <1>3 DEF GoodForm, NoForm
  <2>3. QED
    BY <2>1, <2>2 DEF SecretsAreGood, GoodFile
<1>11. DownIsIdle'
  BY <1>1 DEF DownIsIdle
<1>12. AloneIsHonest'
  <2>1. \A f \in Forms : HonestForm(form[f])' /\ CurrentCopy(form[f])'
    BY <1>1, <1>3 DEF HonestForm, CurrentCopy, NoForm
  <2>2. OneAtATime'
    BY <1>1, <1>3 DEF OneAtATime
  <2>3. alone => ToldIsThere'
    BY <1>1, <1>7 DEF SettingsInv, AloneIsHonest, ToldIsThere, Sections
  <2>4. QED
    BY <1>1, <2>1, <2>2, <2>3 DEF AloneIsHonest
<1>13. QED
  BY <1>8, <1>9, <1>10, <1>11, <1>12 DEF SettingsInv

LEMMA NoFormIsIdle ==
  /\ NoForm \in FormStates /\ FormTyped(NoForm) /\ GoodForm(NoForm)
  /\ HonestForm(NoForm) /\ CurrentCopy(NoForm)
  BY DEF NoForm, FormStates, FormTyped, GoodForm, HonestForm, CurrentCopy

LEMMA StopInv ==
  ASSUME SettingsInv, Stop
  PROVE  SettingsInv'
<1>1. /\ up' = FALSE /\ manager' = 0 /\ migrated' = FALSE
      /\ form' = [f \in Forms |-> NoForm]
      /\ UNCHANGED <<file, key, alone, beside, told>>
  BY DEF Stop
<1>2. ConfigTyped'
  BY <1>1 DEF SettingsInv, ConfigTyped
<1>3. FormsTyped'
  BY <1>1, NoFormIsIdle DEF FormsTyped
<1>4. SecretsAreGood'
  <2>1. \A f \in Forms : GoodForm(form[f])'
    BY <1>1 DEF GoodForm, NoForm
  <2>2. GoodFile(file)'
    BY <1>1 DEF SettingsInv, SecretsAreGood, GoodFile, GoodSecret
  <2>3. QED
    BY <2>1, <2>2 DEF SecretsAreGood
<1>5. DownIsIdle'
  BY <1>1 DEF DownIsIdle
<1>6. AloneIsHonest'
  <2>1. \A f \in Forms : HonestForm(form[f])' /\ CurrentCopy(form[f])'
    BY <1>1 DEF HonestForm, CurrentCopy, NoForm
  <2>2. OneAtATime'
    BY <1>1 DEF OneAtATime
  <2>3. alone => ToldIsThere'
    BY <1>1 DEF SettingsInv, AloneIsHonest, ToldIsThere
  <2>4. QED
    BY <1>1, <2>1, <2>2, <2>3 DEF AloneIsHonest
<1>7. QED
  BY <1>2, <1>3, <1>4, <1>5, <1>6 DEF SettingsInv

LEMMA EditByHandInv ==
  ASSUME SettingsInv, NEW s \in SecretSections, NEW t \in Texts, EditByHand(s, t)
  PROVE  SettingsInv'
<1> DEFINE a == [file[s] EXCEPT !.secret = Clear(t)]
<1>1. /\ ~up /\ ~migrated /\ file[s].there
      /\ file' = [file EXCEPT ![s] = a] /\ told' = [told EXCEPT ![s] = t]
      /\ UNCHANGED <<key, manager, up, migrated, form, alone, beside>>
      /\ \A f \in Forms : form[f] = NoForm
  <2>1. file' = [file EXCEPT ![s].secret = Clear(t)]
    BY DEF EditByHand
  <2>2. QED
    BY <2>1 DEF EditByHand, SettingsInv, DownIsIdle
<1>2. s \in Sections /\ file \in Files /\ file[s] \in Contents
  BY DEF Sections, SettingsInv, ConfigTyped, Files
<1>3. Clear(t) \in Secrets /\ Clear(t).text = t /\ Clear(t).form = "clear"
  BY DEF Clear, Secrets
<1>4. a \in Contents /\ a.secret = Clear(t) /\ a.there = file[s].there
  BY <1>2, <1>3 DEF Contents
<1> HIDE DEF a
<1>5. file' \in Files /\ file'[s] = a /\ \A x \in Sections \ {s} : file'[x] = file[x]
  BY <1>1, <1>2, <1>4 DEF Files
<1>6. told' \in [SecretSections -> Texts \union {None}] /\ told'[s] = t
      /\ \A x \in SecretSections \ {s} : told'[x] = told[x]
  BY <1>1 DEF SettingsInv, ConfigTyped
<1>7. ConfigTyped'
  BY <1>1, <1>5, <1>6 DEF SettingsInv, ConfigTyped
<1>8. FormsTyped'
  BY <1>1 DEF SettingsInv, FormsTyped
<1>9. SecretsAreGood'
  <2>1. \A f \in Forms : GoodForm(form[f])'
    BY <1>1 DEF GoodForm, NoForm
  <2>2. \A x \in Sections : GoodSecret(file[x].secret)'
    BY <1>1, <1>3, <1>4, <1>5 DEF SettingsInv, SecretsAreGood, GoodFile, GoodSecret
  <2>3. QED
    BY <2>1, <2>2 DEF SecretsAreGood, GoodFile
<1>10. DownIsIdle'
  BY <1>1 DEF SettingsInv, DownIsIdle
<1>11. AloneIsHonest'
  <2>1. \A f \in Forms : HonestForm(form[f])' /\ CurrentCopy(form[f])'
    BY <1>1 DEF HonestForm, CurrentCopy, NoForm
  <2>2. OneAtATime'
    BY <1>1 DEF OneAtATime
  <2>3. alone => ToldIsThere'
    BY <1>1, <1>3, <1>4, <1>5, <1>6 DEF SettingsInv, AloneIsHonest, ToldIsThere, Sections
  <2>4. QED
    BY <1>1, <2>1, <2>2, <2>3 DEF AloneIsHonest
<1>12. QED
  BY <1>7, <1>8, <1>9, <1>10, <1>11 DEF SettingsInv

(***************************************************************************)
(* The handlers                                                            *)
(***************************************************************************)
LEMMA SectionsAre ==
  /\ SecretSections \subseteq Sections /\ PlainSections \subseteq Sections
  /\ {Smtp, Credentials, Cisco, Arista, Web, "radius"} \subseteq SecretSections
  /\ Profiles \subseteq SecretSections /\ Locations \subseteq PlainSections
  /\ {Agent, Scan, SubnetHealth, Controllers, WebserverHealth, Backup, Firmware}
       \subseteq PlainSections
  /\ {"local_auth", "snmp"} \subseteq Sections
  /\ \A s \in PlainSections \union {"local_auth", "snmp"} : s \notin SecretSections
  BY SettingsAssumption DEF Sections, SecretSections, PlainSections

LEMMA VaultInv ==
  ASSUME SettingsInv, NEW f \in Forms, NEW s \in SecretSections, NEW t \in Texts \union {None},
         Submit(f, <<Vault(s, t)>>)
  PROVE  SettingsInv'
<1>1. GoodUpdate(Vault(s, t))
  BY SectionsAre, VaultIsGood DEF Vault
<1>2. QED
  BY <1>1, SubmitOne

LEMMA PlainInv ==
  ASSUME SettingsInv, NEW f \in Forms, NEW s \in Sections,
         s \in SecretSections => ~file[s].there, Submit(f, <<Plain(s)>>)
  PROVE  SettingsInv'
<1>1. GoodUpdate(Plain(s))
  BY PlainIsGood DEF Plain
<1>2. QED
  BY <1>1, SubmitOne

LEMMA SaveWebInv ==
  ASSUME SettingsInv, NEW f \in Forms, NEW t \in Texts \union {None}, SaveWeb(f, t)
  PROVE  SettingsInv'
<1>1. GoodUpdate(Vault(Web, t)) /\ Vault(Web, t).section = Web
  BY SectionsAre, VaultIsGood DEF Vault
<1>2. GoodUpdate(Plain(Agent)) /\ Plain(Agent).section = Agent
  BY SectionsAre, PlainIsGood DEF Plain
<1>3. Web # Agent
  BY SectionsAre
<1>4. Vault(Web, t).section # Plain(Agent).section
  BY <1>1, <1>2, <1>3
<1>5. QED
  BY <1>1, <1>2, <1>4, SubmitTwo DEF SaveWeb

LEMMA SaveAuthInv ==
  ASSUME SettingsInv, NEW f \in Forms, NEW local \in BOOLEAN, NEW radius \in BOOLEAN,
         NEW t \in Texts \union {None}, SaveAuth(f, local, radius, t)
  PROVE  SettingsInv'
<1> DEFINE u == Update("local_auth", OnOff(local), Blank, None)
           v == Update("radius", OnOff(radius), Stored("radius", t), t)
<1>1. OnOff(local) \in {"on", "off"} /\ OnOff(radius) \in {"on", "off"}
  BY DEF OnOff
<1>2. GoodUpdate(u) /\ u.section = "local_auth"
  BY <1>1, SectionsAre, PlainIsGood
<1>3. GoodUpdate(v) /\ v.section = "radius"
  BY <1>1, SectionsAre, VaultIsGood
<1>4. Submit(f, <<u, v>>)
  BY DEF SaveAuth
<1> HIDE DEF u, v
<1>5. u.section # v.section
  BY <1>2, <1>3
<1>6. QED
  BY <1>2, <1>3, <1>4, <1>5, SubmitTwo

LEMMA SaveSnmpInv ==
  ASSUME SettingsInv, NEW f \in Forms, NEW p \in Profiles \union {None}, SaveSnmp(f, p)
  PROVE  SettingsInv'
<1>1. GoodUpdate(Update("snmp", p, Blank, None))
  BY SectionsAre, PlainIsGood
<1>2. QED
  BY <1>1, SubmitOne DEF SaveSnmp

LEMMA SettingsInvStep == SettingsInv /\ [SettingsNext]_settingVars => SettingsInv'
<1> SUFFICES ASSUME SettingsInv, [SettingsNext]_settingVars PROVE SettingsInv'
  OBVIOUS
<1>1. ASSUME NEW f \in Forms, NEW t \in Texts \union {None},
             \/ SaveEmail(f, t) \/ SaveCredentials(f, t) \/ SaveCisco(f, t) \/ SaveArista(f, t)
             \/ \E p \in Profiles : SaveProfile(f, p, t)
      PROVE  SettingsInv'
  BY <1>1, SectionsAre, VaultInv
  DEF SaveEmail, SaveCredentials, SaveCisco, SaveArista, SaveProfile
<1>2. ASSUME NEW f \in Forms,
             \/ SaveScanner(f) \/ SaveSubnetHealth(f) \/ SaveControllers(f)
             \/ SaveWebserverHealth(f) \/ SaveBackup(f) \/ SaveFirmware(f)
      PROVE  SettingsInv'
  BY <1>2, SectionsAre, PlainInv
  DEF SaveScanner, SaveSubnetHealth, SaveControllers, SaveWebserverHealth, SaveBackup, SaveFirmware
<1>3. ASSUME NEW f \in Forms, NEW l \in Locations,
             SaveArp(f, l) \/ AddArp(f, l) \/ RemoveArp(f, l)
      PROVE  SettingsInv'
  BY <1>3, SectionsAre, PlainInv, RemoveSectionInv DEF SaveArp, AddArp, RemoveArp
<1>4. ASSUME NEW f \in Forms, NEW p \in Profiles, AddProfile(f, p) \/ RemoveProfile(f, p)
      PROVE  SettingsInv'
  BY <1>4, SectionsAre, PlainInv, RemoveSectionInv DEF AddProfile, RemoveProfile
<1>5. CASE UNCHANGED settingVars
  <2>1. UNCHANGED <<file, key, manager, up, migrated, form, alone, beside, told>>
    BY <1>5 DEF settingVars
  <2>2. ConfigTyped'
    BY <2>1 DEF SettingsInv, ConfigTyped
  <2>3. FormsTyped'
    BY <2>1 DEF SettingsInv, FormsTyped
  <2>4. SecretsAreGood'
    BY <2>1 DEF SettingsInv, SecretsAreGood, GoodFile, GoodForm, GoodSecret
  <2>5. DownIsIdle'
    BY <2>1 DEF SettingsInv, DownIsIdle
  <2>6. AloneIsHonest'
    BY <2>1 DEF SettingsInv, AloneIsHonest, OneAtATime, ToldIsThere, HonestForm, CurrentCopy,
                Honest
  <2>7. QED
    BY <2>2, <2>3, <2>4, <2>5, <2>6 DEF SettingsInv
<1>6. QED
  BY <1>1, <1>2, <1>3, <1>4, <1>5, SaveWebInv, SaveAuthInv, SaveSnmpInv, UpdateSectionInv,
     SaveFileInv, StartInv, StopInv, EditByHandInv
  DEF SettingsNext

LEMMA SettingsInvInit == SettingsInit => SettingsInv
<1> SUFFICES ASSUME SettingsInit PROVE SettingsInv
  OBVIOUS
<1>1. PICK t \in Texts :
        /\ file = [s \in Sections |->
             CASE s \in Profiles \union Locations -> NoSection
               [] s = "local_auth" -> Section("on", Blank)
               [] s = "radius" -> Section("off", Blank)
               [] s = Web -> Section(None, Clear(t))
               [] OTHER -> Section(None, Blank)]
        /\ told = [s \in SecretSections |-> IF s = Web THEN t ELSE None]
  BY DEF SettingsInit
<1>2. /\ NoSection \in Contents /\ NoSection.secret = Blank
      /\ Section("on", Blank) \in Contents /\ Section("on", Blank).secret = Blank
      /\ Section("on", Blank).there
      /\ Section("off", Blank) \in Contents /\ Section("off", Blank).secret = Blank
      /\ Section("off", Blank).there
      /\ Section(None, Blank) \in Contents /\ Section(None, Blank).secret = Blank
      /\ Section(None, Blank).there
  BY BlankIsSecret DEF Section, Contents
<1>3. /\ Clear(t) \in Secrets /\ Clear(t).text = t /\ Clear(t).form = "clear"
      /\ Blank.form = "blank" /\ Blank.text = None
  BY DEF Clear, Secrets, Blank
<1>4. /\ Section(None, Clear(t)) \in Contents /\ Section(None, Clear(t)).secret = Clear(t)
      /\ Section(None, Clear(t)).there
  BY <1>3 DEF Section, Contents
<1>5. ASSUME NEW s \in Sections
      PROVE  /\ file[s] \in Contents /\ file[s].secret \in {Blank, Clear(t)}
             /\ s \in SecretSections => /\ file[s].secret.text = told[s]
                                        /\ ~file[s].there => file[s].secret.text = None
  <2>1. /\ "local_auth" \notin SecretSections \union PlainSections
        /\ Web \notin Profiles \union Locations \union {"radius", "local_auth"}
        /\ "radius" \notin Profiles \union Locations
        /\ "local_auth" \notin Profiles \union Locations
        /\ Locations \intersect SecretSections = {}
    BY SettingsAssumption DEF SecretSections, PlainSections
  <2>2. file[s] = CASE s \in Profiles \union Locations -> NoSection
                    [] s = "local_auth" -> Section("on", Blank)
                    [] s = "radius" -> Section("off", Blank)
                    [] s = Web -> Section(None, Clear(t))
                    [] OTHER -> Section(None, Blank)
    BY <1>1
  <2>3. s \in SecretSections => told[s] = IF s = Web THEN t ELSE None
    BY <1>1
  <2>4. CASE s \in Profiles \union Locations
    <3>1. s # "local_auth" /\ s # "radius" /\ s # Web
      BY <2>1, <2>4
    <3>2. file[s] = NoSection /\ (s \in SecretSections => told[s] = None)
      BY <2>2, <2>3, <2>4, <3>1
    <3>3. QED
      BY <1>2, <1>3, <3>2
  <2>5. CASE s = "local_auth"
    <3>1. s # "radius" /\ s # Web /\ s \notin Profiles \union Locations /\ s \notin SecretSections
      BY <2>1, <2>5
    <3>2. file[s] = Section("on", Blank)
      BY <2>2, <2>5, <3>1
    <3>3. QED
      BY <1>2, <1>3, <3>1, <3>2
  <2>6. CASE s = "radius"
    <3>1. s # "local_auth" /\ s # Web /\ s \notin Profiles \union Locations
      BY <2>1, <2>6
    <3>2. file[s] = Section("off", Blank) /\ (s \in SecretSections => told[s] = None)
      BY <2>2, <2>3, <2>6, <3>1
    <3>3. QED
      BY <1>2, <1>3, <3>2
  <2>7. CASE s = Web
    <3>1. s # "local_auth" /\ s # "radius" /\ s \notin Profiles \union Locations
      BY <2>1, <2>7
    <3>2. file[s] = Section(None, Clear(t)) /\ (s \in SecretSections => told[s] = t)
      BY <2>2, <2>3, <2>7, <3>1
    <3>3. QED
      BY <1>3, <1>4, <3>2
  <2>8. CASE s \notin Profiles \union Locations \union {"local_auth", "radius", Web}
    <3>1. file[s] = Section(None, Blank) /\ (s \in SecretSections => told[s] = None)
      BY <2>2, <2>3, <2>8
    <3>2. QED
      BY <1>2, <1>3, <3>1
  <2>9. QED
    BY <2>4, <2>5, <2>6, <2>7, <2>8
<1>6. file \in Files /\ told \in [SecretSections -> Texts \union {None}]
  BY <1>1, <1>5 DEF Files
<1>7. /\ key = 0 /\ manager = 0 /\ up = FALSE /\ migrated = FALSE /\ alone \in BOOLEAN
      /\ beside = 0 /\ form = [f \in Forms |-> NoForm]
  BY DEF SettingsInit
<1>8. ConfigTyped
  <2>1. key \in 0 .. 2 /\ manager \in {0, key}
    BY <1>7
  <2>2. up \in BOOLEAN /\ migrated \in BOOLEAN /\ alone \in BOOLEAN
    BY <1>7
  <2>3. MaxBeside \in Nat /\ beside = 0
    BY <1>7, SettingsAssumption
  <2>4. beside \in 0 .. MaxBeside
    BY <2>3
  <2>5. QED
    BY <1>6, <2>1, <2>2, <2>4 DEF ConfigTyped
<1>9. FormsTyped
  BY <1>7, NoFormIsIdle DEF FormsTyped
<1>10. SecretsAreGood
  BY <1>3, <1>5, <1>7 DEF SecretsAreGood, GoodFile, GoodSecret, GoodForm, NoForm
<1>11. DownIsIdle
  BY <1>7 DEF DownIsIdle
<1>12. AloneIsHonest
  BY <1>5, <1>7, NoFormIsIdle, SectionsAre DEF AloneIsHonest, OneAtATime, ToldIsThere
<1>13. QED
  BY <1>8, <1>9, <1>10, <1>11, <1>12 DEF SettingsInv

LEMMA SettingsAreInvariant == SettingsSpec => []SettingsInv
  BY SettingsInvInit, SettingsInvStep, PTL DEF SettingsSpec

\* Sections, forms and the key have the shape the editor, the handlers and the start of
\* the agent rely on.
THEOREM SettingsTypesHold == SettingsSpec => []SettingsTypeOK
<1>1. SettingsInv => SettingsTypeOK
  BY DEF SettingsInv, ConfigTyped, FormsTyped, FormTyped, FormStates, Files, Contents, Secrets,
         SettingsTypeOK
<1>2. QED
  BY <1>1, SettingsAreInvariant, PTL

\* A stored secret stays encrypted once the file is migrated, stays readable with the
\* master key, and is what was last typed, for any number of sections, profiles, locations
\* and handlers that read and save the file in between each other's steps.
THEOREM SecretsStaySafe == SettingsSpec => []SecretsAreSafe
<1>1. SettingsInv => SecretsAreSafe
  <2> SUFFICES ASSUME SettingsInv PROVE SecretsAreSafe
    OBVIOUS
  <2>1. SecretsStayEncrypted /\ SecretsCanBeRead
    BY DEF SettingsInv, SecretsAreGood, GoodFile, GoodSecret, SecretsStayEncrypted, SecretsCanBeRead
  <2>2. SecretsSurvive
    BY DEF SettingsInv, AloneIsHonest, ToldIsThere, SecretsSurvive
  <2>3. QED
    BY <2>1, <2>2 DEF SecretsAreSafe
<1>2. QED
  BY <1>1, SettingsAreInvariant, PTL

(***************************************************************************)
(* A way to sign in.  The page that refuses a form with neither backend    *)
(* saves the two sections of one with both in two writes of the file.      *)
(* What lies between the two is all that can leave neither enabled, while  *)
(* operators take turns.                                                   *)
(***************************************************************************)
AuthSections == {"local_auth", "radius"}
HasBackend(c) == c["local_auth"].value = "on" \/ c["radius"].value = "on"

\* The local accounts of the form are in the file, and RADIUS is still to come.
HalfSaved(h) == Len(h.todo) = 1 /\ h.todo[1].section = "radius"

\* A form of that page does not end between its two writes: the agent is not killed or
\* stopped there, and the second write does not raise.
AuthIsSavedWhole ==
  [][\A f \in Forms : HalfSaved(form[f]) /\ form'[f] = NoForm => SaveFile(f, TRUE)]_settingVars

\* A handler at work on file c has nothing to do with backends, or all it saves has one.
AuthForm(c, h) ==
  \/ \A i \in 1 .. Len(h.todo) : h.todo[i].section \notin AuthSections
  \/ /\ Len(h.todo) = 2
     /\ h.todo[1].section = "local_auth" /\ h.todo[2].section = "radius"
     /\ h.todo[1].contents.value = "on" \/ h.todo[2].contents.value = "on"
  \/ /\ HalfSaved(h)
     /\ c["local_auth"].value = "on" \/ h.todo[1].contents.value = "on"

BackendInv ==
  /\ \A f \in Forms : AuthForm(file, form[f])
  /\ HasBackend(file) \/ \E f \in Forms : HalfSaved(form[f])

LEMMA NoFormIsNoAuth == (\A c : AuthForm(c, NoForm)) /\ ~HalfSaved(NoForm)
  BY DEF NoForm, AuthForm, HalfSaved

LEMMA OtherSections ==
  ASSUME NEW s
  PROVE  s \in Profiles \union PlainSections
                 \union {Smtp, Credentials, Cisco, Arista, Web, "snmp"}
           => s \in Sections /\ s \notin AuthSections
  BY SettingsAssumption DEF AuthSections, Sections, SecretSections, PlainSections

\* One handler moves and the others are idle.
LEMMA BackendFormStep ==
  ASSUME SettingsInv, NEW f \in Forms, NEW h, \A g \in Forms \ {f} : form[g] = NoForm,
         form' = [form EXCEPT ![f] = h], AuthForm(file', h), HasBackend(file') \/ HalfSaved(h)
  PROVE  BackendInv'
<1>1. form'[f] = h /\ \A g \in Forms \ {f} : form'[g] = NoForm
  BY DEF SettingsInv, FormsTyped
<1>2. \A g \in Forms : AuthForm(file', form'[g])
  BY <1>1, NoFormIsNoAuth DEF AuthForm
<1>3. HasBackend(file') \/ \E g \in Forms : HalfSaved(form'[g])
  BY <1>1
<1>4. QED
  BY <1>2, <1>3 DEF BackendInv, AuthForm

LEMMA SubmitKeepsBackend ==
  ASSUME SettingsInv, alone = TRUE, BackendInv, NEW f \in Forms, NEW updates, Submit(f, updates),
         \/ \A i \in 1 .. Len(updates) : updates[i].section \notin AuthSections
         \/ /\ Len(updates) = 2
            /\ updates[1].section = "local_auth" /\ updates[2].section = "radius"
            /\ updates[1].contents.value = "on" \/ updates[2].contents.value = "on"
  PROVE  BackendInv'
<1> DEFINE h == [step |-> "read", todo |-> updates, copy |-> None]
<1>1. /\ \A g \in Forms : form[g] = NoForm
      /\ form' = [form EXCEPT ![f] = h] /\ UNCHANGED file
  BY DEF Submit, Begins
<1>2. h.todo = updates
  OBVIOUS
<1> HIDE DEF h
<1>3. AuthForm(file', h)
  BY <1>2 DEF AuthForm
<1>4. HasBackend(file')
  BY <1>1, NoFormIsNoAuth DEF BackendInv
<1>5. QED
  BY <1>1, <1>3, <1>4, BackendFormStep

LEMMA OneKeepsBackend ==
  ASSUME SettingsInv, alone = TRUE, BackendInv, NEW f \in Forms, NEW u, Submit(f, <<u>>),
         u.section \notin AuthSections
  PROVE  BackendInv'
<1> DEFINE one == <<u>>
<1>1. \A i \in 1 .. Len(one) : one[i].section \notin AuthSections
  OBVIOUS
<1>2. Submit(f, one)
  OBVIOUS
<1> HIDE DEF one
<1>3. QED
  BY <1>1, <1>2, SubmitKeepsBackend

LEMMA TwoKeepBackend ==
  ASSUME SettingsInv, alone = TRUE, BackendInv, NEW f \in Forms, NEW u, NEW v,
         Submit(f, <<u, v>>),
         \/ u.section \notin AuthSections /\ v.section \notin AuthSections
         \/ /\ u.section = "local_auth" /\ v.section = "radius"
            /\ u.contents.value = "on" \/ v.contents.value = "on"
  PROVE  BackendInv'
<1> DEFINE both == <<u, v>>
<1>1. both[1] = u /\ both[2] = v /\ Len(both) = 2 /\ Submit(f, both)
  OBVIOUS
<1> HIDE DEF both
<1>2. \A i \in 1 .. Len(both) : i = 1 \/ i = 2
  BY <1>1
<1>3. QED
  BY <1>1, <1>2, SubmitKeepsBackend

LEMMA SaveAuthKeepsBackend ==
  ASSUME SettingsInv, alone = TRUE, BackendInv, NEW f \in Forms, NEW local \in BOOLEAN,
         NEW radius \in BOOLEAN, NEW t \in Texts \union {None}, SaveAuth(f, local, radius, t)
  PROVE  BackendInv'
<1> DEFINE u == Update("local_auth", OnOff(local), Blank, None)
           v == Update("radius", OnOff(radius), Stored("radius", t), t)
<1>1. /\ u.section = "local_auth" /\ u.contents.value = OnOff(local)
      /\ v.section = "radius" /\ v.contents.value = OnOff(radius)
  BY DEF Update, Section
<1>2. OnOff(local) = "on" \/ OnOff(radius) = "on"
  BY DEF SaveAuth, OnOff
<1>3. Submit(f, <<u, v>>)
  BY DEF SaveAuth
<1> HIDE DEF u, v
<1>4. QED
  BY <1>1, <1>2, <1>3, TwoKeepBackend

LEMMA RemoveKeepsBackend ==
  ASSUME SettingsInv, alone = TRUE, BackendInv, NEW f \in Forms, NEW s,
         s \notin AuthSections, RemoveSection(f, s)
  PROVE  BackendInv'
<1> DEFINE u == [Plain(s) EXCEPT !.contents = NoSection]
           h == [step |-> "save", todo |-> <<u>>, copy |-> [file EXCEPT ![s] = NoSection]]
<1>1. /\ \A g \in Forms : form[g] = NoForm
      /\ form' = [form EXCEPT ![f] = h] /\ UNCHANGED file
  BY DEF RemoveSection, Begins
<1>2. u.section = s
  BY DEF Plain, Update
<1>3. Len(h.todo) = 1 /\ h.todo[1] = u
  OBVIOUS
<1> HIDE DEF u, h
<1>4. AuthForm(file', h)
  BY <1>2, <1>3 DEF AuthForm
<1>5. HasBackend(file')
  BY <1>1, NoFormIsNoAuth DEF BackendInv
<1>6. QED
  BY <1>1, <1>4, <1>5, BackendFormStep

LEMMA UpdateSectionKeepsBackend ==
  ASSUME SettingsInv, alone = TRUE, BackendInv, NEW f \in Forms, UpdateSection(f)
  PROVE  BackendInv'
<1>1. form[f] # NoForm /\ form[f] \in FormStates
  BY FormIsTyped DEF UpdateSection, NoForm
<1>2. \A g \in Forms \ {f} : form[g] = NoForm
  BY <1>1, FormIsTyped
<1>3. PICK c : form' = [form EXCEPT ![f] = [form[f] EXCEPT !.step = "save", !.copy = c]]
  BY DEF UpdateSection
<1> DEFINE h == [form[f] EXCEPT !.step = "save", !.copy = c]
<1>4. h.todo = form[f].todo
  BY <1>1 DEF FormStates
<1>5. form' = [form EXCEPT ![f] = h]
  BY <1>3
<1> HIDE DEF h
<1>6. UNCHANGED file
  BY DEF UpdateSection
<1>7. AuthForm(file', h)
  BY <1>4, <1>6 DEF BackendInv, AuthForm, HalfSaved
<1>8. HasBackend(file') \/ HalfSaved(h)
  BY <1>2, <1>4, <1>6, NoFormIsNoAuth DEF BackendInv, HalfSaved
<1>9. QED
  BY <1>2, <1>5, <1>7, <1>8, BackendFormStep

\* What remains of a form whose first section is in the file.
LEMMA SaveFileKeepsBackend ==
  ASSUME SettingsInv, alone = TRUE, BackendInv, NEW f \in Forms, SaveFile(f, TRUE)
  PROVE  BackendInv'
<1> DEFINE u    == form[f].todo[1]
           rest == Tail(form[f].todo)
           h == IF rest # <<>> THEN [step |-> "read", todo |-> rest, copy |-> None] ELSE NoForm
<1>1. form[f].step = "save" /\ form[f] # NoForm
  BY DEF SaveFile, NoForm
<1>2. /\ form[f].todo \in Seq(Updates) /\ form[f].todo # <<>> /\ Len(form[f].todo) <= 2
      /\ CurrentCopy(form[f]) /\ file \in Files
      /\ \A g \in Forms \ {f} : form[g] = NoForm
  BY <1>1, FormIsTyped DEF FormStates, FormTyped
<1>3. /\ u \in Updates /\ u.section \in Sections
      /\ Len(form[f].todo) \in Nat /\ Len(form[f].todo) \in {1, 2}
  <2>1. form[f].todo \in Seq(Updates) /\ form[f].todo # <<>>
    BY <1>2
  <2>2. Head(form[f].todo) = u /\ u \in Updates /\ 1 \in 1 .. Len(form[f].todo)
    BY <2>1
  <2>3. Len(form[f].todo) \in Nat
    BY <2>1, LenProperties
  <2>4. \A n \in Nat : n <= 2 /\ 1 \in 1 .. n => n \in {1, 2}
    OBVIOUS
  <2>5. Len(form[f].todo) \in {1, 2}
    BY <1>2, <2>2, <2>3, <2>4
  <2>6. QED
    BY <2>2, <2>3, <2>5 DEF Updates
<1>4. h.todo = rest
  BY DEF NoForm
<1>5. /\ Len(form[f].todo) = 1 => Len(rest) = 0
      /\ Len(form[f].todo) = 2 => Len(rest) = 1 /\ rest[1] = form[f].todo[2]
  BY <1>2, HeadTailProperties
<1>6. form' = [form EXCEPT ![f] = h] /\ file' = form[f].copy
  BY DEF SaveFile
<1> HIDE DEF rest, h
<1>7. u \in Updates /\ u.section \in Sections
  BY <1>3
<1>8. file' = [file EXCEPT ![u.section] = u.contents]
  BY <1>1, <1>2, <1>6 DEF CurrentCopy
<1> HIDE DEF u
<1>9. /\ file'[u.section] = u.contents
      /\ \A s \in Sections \ {u.section} : file'[s] = file[s]
  BY <1>2, <1>7, <1>8 DEF Files
<1>10. "local_auth" \in Sections /\ "radius" \in Sections
  BY SectionsAre
<1>11. HasBackend(file) \/ HalfSaved(form[f])
  BY <1>2, NoFormIsNoAuth DEF BackendInv
<1>12. AuthForm(file, form[f])
  BY DEF BackendInv
<1>13. AuthForm(file', h) /\ (HasBackend(file') \/ HalfSaved(h))
  <2>1. CASE \A i \in 1 .. Len(form[f].todo) : form[f].todo[i].section \notin AuthSections
    <3>1. u.section \notin AuthSections
      BY <1>3, <2>1 DEF u
    <3>2. HasBackend(file)
      BY <1>3, <1>11, <2>1 DEF HalfSaved, AuthSections
    <3>3. HasBackend(file')
      BY <1>9, <1>10, <3>1, <3>2 DEF HasBackend, AuthSections
    <3>4. \A i \in 1 .. Len(rest) : rest[i].section \notin AuthSections
      BY <1>3, <1>5, <2>1
    <3>5. QED
      BY <1>4, <3>3, <3>4 DEF AuthForm
  <2>2. CASE /\ Len(form[f].todo) = 2
             /\ form[f].todo[1].section = "local_auth" /\ form[f].todo[2].section = "radius"
             /\ form[f].todo[1].contents.value = "on" \/ form[f].todo[2].contents.value = "on"
    <3>1. u.section = "local_auth" /\ HalfSaved(h) /\ h.todo[1] = form[f].todo[2]
      BY <1>4, <1>5, <2>2 DEF u, HalfSaved
    <3>2. file'["local_auth"].value = "on" \/ h.todo[1].contents.value = "on"
      BY <1>9, <2>2, <3>1 DEF u
    <3>3. QED
      BY <3>1, <3>2 DEF AuthForm, HalfSaved
  <2>3. CASE /\ HalfSaved(form[f])
             /\ file["local_auth"].value = "on" \/ form[f].todo[1].contents.value = "on"
    <3>1. u.section = "radius" /\ Len(h.todo) = 0
      BY <1>4, <1>5, <2>3 DEF u, HalfSaved
    <3>2. HasBackend(file')
      BY <1>9, <1>10, <2>3, <3>1 DEF u, HasBackend
    <3>3. QED
      BY <3>1, <3>2 DEF AuthForm
  <2>4. QED
    BY <1>12, <2>1, <2>2, <2>3 DEF AuthForm
<1>14. QED
  BY <1>2, <1>6, <1>13, BackendFormStep

\* No handler is left, and the backends are as they were.
LEMMA RestKeepsBackend ==
  ASSUME BackendInv, \A f \in Forms : form'[f] = NoForm,
         \A f \in Forms : ~HalfSaved(form[f]),
         \A s \in AuthSections : file'[s].value = file[s].value
  PROVE  BackendInv'
<1>1. HasBackend(file')
  BY DEF BackendInv, HasBackend, AuthSections
<1>2. \A f \in Forms : AuthForm(file', form'[f])
  BY NoFormIsNoAuth DEF AuthForm
<1>3. QED
  BY <1>1, <1>2 DEF BackendInv, AuthForm

LEMMA StartKeepsBackend ==
  ASSUME SettingsInv, BackendInv, NEW readable \in BOOLEAN, NEW created \in BOOLEAN,
         NEW saved \in BOOLEAN, Start(readable, created, saved)
  PROVE  BackendInv'
<1>1. ~up /\ UNCHANGED form
  BY DEF Start
<1>2. \A f \in Forms : form[f] = NoForm
  BY <1>1 DEF SettingsInv, DownIsIdle
<1>3. PICK k : file' = MigratedFile(k) \/ file' = file
  BY DEF Start
<1>4. \A s \in AuthSections : s \in Sections /\ file[s] \in Contents
  BY SectionsAre DEF AuthSections, SettingsInv, ConfigTyped, Files
<1>5. ASSUME NEW s \in AuthSections PROVE MigratedFile(k)[s].value = file[s].value
  BY <1>4 DEF MigratedFile, Contents
<1>6. \A s \in AuthSections : file'[s].value = file[s].value
  BY <1>3, <1>5
<1>7. QED
  BY <1>1, <1>2, <1>6, NoFormIsNoAuth, RestKeepsBackend

LEMMA EditKeepsBackend ==
  ASSUME SettingsInv, BackendInv, NEW s \in SecretSections, NEW t \in Texts, EditByHand(s, t)
  PROVE  BackendInv'
<1>1. ~up /\ UNCHANGED form /\ file' = [file EXCEPT ![s].secret = Clear(t)]
  BY DEF EditByHand
<1>2. \A f \in Forms : form[f] = NoForm
  BY <1>1 DEF SettingsInv, DownIsIdle
<1>3. s \in Sections /\ file \in Files /\ file[s] \in Contents
  BY SectionsAre DEF SettingsInv, ConfigTyped, Files
<1> DEFINE c == [file[s] EXCEPT !.secret = Clear(t)]
<1>4. c.value = file[s].value
  BY <1>3 DEF Contents
<1>5. file' = [file EXCEPT ![s] = c]
  BY <1>1
<1> HIDE DEF c
<1>6. \A q \in Sections : file'[q].value = file[q].value
  BY <1>3, <1>4, <1>5 DEF Files
<1>7. AuthSections \subseteq Sections
  BY SectionsAre DEF AuthSections
<1>8. \A q \in AuthSections : file'[q].value = file[q].value
  BY <1>6, <1>7
<1>9. QED
  BY <1>1, <1>2, <1>8, NoFormIsNoAuth, RestKeepsBackend

LEMMA BackendStep ==
  ASSUME SettingsInv, alone = TRUE, BackendInv, [SettingsNext]_settingVars,
         [\A f \in Forms : HalfSaved(form[f]) /\ form'[f] = NoForm
            => SaveFile(f, TRUE)]_settingVars
  PROVE  BackendInv'
<1>1. CASE UNCHANGED settingVars
  BY <1>1 DEF settingVars, BackendInv, AuthForm, HasBackend
<1> SUFFICES ASSUME SettingsNext,
                    \A f \in Forms : HalfSaved(form[f]) /\ form'[f] = NoForm => SaveFile(f, TRUE)
             PROVE  BackendInv'
  BY <1>1
<1>2. ASSUME NEW f \in Forms, NEW t \in Texts \union {None},
             \/ SaveEmail(f, t) \/ SaveCredentials(f, t) \/ SaveCisco(f, t) \/ SaveArista(f, t)
             \/ \E p \in Profiles : SaveProfile(f, p, t)
      PROVE  BackendInv'
  <2>1. PICK s \in Profiles \union {Smtp, Credentials, Cisco, Arista} : Submit(f, <<Vault(s, t)>>)
    BY <1>2 DEF SaveEmail, SaveCredentials, SaveCisco, SaveArista, SaveProfile
  <2>2. Vault(s, t).section = s
    BY DEF Vault, Update
  <2>3. Vault(s, t).section \notin AuthSections
    BY <2>2, OtherSections
  <2>4. QED
    BY <2>1, <2>3, OneKeepsBackend
<1>3. ASSUME NEW f \in Forms, NEW t \in Texts \union {None}, SaveWeb(f, t) PROVE BackendInv'
  <2>1. Vault(Web, t).section = Web /\ Plain(Agent).section = Agent /\ Agent \in PlainSections
    BY DEF Vault, Plain, Update, PlainSections
  <2>2. Vault(Web, t).section \notin AuthSections /\ Plain(Agent).section \notin AuthSections
    BY <2>1, OtherSections
  <2>3. QED
    BY <1>3, <2>2, TwoKeepBackend DEF SaveWeb
<1>4. ASSUME NEW f \in Forms, NEW s \in Profiles \union PlainSections, Submit(f, <<Plain(s)>>)
      PROVE  BackendInv'
  <2>1. Plain(s).section = s
    BY DEF Plain, Update
  <2>2. Plain(s).section \notin AuthSections
    BY <2>1, OtherSections
  <2>3. QED
    BY <1>4, <2>2, OneKeepsBackend
<1>5. ASSUME NEW f \in Forms,
             \/ SaveScanner(f) \/ SaveSubnetHealth(f) \/ SaveControllers(f)
             \/ SaveWebserverHealth(f) \/ SaveBackup(f) \/ SaveFirmware(f)
      PROVE  BackendInv'
  BY <1>4, <1>5
  DEF SaveScanner, SaveSubnetHealth, SaveControllers, SaveWebserverHealth, SaveBackup,
      SaveFirmware, PlainSections
<1>6. ASSUME NEW f \in Forms, NEW l \in Locations,
             SaveArp(f, l) \/ AddArp(f, l) \/ RemoveArp(f, l)
      PROVE  BackendInv'
  <2>1. l \in PlainSections /\ l \notin AuthSections
    BY OtherSections DEF PlainSections
  <2>2. QED
    BY <1>4, <1>6, <2>1, RemoveKeepsBackend DEF SaveArp, AddArp, RemoveArp
<1>7. ASSUME NEW f \in Forms, NEW p \in Profiles, AddProfile(f, p) \/ RemoveProfile(f, p)
      PROVE  BackendInv'
  <2>1. p \notin AuthSections
    BY OtherSections
  <2>2. QED
    BY <1>4, <1>7, <2>1, RemoveKeepsBackend DEF AddProfile, RemoveProfile
<1>8. ASSUME NEW f \in Forms, NEW p \in Profiles \union {None}, SaveSnmp(f, p) PROVE BackendInv'
  <2>1. Update("snmp", p, Blank, None).section = "snmp"
    BY DEF Update
  <2>2. Update("snmp", p, Blank, None).section \notin AuthSections
    BY <2>1 DEF AuthSections
  <2>3. QED
    BY <1>8, <2>2, OneKeepsBackend DEF SaveSnmp
<1>9. ASSUME NEW f \in Forms, NEW ok \in BOOLEAN, SaveFile(f, ok) PROVE BackendInv'
  <2>1. CASE SaveFile(f, TRUE)
    BY <2>1, SaveFileKeepsBackend
  <2>2. CASE ~SaveFile(f, TRUE)
    <3>1. SaveFile(f, FALSE)
      BY <1>9, <2>2
    <3>2. form' = [form EXCEPT ![f] = NoForm] /\ UNCHANGED file /\ form[f] # NoForm
      BY <3>1 DEF SaveFile, NoForm
    <3>3. form'[f] = NoForm /\ \A g \in Forms \ {f} : form[g] = NoForm
      BY <3>2, FormIsTyped
    <3>4. ~HalfSaved(form[f])
      BY <2>2, <3>3
    <3>5. HasBackend(file')
      BY <3>2, <3>3, <3>4, NoFormIsNoAuth DEF BackendInv
    <3>6. QED
      BY <3>2, <3>3, <3>5, NoFormIsNoAuth, BackendFormStep
  <2>3. QED
    BY <2>1, <2>2
<1>10. CASE Stop
  <2>1. /\ up /\ up' = FALSE /\ UNCHANGED file
        /\ \A f \in Forms : form'[f] = NoForm
    BY <1>10 DEF Stop
  <2>2. ASSUME NEW f \in Forms, HalfSaved(form[f]) PROVE FALSE
    <3>1. UNCHANGED up
      BY <2>1, <2>2 DEF SaveFile
    <3>2. QED
      BY <2>1, <3>1
  <2>3. QED
    BY <2>1, <2>2, RestKeepsBackend
<1>11. QED
  BY <1>2, <1>3, <1>5, <1>6, <1>7, <1>8, <1>9, <1>10, SaveAuthKeepsBackend,
     UpdateSectionKeepsBackend, StartKeepsBackend, EditKeepsBackend
  DEF SettingsNext

LEMMA OperatorsTakeTurns == SettingsSpec /\ alone = TRUE => [](alone = TRUE)
<1>1. [SettingsNext]_settingVars => UNCHANGED alone
  BY DEF SettingsNext, settingVars, SaveEmail, SaveCredentials, SaveCisco, SaveArista, SaveWeb,
         SaveProfile, SaveScanner, SaveSubnetHealth, SaveControllers, SaveWebserverHealth,
         SaveBackup, SaveFirmware, SaveArp, AddArp, RemoveArp, SaveAuth, SaveSnmp, AddProfile,
         RemoveProfile, RemoveSection, Submit, UpdateSection, SaveFile, Start, Stop, EditByHand
<1>2. alone = TRUE /\ UNCHANGED alone => (alone = TRUE)'
  OBVIOUS
<1>3. QED
  BY <1>1, <1>2, PTL DEF SettingsSpec

\* While operators take turns, and no form of the page ends between its two writes, a
\* restart finds local accounts or RADIUS enabled, whatever else is saved, fails, stops or
\* is edited by hand, for any number of sections and handlers.
THEOREM BackendsStayEnabled ==
  SettingsSpec /\ alone = TRUE /\ AuthIsSavedWhole => []SomeBackendIsEnabled
<1>1. SettingsInit => BackendInv
  <2> SUFFICES ASSUME SettingsInit PROVE BackendInv
    OBVIOUS
  <2>1. \A f \in Forms : form[f] = NoForm
    BY DEF SettingsInit
  <2>2. "local_auth" \in Sections /\ "local_auth" \notin Profiles \union Locations
    BY SettingsAssumption DEF Sections, SecretSections, PlainSections
  <2>3. file["local_auth"] = Section("on", Blank)
    <3>1. PICK t \in Texts :
            file = [s \in Sections |->
              CASE s \in Profiles \union Locations -> NoSection
                [] s = "local_auth" -> Section("on", Blank)
                [] s = "radius" -> Section("off", Blank)
                [] s = Web -> Section(None, Clear(t))
                [] OTHER -> Section(None, Blank)]
      BY DEF SettingsInit
    <3> DEFINE here == "local_auth"
    <3>2. here \in Sections /\ here \notin Profiles \union Locations /\ here = "local_auth"
          /\ here # "radius" /\ here # Web
      BY <2>2, SettingsAssumption DEF SecretSections
    <3> HIDE DEF here
    <3>3. file[here] = CASE here \in Profiles \union Locations -> NoSection
                        [] here = "local_auth" -> Section("on", Blank)
                        [] here = "radius" -> Section("off", Blank)
                        [] here = Web -> Section(None, Clear(t))
                        [] OTHER -> Section(None, Blank)
      BY <3>1, <3>2
    <3>4. QED
      BY <3>2, <3>3
  <2>4. file["local_auth"].value = "on"
    BY <2>3 DEF Section
  <2>5. QED
    BY <2>1, <2>4, NoFormIsNoAuth DEF BackendInv, HasBackend
<1>2. SettingsInv /\ alone = TRUE /\ BackendInv /\ [SettingsNext]_settingVars
        /\ [\A f \in Forms : HalfSaved(form[f]) /\ form'[f] = NoForm
              => SaveFile(f, TRUE)]_settingVars
          => BackendInv'
  BY BackendStep
<1>3. BackendInv => SomeBackendIsEnabled
  BY NoFormIsNoAuth DEF BackendInv, HasBackend, SomeBackendIsEnabled
<1>4. QED
  BY <1>1, <1>2, <1>3, SettingsAreInvariant, OperatorsTakeTurns, PTL
     DEF SettingsSpec, AuthIsSavedWhole

-------------------------------------------------------------------------------
(***************************************************************************)
(* The four parts side by side: a behaviour of the composition is one of   *)
(* each part, so that every theorem about a part holds of it.              *)
(***************************************************************************)
\* A step of one part leaves the others as they are.
LEMMA PartsStandAlone == Spec => AccountsSpec /\ ThrottleSpec /\ TokensSpec /\ SettingsSpec
<1>1. Init => AccountsInit /\ ThrottleInit /\ TokensInit /\ SettingsInit
  BY DEF Init
<1>2. [Next]_vars => /\ [AccountsNext]_accountVars /\ [ThrottleNext]_throttleVars
                     /\ [TokensNext]_tokenVars /\ [SettingsNext]_settingVars
  BY DEF Next, vars
<1>3. QED
  BY <1>1, <1>2, PTL DEF Spec, AccountsSpec, ThrottleSpec, TokensSpec, SettingsSpec

\* Accounts, sessions, forms and sections keep the shape the handlers read, whichever of
\* the parts moves, in memory, in users.json and in config.ini.
THEOREM TypesHold == Spec => []TypesOK
<1>1. AccountsTypeOK /\ SettingsTypeOK => TypesOK
  BY DEF TypesOK
<1>2. QED
  BY <1>1, PartsStandAlone, AccountsTypesHold, SettingsTypesHold, PTL
================================================================================
