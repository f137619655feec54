-------------------------------- MODULE Settings ------------------------------
(***************************************************************************)
(* config.ini, as the Settings pages change it (ConfigEditor) and as the   *)
(* start of the agent does (SecretManager, migrate_config).  The editor    *)
(* takes no lock: a handler reads the file for its checks, then            *)
(* update_section reads it again, and save replaces all of it, atomically. *)
(* What the file says takes effect at the next start.                      *)
(***************************************************************************)
EXTENDS Naturals, Sequences, Nothing

\* The sections of config.ini.  Those that no property tells apart may have one name
\* in an instance.
CONSTANTS
  Profiles,                               \* SNMP profiles, each a section [snmp.<name>]
  Smtp, Credentials, Cisco, Arista, Web,  \* with a secret
  Agent, Scan, SubnetHealth, Controllers, WebserverHealth, Backup, Firmware,
  Locations                               \* of ARP discovery, each a section [arp.<name>]

CONSTANTS
  Texts,     \* secrets an operator may type
  Forms,     \* handlers running at a time
  MaxBeside  \* a bound: forms submitted in all, where operators work side by side

SecretSections == Profiles \union {Smtp, Credentials, Cisco, Arista, Web, "radius"}
PlainSections  == Locations \union
  {Agent, Scan, SubnetHealth, Controllers, WebserverHealth, Backup, Firmware}
Sections == SecretSections \union PlainSections \union {"local_auth", "snmp"}

ASSUME SettingsAssumption ==
  /\ None \notin Texts \union Profiles
  /\ SecretSections \intersect PlainSections = {}
  /\ {"local_auth", "snmp"} \intersect (SecretSections \union PlainSections) = {}
  /\ {Web, "radius"} \intersect Profiles = {}
  /\ "radius" \notin {Smtp, Credentials, Cisco, Arista, Web}
  /\ MaxBeside \in Nat

\* A secret as the file holds it.
Blank == [form |-> "blank", text |-> None, key |-> 0]
Clear(t) == [form |-> "clear", text |-> t, key |-> 0]
Encrypted(t, k) == [form |-> "enc", text |-> t, key |-> k]

\* A section: whether a backend is on, the default profile, or nothing a
\* property tells apart; and the secret.
Section(v, s) == [there |-> TRUE, value |-> v, secret |-> s]
NoSection == [there |-> FALSE, value |-> None, secret |-> Blank]

VARIABLES
  file,      \* config.ini
  key,       \* master.key: which key it holds, 0 while there is none
  manager,   \* the key of the installed SecretManager, 0 without one
  up,        \* whether the agent runs
  migrated,  \* whether this process has migrated the file
  form,      \* per handler: its updates to come, and the file it will save
  alone,     \* whether one operator at a time saves settings
  beside,    \* forms submitted where operators work side by side
  told       \* ghost: per section, the secret last typed and saved; kept while alone

settingVars == <<file, key, manager, up, migrated, form, alone, beside,
                 told>>

NoForm == [step |-> "idle", todo |-> <<>>, copy |-> None]

\* mutant: what the form says is stored.
EncNothing(t) == Clear(t)

\* _enc: without a SecretManager the text is stored as it is.
Enc(t) == IF manager = 0 THEN Clear(t) ELSE Encrypted(t, manager)

\* mutant: a blank field blanks the secret.
StoredOrBlank(s, t) == IF t = None THEN Blank ELSE Enc(t)

\* What is typed, or what is stored if the field was left blank.
Stored(s, t) == IF t = None THEN file[s].secret ELSE Enc(t)

Update(s, v, secret, typed) ==
  [section |-> s, contents |-> Section(v, secret), typed |-> typed]

\* A handler may begin; `_editor_required' lets it in.
Begins(f) ==
  /\ up
  /\ form[f] = NoForm
  /\ IF alone THEN (\A g \in Forms : form[g] = NoForm) /\ UNCHANGED beside
     ELSE beside < MaxBeside /\ beside' = beside + 1

\* A handler that gets as far as update_section.
Submit(f, updates) ==
  /\ Begins(f)
  /\ form' = [form EXCEPT ![f] = [step |-> "read", todo |-> updates, copy |-> None]]
  /\ UNCHANGED <<file, key, manager, up, migrated, alone, told>>

(***************************************************************************)
(* The handlers                                                            *)
(***************************************************************************)
Plain(s) == Update(s, None, Blank, None)

\* A section with a secret, typed anew or left alone.  Where a page has two secrets,
\* the one stands for both.
Vault(s, t) == Update(s, None, Stored(s, t), t)

SaveEmail(f, t)           == Submit(f, <<Vault(Smtp, t)>>)
SaveCredentials(f, t)     == Submit(f, <<Vault(Credentials, t)>>)
SaveCisco(f, t)           == Submit(f, <<Vault(Cisco, t)>>)
SaveArista(f, t)          == Submit(f, <<Vault(Arista, t)>>)
SaveWeb(f, t)             == Submit(f, <<Vault(Web, t), Plain(Agent)>>)
\* The page of a profile saves it whether or not it is still there.
SaveProfile(f, p, t)      == Submit(f, <<Vault(p, t)>>)
SaveScanner(f)            == Submit(f, <<Plain(Scan)>>)
SaveSubnetHealth(f)       == Submit(f, <<Plain(SubnetHealth)>>)
SaveControllers(f)        == Submit(f, <<Plain(Controllers)>>)
SaveWebserverHealth(f)    == Submit(f, <<Plain(WebserverHealth)>>)
SaveBackup(f)             == Submit(f, <<Plain(Backup)>>)
SaveFirmware(f)           == Submit(f, <<Plain(Firmware)>>)
SaveArp(f, location)      == Submit(f, <<Plain(location)>>)
AddArp(f, location)       == ~file[location].there /\ Submit(f, <<Plain(location)>>)

\* mutant: the way the file spells it.
OnOffSpelt(b) == IF b THEN "true" ELSE "false"

OnOff(b) == IF b THEN "on" ELSE "off"

\* settings_auth_post
SaveAuth(f, local, radius, t) ==
  /\ local \/ radius
  /\ radius => Stored("radius", t) # Blank
  /\ Submit(f, <<Update("local_auth", OnOff(local), Blank, None),
                 Update("radius", OnOff(radius), Stored("radius", t), t)>>)

DefaultOk(p) == p # None => file[p].there

\* settings_snmp_post
SaveSnmp(f, p) ==
  /\ DefaultOk(p)
  /\ Submit(f, <<Update("snmp", p, Blank, None)>>)

\* settings_snmp_profile_add
AddProfile(f, p) ==
  /\ ~file[p].there
  /\ Submit(f, <<Plain(p)>>)

\* The handler takes the section out of the file it has read, and saves that.
RemoveSection(f, s) ==
  /\ Begins(f)
  /\ file[s].there
  /\ form' = [form EXCEPT ![f] =
       [step |-> "save", todo |-> <<[Plain(s) EXCEPT !.contents = NoSection]>>,
        copy |-> [file EXCEPT ![s] = NoSection]]]
  /\ UNCHANGED <<file, key, manager, up, migrated, alone, told>>

\* settings_snmp_profile_remove, settings_arp_remove
RemoveProfile(f, p)    == file["snmp"].value # p /\ RemoveSection(f, p)
RemoveArp(f, location) == RemoveSection(f, location)

\* update_section, up to save.
UpdateSection(f) ==
  /\ form[f].step = "read"
  /\ LET u == Head(form[f].todo)
     IN  form' = [form EXCEPT ![f].step = "save",
                              ![f].copy = [file EXCEPT ![u.section] = u.contents]]
  /\ UNCHANGED <<file, key, manager, up, migrated, alone, beside, told>>

\* save replaces the file, or raises (`ok' is FALSE) and leaves it.
SaveFile(f, ok) ==
  LET u    == Head(form[f].todo)
      rest == Tail(form[f].todo)
  IN
  /\ form[f].step = "save"
  /\ file' = IF ok THEN form[f].copy ELSE file
  /\ told' = IF alone /\ ok /\ u.section \in SecretSections
                /\ (u.typed # None \/ ~u.contents.there)
             THEN [told EXCEPT ![u.section] = u.typed] ELSE told
  /\ form' = [form EXCEPT ![f] = IF ok /\ rest # <<>>
                THEN [step |-> "read", todo |-> rest, copy |-> None] ELSE NoForm]
  /\ UNCHANGED <<key, manager, up, migrated, alone, beside>>

(***************************************************************************)
(* Start and end of the agent                                              *)
(***************************************************************************)
\* mutant: a key that cannot be read is replaced by a new one.
KeyRegenerated(readable, ok) ==
  IF key = 0 \/ ~readable THEN (IF ok THEN (IF key < 2 THEN key + 1 ELSE 2) ELSE key) ELSE key

\* _load_or_create: a missing key is created, unless its directory is read-only.
KeyAfter(readable, ok) == IF key = 0 /\ ok THEN 1 ELSE key

\* migrate_config encrypts what is still in cleartext.
MigratedFile(k) ==
  [s \in Sections |->
    IF file[s].secret.form = "clear"
    THEN [file[s] EXCEPT !.secret = Encrypted(file[s].secret.text, k)] ELSE file[s]]

\* main, up to the migration.
Start(readable, created, saved) ==
  LET k == KeyAfter(readable, created)
      m == IF k # 0 /\ (readable \/ key # k) THEN k ELSE 0
  IN
  /\ ~up
  /\ up' = TRUE
  /\ key' = k
  /\ manager' = m
  /\ file' = IF m # 0 /\ saved THEN MigratedFile(m) ELSE file
  /\ migrated' = (m # 0 /\ (saved \/ file = MigratedFile(m)))
  /\ UNCHANGED <<form, alone, beside, told>>

\* The agent stops, is restarted from the page, or dies.
Stop ==
  /\ up
  /\ up' = FALSE
  /\ manager' = 0
  /\ migrated' = FALSE
  /\ form' = [f \in Forms |-> NoForm]
  /\ UNCHANGED <<file, key, alone, beside, told>>

\* Someone edits the file while the agent is down (a bound: not beside two
\* operators, whose saves alone make the instance large).
EditByHand(s, t) ==
  /\ ~up
  /\ alone
  /\ file[s].there
  /\ file' = [file EXCEPT ![s].secret = Clear(t)]
  /\ told' = [told EXCEPT ![s] = t]
  /\ UNCHANGED <<key, manager, up, migrated, form, alone, beside>>

\* The file that is installed: local accounts only, no profile yet, a clear secret_key.
SettingsInit ==
  /\ \E t \in Texts :
       /\ file = [s \in Sections |->
            CASE s \in Profiles \union Locations -> NoSection
              [] s = "local_auth" -> Section("on", Blank)
              [] s = "radius" -> Section("off", Blank)
              [] s = Web -> Section(None, Clear(t))
              [] OTHER -> Section(None, Blank)]
       /\ told = [s \in SecretSections |-> IF s = Web THEN t ELSE None]
  /\ key = 0
  /\ manager = 0
  /\ up = FALSE
  /\ migrated = FALSE
  /\ form = [f \in Forms |-> NoForm]
  /\ alone \in BOOLEAN
  /\ beside = 0

SettingsNext ==
  \/ \E f \in Forms :
       \/ \E t \in Texts \union {None} :
            \/ SaveEmail(f, t) \/ SaveCredentials(f, t) \/ SaveCisco(f, t) \/ SaveArista(f, t)
            \/ SaveWeb(f, t)
            \/ \E p \in Profiles : SaveProfile(f, p, t)
       \/ SaveScanner(f) \/ SaveSubnetHealth(f) \/ SaveControllers(f)
       \/ SaveWebserverHealth(f) \/ SaveBackup(f) \/ SaveFirmware(f)
       \/ \E l \in Locations : SaveArp(f, l) \/ AddArp(f, l) \/ RemoveArp(f, l)
       \/ \E local, radius \in BOOLEAN, t \in Texts \union {None} : SaveAuth(f, local, radius, t)
       \/ \E p \in Profiles \union {None} : SaveSnmp(f, p)
       \/ \E p \in Profiles : AddProfile(f, p) \/ RemoveProfile(f, p)
       \/ UpdateSection(f)
       \/ \E ok \in BOOLEAN : SaveFile(f, ok)
  \/ \E readable, created, saved \in BOOLEAN : Start(readable, created, saved)
  \/ Stop
  \/ \E s \in SecretSections, t \in Texts : EditByHand(s, t)

SettingsSpec == SettingsInit /\ [][SettingsNext]_settingVars

SettingsTypeOK ==
  LET Secrets  == [form : {"blank", "clear", "enc"}, text : Texts \union {None}, key : 0 .. 2]
      Contents == [there : BOOLEAN, value : Profiles \union {None, "on", "off"}, secret : Secrets]
  IN
  /\ file \in [Sections -> Contents]
  /\ key \in 0 .. 2
  /\ manager \in {0, key}
  /\ up \in BOOLEAN /\ migrated \in BOOLEAN /\ alone \in BOOLEAN
  /\ \A f \in Forms : /\ form[f].step \in {"idle", "read", "save"}
                      /\ form[f].step = "idle" <=> form[f] = NoForm
                      /\ form[f].step = "save" => form[f].copy \in [Sections -> Contents]
  /\ beside \in 0 .. MaxBeside
  /\ told \in [SecretSections -> Texts \union {None}]

\* Once the start of the agent has migrated the file, no handler, however many
\* run at a time and whatever stale copies they save, puts a secret back in clear.
SecretsStayEncrypted ==
  migrated => \A s \in Sections : file[s].secret.form # "clear"

\* While one operator at a time saves settings, a section's secret is the one last
\* typed and saved for it: blank fields, saves of other sections, failed saves,
\* restarts and the migration leave it.
SecretsSurvive ==
  alone => \A s \in SecretSections : file[s].secret.text = told[s]

\* A stored secret can be decrypted with the master key, although the key may have
\* been unreadable at some starts.
SecretsCanBeRead ==
  \A s \in Sections : file[s].secret.form = "enc" => file[s].secret.key = key

\* A stored secret stays encrypted, readable, and what was last typed.
SecretsAreSafe == SecretsStayEncrypted /\ SecretsCanBeRead /\ SecretsSurvive

\* settings_auth_post: "At least one auth backend (Local or RADIUS) must be
\* enabled - otherwise no one can sign in."  When no handler is at work, so that
\* the file is what a restart will find, one is.
SomeBackendIsEnabled ==
  (\A f \in Forms : form[f] = NoForm)
    => file["local_auth"].value = "on" \/ file["radius"].value = "on"
===============================================================================
