------------------------------- MODULE MCAccess -------------------------------
(***************************************************************************)
(* Who gets into the web interface, and what the settings pages make of    *)
(* the configuration: instances of four modules that share no state, one   *)
(* of which moves in a behaviour.                                          *)
(***************************************************************************)
EXTENDS Accounts, LoginThrottle, ApiTokens, Settings, TLC

VARIABLE part

vars == <<accountVars, throttleVars, tokenVars, settingVars, part>>

Init ==
  /\ part \in {"accounts", "throttle", "tokens", "settings"}
  /\ AccountsInit /\ ThrottleInit /\ TokensInit /\ SettingsInit
  /\ part # "settings" => alone

Next ==
  /\ UNCHANGED part
  /\ \/ /\ part = "accounts" /\ AccountsNext
        /\ UNCHANGED <<throttleVars, tokenVars, settingVars>>
     \/ /\ part = "throttle" /\ ThrottleNext
        /\ UNCHANGED <<accountVars, tokenVars, settingVars>>
     \/ /\ part = "tokens" /\ TokensNext
        /\ UNCHANGED <<accountVars, throttleVars, settingVars>>
     \/ /\ part = "settings" /\ SettingsNext
        /\ UNCHANGED <<accountVars, throttleVars, tokenVars>>

Spec == Init /\ [][Next]_vars

Symmetry == Permutations(Browsers)

\* Accounts and sections have the shape the handlers read, and so do users.json and
\* config.ini.
TypesOK == AccountsTypeOK /\ SettingsTypeOK
===============================================================================
