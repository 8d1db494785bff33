-------------------------------- MODULE MCConsole --------------------------------
(***************************************************************************)
(* What an operator does in the console: log in, fill a settings form,     *)
(* change accounts, save store logins.  The parts share no state; a        *)
(* behaviour is one of one part.                                           *)
(***************************************************************************)
EXTENDS Sessions, SettingsForm, EnvFile, EnvValue, Accounts, Logins, TLC

CONSTANTS port, name, token

AsItIs(h) == h
FieldKeys == <<port, name>>

\* One setting, a number, that must have a value, beside a key of the user's own.
MCKind     == "PORT" :> "number"
MCPlainly  == "8080" :> "8080"
MCDefault  == "PORT" :> "8080"
MCAllowed  == "PORT" :> {"8080", "true", "false", ""}
MCDrafts   == {[NoEnv EXCEPT !["TOKEN"] = "true"]}
MCSayings  == {<<"PORT", "">>, <<"TOKEN", "true">>}

VARIABLE part
Parts == {"sessions", "form", "file", "value", "accounts", "logins"}
vars == <<part, SessionsVars, SettingsVars, EnvFileVars, EnvValueVars, AccountsVars, LoginsVars>>

\* The parts that do not run stay in one initial state.
Init ==
  /\ part \in Parts
  /\ part # "sessions" => login = "pam" /\ stable = TRUE
  /\ part # "accounts" => passwd = [n \in Names |-> Absent]
  /\ SessionsInit /\ SettingsInit /\ EnvFileInit /\ EnvValueInit /\ AccountsInit /\ LoginsInit

SessionsTurn ==
  part = "sessions" /\ SessionsNext
    /\ UNCHANGED <<SettingsVars, EnvFileVars, EnvValueVars, AccountsVars, LoginsVars>>
SettingsTurn ==
  part = "form" /\ SettingsNext
    /\ UNCHANGED <<SessionsVars, EnvFileVars, EnvValueVars, AccountsVars, LoginsVars>>
EnvFileTurn ==
  part = "file" /\ EnvFileNext
    /\ UNCHANGED <<SessionsVars, SettingsVars, EnvValueVars, AccountsVars, LoginsVars>>
EnvValueTurn ==
  part = "value" /\ EnvValueNext
    /\ UNCHANGED <<SessionsVars, SettingsVars, EnvFileVars, AccountsVars, LoginsVars>>
AccountsTurn ==
  part = "accounts" /\ AccountsNext
    /\ UNCHANGED <<SessionsVars, SettingsVars, EnvFileVars, EnvValueVars, LoginsVars>>
LoginsTurn ==
  part = "logins" /\ LoginsNext
    /\ UNCHANGED <<SessionsVars, SettingsVars, EnvFileVars, EnvValueVars, AccountsVars>>

Next ==
  /\ UNCHANGED part
  /\ SessionsTurn \/ SettingsTurn \/ EnvFileTurn
     \/ EnvValueTurn \/ AccountsTurn \/ LoginsTurn

Spec == Init /\ [][Next]_vars

\* The type invariants of the parts.
TypeOK ==
  /\ part \in Parts /\ SessionsTypeOK /\ SettingsTypeOK /\ EnvFileTypeOK /\ AccountsTypeOK
  /\ LoginsTypeOK

Same == Permutations(Browsers) \union Permutations(Clients) \union Permutations(Tabs)
=============================================================================
