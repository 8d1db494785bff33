------------------------------- MODULE SettingsForm -------------------------------
(***************************************************************************)
(* The settings an app declares, the dialogs that edit them, and the       *)
(* command line's `settings'.                                              *)
(*                                                                         *)
(* A dialog is a form and, behind a panel, the .env as text.  The form is  *)
(* filled once, when the dialog opens.  The text is the bytes a save would *)
(* write, rendered anew whenever the panel is opened -- unless the user    *)
(* has typed into it.  Save writes the text if the user has, and else the  *)
(* form's answers, all of them, into the file as it then is.               *)
(*                                                                         *)
(* A .env is the value of each key (EnvFile has its lines), `Unset' for a  *)
(* key it does not mention.  A save is one step here: StackFiles has what  *)
(* happens during one.                                                     *)
(***************************************************************************)
EXTENDS Naturals, FiniteSets

CONSTANTS
  Tabs,               \* browser tabs with a settings dialog
  Settings,           \* the keys the app declares
  Extra,              \* keys of the .env it does not
  EnvValues,          \* the values there are
  Blank, Unset,       \* the empty one, and the value of a key that is not there
  Kind,               \* what each setting's widget holds: "text", "number", "switch"
  Plainly,            \* how a number that can be parsed is written: "08" as "8"
  Truthy,             \* what a switch takes for on
  Default, Allowed,   \* per setting: its default, and the values its rules admit
  Required,           \* settings that must have a value
  Drafts,             \* bound: texts a user types into the editor
  Sayings,            \* bound: what is set by hand or on the command line: <<key, value>>
  NoText,             \* no text of the user's own
  MaxByHand           \* bound: edits by hand

EnvTexts == [Settings \union Extra -> EnvValues \union {Unset}]
NoEnv    == [k \in Settings \union Extra |-> Unset]

ASSUME SettingsAssumption ==
  /\ {"true", "false"} \subseteq EnvValues /\ Blank \in EnvValues /\ Unset \notin EnvValues
  /\ Settings \intersect Extra = {} /\ Required \subseteq Settings
  /\ Kind \in [Settings -> {"text", "number", "switch"}]
  /\ Default \in [Settings -> EnvValues] /\ Allowed \in [Settings -> SUBSET EnvValues]
  /\ \A n \in DOMAIN Plainly : n \in EnvValues /\ Plainly[n] \in DOMAIN Plainly
  /\ Sayings \subseteq (Settings \union Extra) \X (EnvValues \union {Unset})
  /\ Drafts \subseteq EnvTexts /\ NoText \notin EnvTexts /\ MaxByHand \in Nat

VARIABLES
  env,        \* the .env
  inline,     \* what x-spiri-settings in the compose file says
  sidecar,    \* the settings file beside it
  card,       \* the app's card has a Settings button
  form,       \* per tab: "open", or how the last one ended: "closed" or "saved"
  shown,      \* per tab: what the form's widgets hold
  panel,      \* per tab: the text panel is expanded
  editor,     \* per tab: what the text panel holds
  seeded,     \* per tab: what was last put there for the user
  cli,        \* the values a `settings' command is about to save, if one is
  byHand,     \* counts edits by hand
  began,      \* history, per tab: the .env when the dialog opened
  touched,    \* history, per tab: the settings its user has changed
  mine,       \* history, per tab: what the user typed over the text that was there
  fresh       \* history, per tab: nothing has changed since the panel was filled

formVars     == <<form, shown, panel, editor, seeded>>
historyVars  == <<began, touched, mine, fresh>>
SettingsVars == <<env, inline, sidecar, card, formVars, cli, byHand, historyVars>>

-----------------------------------------------------------------------------
(* declared(): where the settings come from *)

\* "wrong" is whatever _field_from() refuses, a setting declared twice, or YAML that
\* does not parse; "elsewhere" a file outside the app's directory, or none at all.
Inlines  == {"none", "fields", "wrong", "file", "elsewhere"}
Sidecars == {"none", "fields", "wrong"}

\* One place or the other: two that could disagree are an error.
Declaration ==
  IF inline # "none" /\ sidecar # "none" THEN "error"
  ELSE IF inline \in {"wrong", "elsewhere"} \/ sidecar = "wrong" THEN "error"
  ELSE IF inline \in {"fields", "file"} \/ sidecar = "fields" THEN "form"
  ELSE "nothing"

Declares == IF Declaration = "form" THEN Settings ELSE {}

-----------------------------------------------------------------------------
(* A value between the .env and a widget *)

\* Widget.format(Widget.parse(v)): what a widget that was filled with v gives back.
Through(k, v) ==
  CASE Kind[k] = "text"   -> v
    [] Kind[k] = "number" -> IF v \in DOMAIN Plainly THEN Plainly[v] ELSE Blank
    [] Kind[k] = "switch" -> IF v \in Truthy THEN "true" ELSE "false"

\* Mutant of Current: an empty value is taken for one that is not there.
Bug_EmptyIsUnset(file, k) == IF file[k] \in {Unset, Blank} THEN Default[k] ELSE file[k]

\* StackSettings.values()
Current(file, k) == IF file[k] = Unset THEN Default[k] ELSE file[k]

\* StackSettings._checked()
Checked(values) ==
  \A k \in DOMAIN values :
    IF values[k] = Blank THEN k \notin Required ELSE values[k] \in Allowed[k]

\* env.patch(): an empty value takes the key out.
Patched(file, values) ==
  [k \in DOMAIN file |->
     IF k \notin DOMAIN values THEN file[k]
     ELSE IF values[k] = Blank THEN Unset ELSE values[k]]

-----------------------------------------------------------------------------
SettingsInit ==
  /\ env = NoEnv
  /\ inline = "fields" /\ sidecar = "none" /\ card = TRUE
  /\ form = [t \in Tabs |-> "closed"]
  /\ shown = [t \in Tabs |-> [k \in {} |-> Blank]]
  /\ panel = [t \in Tabs |-> FALSE]
  /\ editor = [t \in Tabs |-> NoEnv] /\ seeded = [t \in Tabs |-> NoEnv]
  /\ cli = [k \in {} |-> Blank]
  /\ byHand = 0
  /\ began = [t \in Tabs |-> NoEnv]
  /\ touched = [t \in Tabs |-> {}]
  /\ mine = [t \in Tabs |-> NoText]
  /\ fresh = [t \in Tabs |-> FALSE]

\* The file is text again: every panel that was filled from the old one is out of date.
Rewritten(text) ==
  /\ env' = text
  /\ fresh' = IF text = env THEN fresh ELSE [t \in Tabs |-> FALSE]

\* The user at a shell.
EditEnv ==
  /\ byHand < MaxByHand /\ byHand' = byHand + 1
  /\ \E said \in Sayings : said[2] # env[said[1]] /\ Rewritten([env EXCEPT ![said[1]] = said[2]])
  /\ UNCHANGED <<inline, sidecar, card, formVars, cli, began, touched, mine>>

EditDeclaration ==
  /\ byHand < MaxByHand /\ byHand' = byHand + 1
  /\ inline' \in Inlines /\ sidecar' \in Sidecars
  /\ UNCHANGED <<env, card, formVars, cli, historyVars>>

\* The page draws the card: has_settings() says no of a declaration that is wrong.
DrawCard ==
  /\ card' = (Declares # {})
  /\ UNCHANGED <<env, inline, sidecar, formVars, cli, byHand, historyVars>>

-----------------------------------------------------------------------------
(* _settings_dialog() *)

\* A declaration that has gone wrong since is said, and no dialog opens.
OpenForm(t) ==
  /\ card /\ form[t] # "open"
  /\ Declaration # "error"
  /\ form'   = [form EXCEPT ![t] = "open"]
  /\ shown'  = [shown EXCEPT ![t] = [k \in Declares |-> Through(k, Current(env, k))]]
  /\ panel'  = [panel EXCEPT ![t] = FALSE]
  /\ editor' = [editor EXCEPT ![t] = NoEnv]
  /\ seeded' = [seeded EXCEPT ![t] = NoEnv]
  /\ began'  = [began EXCEPT ![t] = env]
  /\ touched' = [touched EXCEPT ![t] = {}]
  /\ mine'   = [mine EXCEPT ![t] = NoText]
  /\ fresh'  = [fresh EXCEPT ![t] = FALSE]
  /\ UNCHANGED <<env, inline, sidecar, card, cli, byHand>>

\* An answer is typed; the reset button types the default.
Fill(t, k, v) ==
  /\ form[t] = "open" /\ k \in DOMAIN shown[t] /\ v # shown[t][k]
  /\ shown' = [shown EXCEPT ![t][k] = v]
  /\ touched' = [touched EXCEPT ![t] = @ \union {k}]
  /\ fresh' = [fresh EXCEPT ![t] = FALSE]
  /\ UNCHANGED <<env, inline, sidecar, card, form, panel, editor, seeded, cli, byHand, began, mine>>

Answer(t) == \E k \in Settings, v \in EnvValues : v = Through(k, v) /\ Fill(t, k, v)
Reset(t)  == \E k \in Settings : Fill(t, k, Through(k, Default[k]))

\* StackSettings.preview(): or the file on disk, for answers that would be refused.
Preview(t) == IF Checked(shown[t]) THEN Patched(env, shown[t]) ELSE env

\* Mutant of MayReplace: the panel is filled whenever it is opened.
Bug_AlwaysReplace(t) == TRUE

\* "Has this been hand-edited?"
MayReplace(t) == editor[t] = seeded[t]

\* show_file(): the panel is opened.
OpenPanel(t) ==
  /\ form[t] = "open" /\ ~panel[t]
  /\ panel' = [panel EXCEPT ![t] = TRUE]
  /\ LET text == IF MayReplace(t) THEN Preview(t) ELSE editor[t] IN
       /\ editor' = [editor EXCEPT ![t] = text]
       /\ seeded' = [seeded EXCEPT ![t] = IF MayReplace(t) THEN text ELSE @]
  /\ fresh' = [fresh EXCEPT ![t] = MayReplace(t) /\ Checked(shown[t])]
  /\ UNCHANGED <<env, inline, sidecar, card, form, shown, cli, byHand, began, touched, mine>>

ClosePanel(t) ==
  /\ form[t] = "open" /\ panel[t]
  /\ panel' = [panel EXCEPT ![t] = FALSE]
  /\ UNCHANGED <<env, inline, sidecar, card, form, shown, editor, seeded, cli, byHand, historyVars>>

TypeText(t) ==
  /\ form[t] = "open" /\ panel[t]
  /\ \E text \in Drafts \ {editor[t]} :
       /\ editor' = [editor EXCEPT ![t] = text]
       /\ mine'   = [mine EXCEPT ![t] = IF text = seeded[t] THEN NoText ELSE text]
  /\ fresh' = [fresh EXCEPT ![t] = FALSE]
  /\ UNCHANGED <<env, inline, sidecar, card, form, shown, panel, seeded, cli, byHand, began, touched>>

\* What Save writes: the user's own bytes, or the form.
Bytes(t) == IF editor[t] # seeded[t] THEN editor[t] ELSE Patched(env, shown[t])

\* dialog.delete()
Gone(t) ==
  /\ shown'  = [shown EXCEPT ![t] = [k \in {} |-> Blank]]
  /\ panel'  = [panel EXCEPT ![t] = FALSE]
  /\ editor' = [editor EXCEPT ![t] = NoEnv] /\ seeded' = [seeded EXCEPT ![t] = NoEnv]
  /\ began'  = [began EXCEPT ![t] = NoEnv] /\ touched' = [touched EXCEPT ![t] = {}]
  /\ mine'   = [mine EXCEPT ![t] = NoText]

\* Save, Save & apply.  A save that the answers' rules or docker compose refuse changes
\* nothing, and the dialog stays as it is.
SaveDialog(t) ==
  /\ form[t] = "open"
  /\ editor[t] # seeded[t] \/ Checked(shown[t])
  /\ env' = Bytes(t)
  /\ fresh' = [u \in Tabs |-> fresh[u] /\ u # t /\ env' = env]
  /\ form' = [form EXCEPT ![t] = "saved"]
  /\ Gone(t)
  /\ UNCHANGED <<inline, sidecar, card, cli, byHand>>

Cancel(t) ==
  /\ form[t] = "open"
  /\ form' = [form EXCEPT ![t] = "closed"]
  /\ fresh' = [fresh EXCEPT ![t] = FALSE]
  /\ Gone(t)
  /\ UNCHANGED <<env, inline, sidecar, card, cli, byHand>>

-----------------------------------------------------------------------------
(* spiriconfig docker settings <app> --reset KEY KEY=VALUE *)

\* The current values, then the resets, then the assignments; no widget is asked.
CliReads ==
  /\ cli = [k \in {} |-> Blank]
  /\ Declares # {}
  /\ \E resets \in SUBSET Settings, said \in Sayings :
       /\ said[1] \in Settings /\ said[2] # Unset
       /\ cli' = [k \in Settings |-> IF k = said[1] THEN said[2]
                                  ELSE IF k \in resets THEN Default[k] ELSE Current(env, k)]
  /\ UNCHANGED <<env, inline, sidecar, card, formVars, byHand, historyVars>>

\* All of them are checked before any is written.
CliSaves ==
  /\ cli # [k \in {} |-> Blank]
  /\ Rewritten(IF Checked(cli) THEN Patched(env, cli) ELSE env)
  /\ cli' = [k \in {} |-> Blank]
  /\ UNCHANGED <<inline, sidecar, card, formVars, byHand, began, touched, mine>>

-----------------------------------------------------------------------------
Dialog(t) ==
  \/ OpenForm(t) \/ Answer(t) \/ Reset(t)
  \/ OpenPanel(t) \/ ClosePanel(t) \/ TypeText(t)
  \/ SaveDialog(t) \/ Cancel(t)

SettingsNext ==
  \/ EditEnv \/ EditDeclaration \/ DrawCard
  \/ \E t \in Tabs : Dialog(t)
  \/ CliReads \/ CliSaves

SettingsSpec == SettingsInit /\ [][SettingsNext]_SettingsVars

-----------------------------------------------------------------------------
(* Properties *)

\* Every variable keeps its type; a form is of one declaration or of none.
SettingsTypeOK ==
  /\ env \in EnvTexts /\ inline \in Inlines /\ sidecar \in Sidecars /\ card \in BOOLEAN
  /\ form \in [Tabs -> {"closed", "open", "saved"}]
  /\ DOMAIN shown = Tabs
  /\ \A t \in Tabs : shown[t] \in [Settings -> EnvValues] \/ DOMAIN shown[t] = {}
  /\ panel \in [Tabs -> BOOLEAN]
  /\ editor \in [Tabs -> EnvTexts] /\ seeded \in [Tabs -> EnvTexts]
  /\ cli \in [Settings -> EnvValues] \/ DOMAIN cli = {}
  /\ byHand \in 0..MaxByHand
  /\ began \in [Tabs -> EnvTexts] /\ touched \in [Tabs -> SUBSET Settings]
  /\ mine \in [Tabs -> EnvTexts \union {NoText}] /\ fresh \in [Tabs -> BOOLEAN]

SavesNow(t) == form[t] = "open" /\ form'[t] = "saved"

\* What a user typed into the text panel is theirs: whatever they then do to the form
\* and however often the panel is closed and opened, it stays as typed until they type
\* again, and is what a save writes.
HandEditsWin ==
  [][ \A t \in Tabs : form[t] = "open" /\ mine[t] # NoText =>
        /\ form'[t] = "open" /\ mine'[t] = mine[t] => editor'[t] = mine[t]
        /\ SavesNow(t) => env' = mine[t] ]_SettingsVars

\* The panel shows the bytes that will be written: unless the form or the file has
\* changed since it was filled, a save of the form writes exactly those.
PreviewIsTheWrite ==
  [][ \A t \in Tabs : SavesNow(t) /\ fresh[t] => env' = editor[t] ]_SettingsVars

\* Both of them: what the panel shows is what a save writes, whoever wrote it there.
PanelIsTheWrite == HandEditsWin /\ PreviewIsTheWrite

\* A field its user never touched is saved as the dialog found it -- the file's value,
\* or the default, as the widget reads it -- and not as the file has it by then.  So a
\* value changed while the dialog was open, and no other, is what such a save undoes.
UntouchedAsOpened ==
  [][ \A t \in Tabs : SavesNow(t) /\ editor[t] = seeded[t] =>
        \A k \in DOMAIN shown[t] \ touched[t] :
          LET then == IF began[t][k] = Unset THEN Default[k] ELSE began[t][k] IN
          env'[k] = IF Through(k, then) = Blank THEN Unset ELSE Through(k, then) ]_SettingsVars
=============================================================================
