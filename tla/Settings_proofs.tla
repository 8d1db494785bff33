----------------------------- MODULE Settings_proofs -----------------------------
(***************************************************************************)
(* Theorems about the settings of a stack.  Of the form, for any settings, *)
(* values, texts and tabs: what a save writes is what the text panel       *)
(* shows, and what its user did not touch is as the dialog found it.  Of a *)
(* value in the .env, however long: what is written for it is read as it.  *)
(* Of the .env, however many lines it has: a save changes what its answers *)
(* say, once, and nothing else.                                            *)
(***************************************************************************)
EXTENDS SettingsForm, EnvValue, EnvFile, SequenceTheorems, WellFoundedInduction, TLAPS

-----------------------------------------------------------------------------
(* The form *)

(* The parts of the inductive invariant. *)

\* An open dialog remembers the user's own text exactly while the panel holds it.
Remembered ==
  \A t \in Tabs : form[t] = "open" =>
    /\ mine[t] = NoText <=> editor[t] = seeded[t]
    /\ mine[t] # NoText => editor[t] = mine[t]

\* A panel that is up to date holds what the form would write.
UpToDate ==
  \A t \in Tabs : form[t] = "open" /\ fresh[t] => editor[t] = Patched(env, shown[t])

\* A field nobody touched holds what the file said when the dialog opened.
Found ==
  \A t \in Tabs : form[t] = "open" =>
    \A k \in DOMAIN shown[t] \ touched[t] : shown[t][k] = Through(k, Current(began[t], k))

SettingsInv == SettingsTypeOK /\ Remembered /\ UpToDate /\ Found

SettingKeys == Settings \union Extra
Answers(values) == values \in [Settings -> EnvValues] \/ DOMAIN values = {}

-----------------------------------------------------------------------------
(* What the helpers return. *)

(* A widget gives back one of the values there are. *)
LEMMA ThroughType ==
  ASSUME NEW k \in Settings, NEW v \in EnvValues
  PROVE  Through(k, v) \in EnvValues
BY SettingsAssumption DEF Through

(* A setting's current value is one of the values there are. *)
LEMMA CurrentType ==
  ASSUME NEW file \in EnvTexts, NEW k \in Settings
  PROVE  Current(file, k) \in EnvValues
BY SettingsAssumption DEF Current, EnvTexts

(* Patching keeps a text a text, and writes each of the values. *)
LEMMA PatchedType ==
  ASSUME NEW file \in EnvTexts, NEW values, Answers(values)
  PROVE  /\ Patched(file, values) \in EnvTexts
         /\ \A k \in DOMAIN values :
              Patched(file, values)[k] = IF values[k] = Blank THEN Unset ELSE values[k]
<1>1. DOMAIN file = SettingKeys /\ \A k \in SettingKeys : file[k] \in EnvValues \union {Unset}
  BY DEF EnvTexts, SettingKeys
<1>2. DOMAIN values \subseteq Settings /\ \A k \in DOMAIN values : values[k] \in EnvValues
  BY DEF Answers
<1>3. \A k \in SettingKeys :
        Patched(file, values)[k] = IF k \notin DOMAIN values THEN file[k]
                                   ELSE IF values[k] = Blank THEN Unset ELSE values[k]
  BY <1>1 DEF Patched
<1>4. Patched(file, values) \in [SettingKeys -> EnvValues \union {Unset}]
  BY <1>1, <1>2 DEF Patched
<1> QED
  BY <1>2, <1>3, <1>4 DEF EnvTexts, SettingKeys

(* The form's answers when it opens: every setting's, or none. *)
LEMMA OpenedType ==
  ASSUME NEW file \in EnvTexts
  PROVE  Answers([k \in Declares |-> Through(k, Current(file, k))])
BY ThroughType, CurrentType DEF Answers, Declares

-----------------------------------------------------------------------------
(* The invariant is inductive. *)

\* The invariant holds while no dialog is open.
LEMMA SettingsInitInv == SettingsInit => SettingsInv
<1> SUFFICES ASSUME SettingsInit PROVE SettingsInv
  OBVIOUS
<1> USE SettingsAssumption DEF SettingsInit
<1>1. NoEnv \in EnvTexts
  BY DEF NoEnv, EnvTexts
<1>2. SettingsTypeOK
  BY <1>1 DEF SettingsTypeOK, Inlines, Sidecars
<1>3. Remembered /\ UpToDate /\ Found
  BY DEF Remembered, UpToDate, Found
<1> QED
  BY <1>2, <1>3 DEF SettingsInv

\* What an action of one tab leaves of the others.
Aside(t) ==
  \A u \in Tabs \ {t} :
    /\ form'[u] = form[u] /\ shown'[u] = shown[u] /\ editor'[u] = editor[u]
    /\ seeded'[u] = seeded[u] /\ began'[u] = began[u] /\ touched'[u] = touched[u]
    /\ mine'[u] = mine[u] /\ (fresh'[u] => fresh[u] /\ env' = env)

\* The invariant of one tab.
FormSound(t) ==
  form[t] = "open" =>
    /\ mine[t] = NoText <=> editor[t] = seeded[t]
    /\ mine[t] # NoText => editor[t] = mine[t]
    /\ fresh[t] => editor[t] = Patched(env, shown[t])
    /\ \A k \in DOMAIN shown[t] \ touched[t] : shown[t][k] = Through(k, Current(began[t], k))

\* The invariant, said of one tab at a time.
LEMMA SettingsInvIsSound == SettingsInv <=> SettingsTypeOK /\ \A t \in Tabs : FormSound(t)
BY DEF SettingsInv, FormSound, Remembered, UpToDate, Found

(* A step of one tab has only that tab to answer for. *)
LEMMA OtherTabs ==
  ASSUME SettingsInv, NEW t \in Tabs, Aside(t), SettingsTypeOK', FormSound(t)'
  PROVE  SettingsInv'
<1>1. ASSUME NEW u \in Tabs \ {t} PROVE FormSound(u)'
  BY <1>1, SettingsInvIsSound DEF Aside, FormSound
<1>2. \A u \in Tabs : FormSound(u)'
  BY <1>1
<1> QED
  BY <1>2 DEF SettingsInv, FormSound, Remembered, UpToDate, Found

\* Every step of a tab, the command line or an editor keeps it.
LEMMA SettingsInvStep == SettingsInv /\ [SettingsNext]_SettingsVars => SettingsInv'
<1> SUFFICES ASSUME SettingsInv, [SettingsNext]_SettingsVars PROVE SettingsInv'
  OBVIOUS
<1>0. SettingsTypeOK
  BY DEF SettingsInv
<1> USE DEF formVars, historyVars
<1>1. CASE EditEnv
  <2>1. PICK said \in Sayings : Rewritten([env EXCEPT ![said[1]] = said[2]])
    BY <1>1 DEF EditEnv
  <2>2. env' \in EnvTexts /\ fresh' \in [Tabs -> BOOLEAN] /\ byHand' \in 0..MaxByHand
        /\ \A t \in Tabs : fresh'[t] => fresh[t] /\ env' = env
    BY <1>0, <1>1, <2>1, SettingsAssumption DEF EditEnv, Rewritten, SettingsTypeOK, EnvTexts
  <2> QED
    BY <1>0, <1>1, <2>2 DEF EditEnv, SettingsInv, SettingsTypeOK, Remembered, UpToDate, Found
<1>2. CASE EditDeclaration
  BY <1>0, <1>2, SettingsAssumption
  DEF EditDeclaration, SettingsInv, SettingsTypeOK, Remembered, UpToDate, Found
<1>3. CASE DrawCard
  BY <1>0, <1>3 DEF DrawCard, SettingsInv, SettingsTypeOK, Remembered, UpToDate, Found
<1>4. ASSUME NEW t \in Tabs, OpenForm(t) PROVE SettingsInv'
  <2>1. NoEnv \in EnvTexts /\ Answers([k \in Declares |-> Through(k, Current(env, k))])
    BY <1>0, OpenedType DEF NoEnv, EnvTexts, SettingsTypeOK
  <2>2. shown'[t] = [k \in Declares |-> Through(k, Current(env, k))] /\ DOMAIN shown' = Tabs
    BY <1>0, <1>4 DEF OpenForm, SettingsTypeOK
  <2>3. Aside(t)
    BY <1>0, <1>4 DEF OpenForm, Aside, SettingsTypeOK
  <2>4. SettingsTypeOK'
    BY <1>0, <1>4, <2>1, <2>2, <2>3 DEF OpenForm, SettingsTypeOK, Answers, Aside
  <2>5. FormSound(t)'
    BY <1>0, <1>4, <2>2 DEF OpenForm, SettingsTypeOK, FormSound
  <2> QED
    BY <2>3, <2>4, <2>5, OtherTabs
<1>5. ASSUME NEW t \in Tabs, NEW k \in Settings, NEW v \in EnvValues, Fill(t, k, v) PROVE SettingsInv'
  <2>1. shown[t] \in [Settings -> EnvValues] /\ DOMAIN shown = Tabs
    BY <1>0, <1>5 DEF Fill, SettingsTypeOK
  <2>2. shown'[t] = [shown[t] EXCEPT ![k] = v] /\ DOMAIN shown' = Tabs
        /\ touched'[t] = touched[t] \union {k}
    BY <1>0, <1>5, <2>1 DEF Fill, SettingsTypeOK
  <2>3. Aside(t)
    BY <1>0, <1>5 DEF Fill, Aside, SettingsTypeOK
  <2>4. SettingsTypeOK'
    BY <1>0, <1>5, <2>1, <2>2, <2>3 DEF Fill, SettingsTypeOK, Aside
  <2>5. FormSound(t)'
    BY <1>0, <1>5, <2>1, <2>2, SettingsInvIsSound DEF Fill, SettingsTypeOK, FormSound
  <2> QED
    BY <2>3, <2>4, <2>5, OtherTabs
<1>6. ASSUME NEW t \in Tabs, OpenPanel(t) PROVE SettingsInv'
  <2>1. Answers(shown[t]) /\ env \in EnvTexts /\ editor[t] \in EnvTexts
    BY <1>0 DEF SettingsTypeOK, Answers
  <2>2. Preview(t) \in EnvTexts
    BY <2>1, PatchedType DEF Preview
  <2>3. Aside(t)
    BY <1>0, <1>6 DEF OpenPanel, Aside, SettingsTypeOK
  <2>4. SettingsTypeOK'
    BY <1>0, <1>6, <2>1, <2>2 DEF OpenPanel, SettingsTypeOK
  <2>5. FormSound(t)'
    BY <1>0, <1>6, SettingsInvIsSound DEF OpenPanel, MayReplace, Preview, SettingsTypeOK, FormSound
  <2> QED
    BY <2>3, <2>4, <2>5, OtherTabs
<1>7. ASSUME NEW t \in Tabs, ClosePanel(t) PROVE SettingsInv'
  BY <1>0, <1>7 DEF ClosePanel, SettingsInv, SettingsTypeOK, Remembered, UpToDate, Found
<1>8. ASSUME NEW t \in Tabs, TypeText(t) PROVE SettingsInv'
  <2>1. PICK text \in Drafts \ {editor[t]} :
          /\ editor' = [editor EXCEPT ![t] = text]
          /\ mine'   = [mine EXCEPT ![t] = IF text = seeded[t] THEN NoText ELSE text]
    BY <1>8 DEF TypeText
  <2>2. text \in EnvTexts /\ text # NoText
    BY SettingsAssumption
  <2>3. Aside(t)
    BY <1>0, <1>8, <2>1 DEF TypeText, Aside, SettingsTypeOK
  <2>4. SettingsTypeOK'
    BY <1>0, <1>8, <2>1, <2>2 DEF TypeText, SettingsTypeOK
  <2>5. FormSound(t)'
    BY <1>0, <1>8, <2>1, <2>2, SettingsInvIsSound DEF TypeText, SettingsTypeOK, FormSound
  <2> QED
    BY <2>3, <2>4, <2>5, OtherTabs
<1>9. ASSUME NEW t \in Tabs, SaveDialog(t) PROVE SettingsInv'
  <2>1. Answers(shown[t]) /\ env \in EnvTexts /\ editor[t] \in EnvTexts
    BY <1>0 DEF SettingsTypeOK, Answers
  <2>2. Bytes(t) \in EnvTexts /\ NoEnv \in EnvTexts
    BY <2>1, PatchedType DEF Bytes, NoEnv, EnvTexts
  <2>3. Aside(t)
    BY <1>0, <1>9 DEF SaveDialog, Gone, Aside, SettingsTypeOK
  <2>4. SettingsTypeOK'
    BY <1>0, <1>9, <2>2, <2>3 DEF SaveDialog, Gone, SettingsTypeOK, Aside
  <2>5. FormSound(t)'
    BY <1>0, <1>9 DEF SaveDialog, SettingsTypeOK, FormSound
  <2> QED
    BY <2>3, <2>4, <2>5, OtherTabs
<1>10. ASSUME NEW t \in Tabs, Cancel(t) PROVE SettingsInv'
  <2>1. NoEnv \in EnvTexts
    BY DEF NoEnv, EnvTexts
  <2>2. Aside(t)
    BY <1>0, <1>10 DEF Cancel, Gone, Aside, SettingsTypeOK
  <2>3. SettingsTypeOK'
    BY <1>0, <1>10, <2>1, <2>2 DEF Cancel, Gone, SettingsTypeOK, Aside
  <2>4. FormSound(t)'
    BY <1>0, <1>10 DEF Cancel, SettingsTypeOK, FormSound
  <2> QED
    BY <2>2, <2>3, <2>4, OtherTabs
<1>11. CASE CliReads
  <2>1. PICK resets \in SUBSET Settings, said \in Sayings :
          /\ said[2] # Unset
          /\ cli' = [k \in Settings |-> IF k = said[1] THEN said[2]
                                      ELSE IF k \in resets THEN Default[k] ELSE Current(env, k)]
    BY <1>11 DEF CliReads
  <2>2. said[2] \in EnvValues
    BY <2>1, SettingsAssumption
  <2>3. cli' \in [Settings -> EnvValues]
    BY <1>0, <2>1, <2>2, CurrentType, SettingsAssumption DEF SettingsTypeOK
  <2> QED
    BY <1>0, <1>11, <2>3 DEF CliReads, SettingsInv, SettingsTypeOK, Remembered, UpToDate, Found
<1>12. CASE CliSaves
  <2>1. Patched(env, cli) \in EnvTexts /\ env \in EnvTexts
    BY <1>0, PatchedType DEF SettingsTypeOK, Answers
  <2>2. env' \in EnvTexts /\ fresh' \in [Tabs -> BOOLEAN] /\ DOMAIN cli' = {}
        /\ \A t \in Tabs : fresh'[t] => fresh[t] /\ env' = env
    BY <1>0, <1>12, <2>1 DEF CliSaves, Rewritten, SettingsTypeOK
  <2> QED
    BY <1>0, <1>12, <2>2 DEF CliSaves, SettingsInv, SettingsTypeOK, Remembered, UpToDate, Found
<1>13. CASE UNCHANGED SettingsVars
  BY <1>0, <1>13 DEF SettingsVars, SettingsInv, SettingsTypeOK, Remembered, UpToDate, Found
<1>14. ASSUME NEW t \in Tabs, Answer(t) \/ Reset(t) PROVE SettingsInv'
  BY <1>5, <1>14, ThroughType, SettingsAssumption DEF Answer, Reset
<1> QED
  BY <1>1, <1>2, <1>3, <1>4, <1>6, <1>7, <1>8, <1>9, <1>10, <1>11, <1>12, <1>13, <1>14
  DEF SettingsNext, Dialog

-----------------------------------------------------------------------------
(* The theorems *)

\* The invariant holds in every behaviour.
THEOREM SettingsInvariant == SettingsSpec => []SettingsInv
BY SettingsInitInv, SettingsInvStep, PTL DEF SettingsSpec

\* Every variable keeps its type: whatever is typed, saved or edited by hand, a .env, a
\* panel and an open form are of the keys and values there are.
THEOREM SettingsTypeCorrect == SettingsSpec => []SettingsTypeOK
<1>1. SettingsInv => SettingsTypeOK
  BY DEF SettingsInv
<1> QED
  BY <1>1, SettingsInvariant, PTL

\* A save is of one tab, and writes that tab's bytes.
LEMMA SaveStep ==
  ASSUME SettingsInv, [SettingsNext]_SettingsVars, NEW t \in Tabs, SavesNow(t)
  PROVE  SaveDialog(t)
<1>0. SettingsTypeOK
  BY DEF SettingsInv
<1> USE <1>0 DEF SavesNow, SettingsTypeOK, formVars, historyVars
<1>1. form'[t] # form[t]
  OBVIOUS
<1>2. ~(EditEnv \/ EditDeclaration \/ DrawCard \/ CliReads \/ CliSaves)
  BY <1>1 DEF EditEnv, EditDeclaration, DrawCard, CliReads, CliSaves
<1>3. form' # form
  BY <1>1
<1>4. PICK u \in Tabs : Dialog(u)
  BY <1>2, <1>3 DEF SettingsNext, SettingsVars
<1>5. ~(Answer(u) \/ Reset(u) \/ OpenPanel(u) \/ ClosePanel(u) \/ TypeText(u))
  BY <1>3 DEF Answer, Reset, Fill, OpenPanel, ClosePanel, TypeText
<1>6. ~OpenForm(u) /\ ~Cancel(u)
  BY DEF OpenForm, Cancel
<1>7. SaveDialog(u)
  BY <1>4, <1>5, <1>6 DEF Dialog
<1> QED
  BY <1>1, <1>7 DEF SaveDialog

\* What a user typed in the panel stays until they type again, and is what a save writes;
\* and a save of the form writes what an up-to-date panel shows.
THEOREM PanelTells == SettingsSpec => PanelIsTheWrite
<1>1. SettingsInv /\ [SettingsNext]_SettingsVars =>
        [ \A t \in Tabs : form[t] = "open" /\ mine[t] # NoText =>
            /\ form'[t] = "open" /\ mine'[t] = mine[t] => editor'[t] = mine[t]
            /\ SavesNow(t) => env' = mine[t] ]_SettingsVars
  <2> SUFFICES ASSUME SettingsInv, [SettingsNext]_SettingsVars,
                      NEW t \in Tabs, form[t] = "open", mine[t] # NoText
               PROVE  /\ form'[t] = "open" /\ mine'[t] = mine[t] => editor'[t] = mine[t]
                      /\ SavesNow(t) => env' = mine[t]
    OBVIOUS
  <2>1. form'[t] = "open" /\ mine'[t] = mine[t] => editor'[t] = mine[t]
    BY SettingsInvStep DEF SettingsInv, Remembered
  <2>2. SavesNow(t) => env' = mine[t]
    BY SaveStep DEF SettingsInv, Remembered, SaveDialog, Bytes
  <2> QED
    BY <2>1, <2>2
<1>2. SettingsInv /\ [SettingsNext]_SettingsVars =>
        [ \A t \in Tabs : SavesNow(t) /\ fresh[t] => env' = editor[t] ]_SettingsVars
  <2> SUFFICES ASSUME SettingsInv, [SettingsNext]_SettingsVars, NEW t \in Tabs, SavesNow(t), fresh[t]
               PROVE  env' = editor[t]
    OBVIOUS
  <2> QED
    BY SaveStep DEF SettingsInv, UpToDate, SavesNow, SaveDialog, Bytes
<1> QED
  BY <1>1, <1>2, SettingsInvariant, PTL DEF SettingsSpec, PanelIsTheWrite, HandEditsWin, PreviewIsTheWrite

\* A save of the form leaves a field its user never touched as the dialog found it.
THEOREM UntouchedStay == SettingsSpec => UntouchedAsOpened
<1>1. SettingsInv /\ [SettingsNext]_SettingsVars =>
        [ \A t \in Tabs : SavesNow(t) /\ editor[t] = seeded[t] =>
            \A k \in DOMAIN shown[t] \ touched[t] :
              LET then == IF began[t][k] = Unset THEN Default[k] ELSE began[t][k] IN
              env'[k] = IF Through(k, then) = Blank THEN Unset ELSE Through(k, then) ]_SettingsVars
  <2> SUFFICES ASSUME SettingsInv, [SettingsNext]_SettingsVars, NEW t \in Tabs, SavesNow(t),
                      editor[t] = seeded[t], NEW k \in DOMAIN shown[t] \ touched[t]
               PROVE  env'[k] = IF Through(k, Current(began[t], k)) = Blank
                                THEN Unset ELSE Through(k, Current(began[t], k))
    BY DEF Current
  <2>1. env' = Patched(env, shown[t])
    BY SaveStep DEF SaveDialog, Bytes
  <2>2. env \in EnvTexts /\ Answers(shown[t])
    BY DEF SettingsInv, SettingsTypeOK, Answers
  <2>3. shown[t][k] = Through(k, Current(began[t], k))
    BY DEF SettingsInv, Found, SavesNow
  <2> QED
    BY <2>1, <2>2, <2>3, PatchedType
<1> QED
  BY <1>1, SettingsInvariant, PTL DEF SettingsSpec, UntouchedAsOpened

-----------------------------------------------------------------------------
(* Induction, over sets: every set of numbers has a least, so a set that has zero, and with
   a number the next, has them all; and so for the texts and their characters.  The
   functions that texts are read and written with then exist, and take a step at a time. *)

\* Every set of numbers has a least one.
LEMMA LeastNumber ==
  ASSUME NEW T \in SUBSET Nat, T # {}
  PROVE  \E x \in T : \A y \in T : x <= y
<1> DEFINE R == {ss \in Nat \X Nat : ss[1] < ss[2]}
<1>1. IsWellFoundedOn(R, Nat)
  BY NatLessThanWellFounded DEF OpToRel
<1>2. \A x, y \in Nat : <<y, x>> \in R <=> y < x
  OBVIOUS
<1> HIDE DEF R
<1>3. \E x \in T : \A y \in T : ~ (<<y, x>> \in R)
  BY <1>1, WFMin, Zenon
<1>4. \A x, y \in T : ~(y < x) => x <= y
  OBVIOUS
<1> QED
  BY <1>2, <1>3, <1>4

\* Induction over numbers, for the set of those that have a property.
LEMMA NumberInduction ==
  ASSUME NEW T \in SUBSET Nat, 0 \in T, \A n \in T : n + 1 \in T
  PROVE  T = Nat
<1> SUFFICES ASSUME T # Nat PROVE FALSE
  OBVIOUS
<1>1. PICK m \in Nat \ T : \A y \in Nat \ T : m <= y
  <2>1. Nat \ T \in SUBSET Nat /\ Nat \ T # {}
    OBVIOUS
  <2> QED
    BY <2>1, LeastNumber, Zenon
<1>2. m # 0 /\ m - 1 \in Nat /\ (m - 1) + 1 = m
  BY <1>1
<1>3. m - 1 \in T
  BY <1>1, <1>2
<1> QED
  BY <1>1, <1>2, <1>3

\* A sequence is its last element behind the others.
LEMMA LastApart ==
  ASSUME NEW S, NEW s \in Seq(S), NEW n \in Nat, Len(s) = n + 1
  PROVE  s = Append(SubSeq(s, 1, n), s[n + 1])
<1> DEFINE q == SubSeq(s, 1, n)
           d == s[n + 1]
<1>1. q \in Seq(S) /\ Len(q) = n /\ d \in S /\ \A i \in 1..n : q[i] = s[i]
  OBVIOUS
<1> HIDE DEF q, d
<1>2. /\ Append(q, d) \in Seq(S) /\ Len(Append(q, d)) = n + 1 /\ Append(q, d)[n + 1] = d
      /\ \A i \in 1..n : Append(q, d)[i] = q[i]
  BY <1>1, AppendProperties
<1>3. \A i \in 1..(n + 1) : i = n + 1 \/ i \in 1..n
  OBVIOUS
<1>4. \A i \in 1..(n + 1) : Append(q, d)[i] = s[i]
  BY <1>1, <1>2, <1>3 DEF d
<1>5. Append(q, d) = s
  BY <1>2, <1>4, SeqEqual
<1> QED
  BY <1>5 DEF q, d

\* And over sequences, which grow by one element at a time.
LEMMA SequenceInduction ==
  ASSUME NEW S, NEW T \in SUBSET Seq(S), <<>> \in T, \A s \in T, d \in S : Append(s, d) \in T
  PROVE  T = Seq(S)
<1> DEFINE N == {n \in Nat : \A s \in Seq(S) : Len(s) = n => s \in T}
<1>1. 0 \in N
  <2>1. \A s \in Seq(S) : Len(s) = 0 => s = <<>>
    OBVIOUS
  <2> QED
    BY <2>1
<1>2. ASSUME NEW n \in N PROVE n + 1 \in N
  <2>1. ASSUME NEW s \in Seq(S), Len(s) = n + 1 PROVE s \in T
    <3>1. /\ SubSeq(s, 1, n) \in Seq(S) /\ Len(SubSeq(s, 1, n)) = n /\ s[n + 1] \in S
          /\ \A i \in 1..n : SubSeq(s, 1, n)[i] = s[i]
      BY <1>2, <2>1
    <3>2. s = Append(SubSeq(s, 1, n), s[n + 1])
      BY <1>2, <2>1, LastApart
    <3>3. SubSeq(s, 1, n) \in T
      BY <1>2, <3>1
    <3> QED
      BY <3>1, <3>2, <3>3
  <2> QED
    BY <1>2, <2>1
<1> HIDE DEF N
<1>3. N = Nat
  <2>1. N \in SUBSET Nat
    BY DEF N
  <2> QED
    BY <1>1, <1>2, <2>1, NumberInduction, Zenon
<1>4. \A s \in Seq(S) : Len(s) \in Nat
  OBVIOUS
<1>5. \A s \in Seq(S) : s \in T
  BY <1>3, <1>4 DEF N
<1> QED
  BY <1>5


\* g makes the n-th value of S from the one before, and f is what it makes of b.
StepIn(g, N, S) == g \in [(1..N) \X S -> S]
MadeBy(f, g, b, N, S) ==
  f \in [0..N -> S] /\ f[0] = b /\ \A n \in 1..N : f[n] = g[<<n, f[n - 1]>>]

\* A function whose values each follow from the one before exists.
LEMMA MadeByExists ==
  ASSUME NEW S, NEW b \in S, NEW N \in Nat, NEW g, StepIn(g, N, S)
  PROVE  \E f : MadeBy(f, g, b, N, S)
<1>0. g \in [(1..N) \X S -> S]
  BY DEF StepIn
<1> DEFINE Up(m) == m <= N => \E f \in [0..m -> S] : f[0] = b /\ \A n \in 1..m : f[n] = g[<<n, f[n - 1]>>]
           T == {m \in Nat : Up(m)}
<1>1. 0 \in T
  <2>1. [k \in 0..0 |-> b] \in [0..0 -> S] /\ [k \in 0..0 |-> b][0] = b /\ 1..0 = {}
    OBVIOUS
  <2> QED
    BY <2>1
<1>2. ASSUME NEW m \in T PROVE m + 1 \in T
  <2> SUFFICES ASSUME m + 1 <= N
               PROVE  \E h \in [0..m + 1 -> S] : h[0] = b /\ \A n \in 1..m + 1 : h[n] = g[<<n, h[n - 1]>>]
    BY <1>2
  <2>1. PICK f \in [0..m -> S] : f[0] = b /\ \A n \in 1..m : f[n] = g[<<n, f[n - 1]>>]
    BY <1>2
  <2> DEFINE h == [k \in 0..m + 1 |-> IF k <= m THEN f[k] ELSE g[<<m + 1, f[m]>>]]
  <2>2. m \in Nat /\ m \in 0..m /\ m + 1 \in 1..N
    BY <1>2
  <2>3. g[<<m + 1, f[m]>>] \in S
    BY <1>0, <2>1, <2>2
  <2>4. h \in [0..m + 1 -> S]
    BY <2>1, <2>2, <2>3
  <2>5. h[0] = b /\ \A n \in 1..m + 1 : h[n] = g[<<n, h[n - 1]>>]
    <3>1. h[0] = b
      BY <2>1, <2>2
    <3>2. ASSUME NEW n \in 1..m PROVE h[n] = g[<<n, h[n - 1]>>]
      <4>1. n <= m /\ n \in 0..m + 1 /\ n - 1 <= m /\ n - 1 \in 0..m + 1
        BY <2>2, <3>2
      <4>2. h[n] = f[n] /\ h[n - 1] = f[n - 1]
        BY <4>1
      <4> QED
        BY <2>1, <4>2
    <3>3. h[m + 1] = g[<<m + 1, h[m]>>]
      <4>1. m + 1 \in 0..m + 1 /\ ~(m + 1 <= m) /\ m \in 0..m + 1 /\ m <= m
        BY <2>2
      <4> QED
        BY <4>1
    <3>4. \A n \in 1..m + 1 : n \in 1..m \/ (n = m + 1 /\ n - 1 = m)
      BY <2>2
    <3> HIDE DEF h
    <3> QED
      BY <3>1, <3>2, <3>3, <3>4
  <2> QED
    BY <2>4, <2>5
<1> HIDE DEF Up
<1>3. T = Nat
  <2>1. T \in SUBSET Nat
    OBVIOUS
  <2> HIDE DEF T
  <2> QED
    BY <1>1, <1>2, <2>1, NumberInduction, Zenon
<1>4. Up(N)
  BY <1>3
<1> QED
  BY <1>4 DEF Up, MadeBy

\* Two that begin alike and go on alike are the same.
LEMMA StepsAgree ==
  ASSUME NEW N \in Nat, NEW U, NEW V, U[0] = V[0],
         \A n \in 1..N : U[n - 1] = V[n - 1] => U[n] = V[n]
  PROVE  \A n \in 0..N : U[n] = V[n]
<1> DEFINE T == {n \in Nat : n <= N => U[n] = V[n]}
<1>1. 0 \in T
  OBVIOUS
<1>2. ASSUME NEW n \in T PROVE n + 1 \in T
  <2>1. n \in Nat /\ n + 1 \in Nat /\ (n <= N => U[n] = V[n])
    BY <1>2
  <2>2. n + 1 <= N => n <= N /\ n + 1 \in 1..N /\ (n + 1) - 1 = n
    BY <2>1
  <2> QED
    BY <2>1, <2>2
<1>3. T = Nat
  <2>1. T \in SUBSET Nat
    OBVIOUS
  <2> HIDE DEF T
  <2> QED
    BY <1>1, <1>2, <2>1, NumberInduction, Zenon
<1> QED
  BY <1>3

Strings == Seq(Chars)
Piece(d, c, with) == IF d = c THEN with ELSE <<d>>

\* A text made one character after another, each step from the one before.
ReplacedTo(U, text, c, with) ==
  /\ U \in [0..Len(text) -> Strings] /\ U[0] = <<>>
  /\ \A n \in 1..Len(text) : U[n] = U[n - 1] \o Piece(text[n], c, with)

\* Letters are no marks, and texts are put together of texts and characters.
LEMMA CharKinds ==
  /\ Letters \subseteq Chars /\ Marks \subseteq Chars
  /\ \A d \in Letters : d \notin Marks
  /\ <<>> \in Strings /\ \A d \in Chars : <<d>> \in Strings
  /\ \A s, u \in Strings : s \o u \in Strings
  /\ \A s \in Strings, d \in Chars : Append(s, d) \in Strings /\ Append(s, d) = s \o <<d>>
  /\ \A s \in Strings : Len(s) \in Nat /\ \A n \in 1..Len(s) : s[n] \in Chars
<1>1. Letters \subseteq Chars /\ Marks \subseteq Chars /\ \A d \in Letters : d \notin Marks
  BY EnvValueAssumption DEF Chars
<1>2. <<>> \in Strings /\ \A d \in Chars : <<d>> \in Strings
  BY DEF Strings
<1>3. \A s, u \in Strings : s \o u \in Strings
  BY DEF Strings
<1>4. \A s \in Strings, d \in Chars : Append(s, d) \in Strings
  BY DEF Strings
<1>5. \A s \in Strings : Len(s) \in Nat /\ \A n \in 1..Len(s) : s[n] \in Chars
  BY DEF Strings
<1>6. \A s \in Strings, d \in Chars : Append(s, d) = s \o <<d>>
  BY AppendIsConcat, Zenon DEF Strings
<1> QED
  BY <1>1, <1>2, <1>3, <1>4, <1>5, <1>6

\* What Replaced goes through: there is such a function, and it is that one.
LEMMA ReplacedRuns ==
  ASSUME NEW text \in Strings, NEW c, NEW with \in Strings
  PROVE  \E U : ReplacedTo(U, text, c, with) /\ Replaced(text, c, with) = U[Len(text)]
<1> DEFINE N == Len(text)
           piece(n) == Piece(text[n], c, with)
           g == [p \in (1..N) \X Strings |-> p[2] \o piece(p[1])]
           Is(u) == u = [n \in 0..N |-> IF n = 0 THEN <<>> ELSE u[n - 1] \o piece(n)]
           b == <<>>
           U == CHOOSE u : Is(u)
<1>1. N \in Nat /\ b \in Strings /\ \A n \in 1..N : text[n] \in Chars
  BY CharKinds
<1>2. \A n \in 1..N : piece(n) \in Strings
  BY <1>1, CharKinds DEF Piece
<1>3. StepIn(g, N, Strings)
  <2>1. \A p \in (1..N) \X Strings : p[2] \o piece(p[1]) \in Strings
    BY <1>2, CharKinds
  <2> QED
    BY <2>1 DEF StepIn
<1>4. \A n \in 1..N : \A s \in Strings : g[<<n, s>>] = s \o piece(n)
  OBVIOUS
<1>5. Replaced(text, c, with) = U[N]
  BY DEF Replaced, Piece
<1> HIDE DEF N, piece, g, b, U
<1>6. PICK f : MadeBy(f, g, b, N, Strings)
  BY <1>1, <1>3, MadeByExists, Zenon
<1>7. /\ f \in [0..N -> Strings] /\ f[0] = <<>>
      /\ \A n \in 1..N : f[n] = f[n - 1] \o piece(n)
  <2>1. f \in [0..N -> Strings] /\ f[0] = <<>> /\ \A n \in 1..N : f[n] = g[<<n, f[n - 1]>>]
    BY <1>6 DEF MadeBy, b
  <2>2. \A n \in 1..N : f[n - 1] \in Strings
    BY <1>1, <2>1
  <2> QED
    BY <1>4, <2>1, <2>2
<1>8. Is(f)
  <2>1. \A n \in 0..N : f[n] = IF n = 0 THEN <<>> ELSE f[n - 1] \o piece(n)
    BY <1>1, <1>7
  <2> QED
    BY <1>7, <2>1
<1>9. Is(U)
  <2> HIDE DEF Is
  <2> QED
    BY <1>8, Zenon DEF U
<1>10. /\ DOMAIN U = 0..N /\ U = [n \in 0..N |-> U[n]] /\ U[0] = <<>>
       /\ \A n \in 1..N : U[n] = U[n - 1] \o piece(n)
  <2>1. \A n \in 0..N : U[n] = IF n = 0 THEN <<>> ELSE U[n - 1] \o piece(n)
    BY <1>1, <1>9
  <2>2. DOMAIN U = 0..N /\ U = [n \in 0..N |-> U[n]]
    BY <1>1, <1>9
  <2>3. 0 \in 0..N /\ \A n \in 1..N : n \in 0..N /\ n # 0
    BY <1>1
  <2> QED
    BY <2>1, <2>2, <2>3
<1> HIDE DEF Is
<1>11. \A n \in 0..N : U[n] = f[n]
  <2>1. U[0] = f[0] /\ \A n \in 1..N : U[n - 1] = f[n - 1] => U[n] = f[n]
    BY <1>7, <1>10
  <2> QED
    BY <1>1, <2>1, StepsAgree, Zenon
<1>12. U \in [0..N -> Strings]
  BY <1>7, <1>10, <1>11
<1> QED
  BY <1>5, <1>10, <1>12 DEF ReplacedTo, N, piece

\* Replacing in a text is replacing in its characters, one after the other.
LEMMA ReplacedAppend ==
  ASSUME NEW s \in Strings, NEW d \in Chars, NEW c, NEW with \in Strings
  PROVE  Replaced(Append(s, d), c, with) = Replaced(s, c, with) \o Piece(d, c, with)
<1> DEFINE t == Append(s, d)
           N == Len(s)
<1>1. t \in Strings /\ N \in Nat /\ Len(t) = N + 1 /\ t[N + 1] = d /\ \A n \in 1..N : t[n] = s[n]
  BY DEF Strings
<1> HIDE DEF t
<1>2. PICK U : ReplacedTo(U, s, c, with) /\ Replaced(s, c, with) = U[N]
  BY ReplacedRuns
<1>3. PICK V : ReplacedTo(V, t, c, with) /\ Replaced(t, c, with) = V[N + 1]
  BY <1>1, ReplacedRuns
<1>4. U[0] = <<>> /\ \A n \in 1..N : U[n] = U[n - 1] \o Piece(s[n], c, with)
  BY <1>2 DEF ReplacedTo
<1>5. V[0] = <<>> /\ \A n \in 1..(N + 1) : V[n] = V[n - 1] \o Piece(t[n], c, with)
  BY <1>1, <1>3 DEF ReplacedTo
<1> HIDE DEF N
<1>6. U[0] = V[0] /\ \A n \in 1..N : U[n - 1] = V[n - 1] => U[n] = V[n]
  <2>1. \A n \in 1..N : n \in 1..(N + 1)
    BY <1>1
  <2>2. \A n \in 1..N : V[n] = V[n - 1] \o Piece(s[n], c, with)
    BY <1>1, <1>5, <2>1
  <2> QED
    BY <1>4, <1>5, <2>2
<1>7. \A n \in 0..N : U[n] = V[n]
  <2>1. N \in Nat
    BY <1>1
  <2> QED
    BY <1>6, <2>1, StepsAgree, Zenon
<1>8. N \in 0..N /\ N + 1 \in 1..(N + 1) /\ (N + 1) - 1 = N
  BY <1>1
<1>9. V[N + 1] = V[N] \o Piece(d, c, with)
  BY <1>1, <1>5, <1>8
<1> QED
  BY <1>2, <1>3, <1>7, <1>8, <1>9 DEF t

\* Replacing makes a text, and of nothing nothing.
LEMMA ReplacedText ==
  ASSUME NEW s \in Strings, NEW c, NEW with \in Strings
  PROVE  Replaced(s, c, with) \in Strings /\ Replaced(<<>>, c, with) = <<>>
<1>1. PICK U : ReplacedTo(U, s, c, with) /\ Replaced(s, c, with) = U[Len(s)]
  BY ReplacedRuns
<1>2. Len(s) \in 0..Len(s)
  BY CharKinds
<1>3. <<>> \in Strings /\ Len(<<>>) = 0
  BY CharKinds
<1>4. PICK V : ReplacedTo(V, <<>>, c, with) /\ Replaced(<<>>, c, with) = V[Len(<<>>)]
  BY <1>3, ReplacedRuns
<1> QED
  BY <1>1, <1>2, <1>3, <1>4 DEF ReplacedTo

\* Induction over texts.
LEMMA StringInduction ==
  ASSUME NEW T \in SUBSET Strings, <<>> \in T, \A s \in T, d \in Chars : Append(s, d) \in T
  PROVE  T = Strings
<1>1. T \in SUBSET Seq(Chars)
  BY DEF Strings
<1> QED
  BY <1>1, SequenceInduction, Zenon DEF Strings

\* Texts one behind the other.
LEMMA StringsJoin ==
  /\ \A s, u, v \in Strings : (s \o u) \o v = s \o (u \o v)
  /\ \A s \in Strings : s \o <<>> = s /\ <<>> \o s = s
<1>1. \A s, u, v \in Strings : (s \o u) \o v = s \o (u \o v)
  <2> TAKE s, u, v \in Strings
  <2>1. s \in Seq(Chars) /\ u \in Seq(Chars) /\ v \in Seq(Chars)
    BY DEF Strings
  <2> QED
    BY <2>1, ConcatAssociative
<1>2. \A s \in Strings : s \o <<>> = s /\ <<>> \o s = s
  BY ConcatEmptySeq, Zenon DEF Strings
<1> QED
  BY <1>1, <1>2

\* A character added to the second of two texts is added to both.
LEMMA AppendOut ==
  ASSUME NEW s \in Strings, NEW u \in Strings, NEW d \in Chars
  PROVE  s \o Append(u, d) = Append(s \o u, d)
<1>1. s \o u \in Strings /\ <<d>> \in Strings
  BY CharKinds, Zenon
<1>2. Append(u, d) = u \o <<d>> /\ Append(s \o u, d) = (s \o u) \o <<d>>
  BY <1>1, CharKinds, Zenon
<1>3. (s \o u) \o <<d>> = s \o (u \o <<d>>)
  BY <1>1, StringsJoin, Zenon
<1> QED
  BY <1>2, <1>3

\* Two characters, one behind the other.
LEMMA AddOne ==
  ASSUME NEW d \in Chars, NEW e \in Chars
  PROVE  <<d>> \o <<e>> = <<d, e>>
<1>1. <<d>> \in Strings /\ Append(<<d>>, e) = <<d, e>>
  <2>1. <<d>> \in Strings
    BY CharKinds, Zenon
  <2>2. <<d>> \in Strings /\ <<d, e>> = Append(<<d>>, e)
    BY CharKinds
  <2> QED
    BY <2>1, <2>2
<1>2. Append(<<d>>, e) = <<d>> \o <<e>>
  BY <1>1, CharKinds, Zenon
<1> QED
  BY <1>1, <1>2

\* A text in two parts is replaced in by parts.
LEMMA ReplacedConcat ==
  ASSUME NEW s \in Strings, NEW c, NEW with \in Strings
  PROVE  \A u \in Strings : Replaced(s \o u, c, with) = Replaced(s, c, with) \o Replaced(u, c, with)
<1> DEFINE P(u) == Replaced(s \o u, c, with) = Replaced(s, c, with) \o Replaced(u, c, with)
           T == {u \in Strings : P(u)}
<1>1. <<>> \in T
  <2>1. <<>> \in Strings
    BY CharKinds
  <2>2. Replaced(s, c, with) \in Strings /\ Replaced(<<>>, c, with) = <<>>
    BY ReplacedText, Zenon
  <2>3. s \o <<>> = s /\ Replaced(s, c, with) \o <<>> = Replaced(s, c, with)
    BY <2>2, StringsJoin, Zenon
  <2> QED
    BY <2>1, <2>2, <2>3
<1>2. ASSUME NEW u \in T, NEW d \in Chars PROVE Append(u, d) \in T
  <2>1. u \in Strings /\ P(u) /\ Append(u, d) \in Strings /\ s \o u \in Strings
    BY <1>2, CharKinds
  <2>2. Piece(d, c, with) \in Strings
    BY CharKinds DEF Piece
  <2>3. Replaced(s \o Append(u, d), c, with) = Replaced(s \o u, c, with) \o Piece(d, c, with)
    <3>1. s \o Append(u, d) = Append(s \o u, d)
      BY <2>1, AppendOut, Zenon
    <3>2. Replaced(Append(s \o u, d), c, with) = Replaced(s \o u, c, with) \o Piece(d, c, with)
      <4>1. s \o u \in Strings
        BY <2>1
      <4> QED
        BY <4>1, ReplacedAppend, Zenon
    <3> QED
      BY <3>1, <3>2
  <2>4. Replaced(Append(u, d), c, with) = Replaced(u, c, with) \o Piece(d, c, with)
    BY <2>1, ReplacedAppend
  <2>5. Replaced(s, c, with) \in Strings /\ Replaced(u, c, with) \in Strings
    BY <2>1, ReplacedText
  <2>6. (Replaced(s, c, with) \o Replaced(u, c, with)) \o Piece(d, c, with)
          = Replaced(s, c, with) \o (Replaced(u, c, with) \o Piece(d, c, with))
    BY <2>2, <2>5, StringsJoin, Zenon
  <2> QED
    BY <2>1, <2>3, <2>4, <2>6
<1>3. T = Strings
  <2>1. T \in SUBSET Strings
    OBVIOUS
  <2> HIDE DEF T
  <2> QED
    BY <1>1, <1>2, <2>1, StringInduction, Zenon
<1> QED
  BY <1>3

\* A text with one character more has that one more.
LEMMA HasAppend ==
  ASSUME NEW s \in Strings, NEW d \in Chars, NEW c
  PROVE  Has(Append(s, d), c) <=> Has(s, c) \/ d = c
<1>1. /\ DOMAIN s = 1..Len(s) /\ Len(s) \in Nat /\ DOMAIN Append(s, d) = 1..(Len(s) + 1)
      /\ Append(s, d)[Len(s) + 1] = d /\ \A n \in 1..Len(s) : Append(s, d)[n] = s[n]
  BY DEF Strings
<1>2. \A n \in 1..(Len(s) + 1) : n \in 1..Len(s) \/ n = Len(s) + 1
  BY <1>1
<1>3. Len(s) + 1 \in 1..(Len(s) + 1) /\ \A n \in 1..Len(s) : n \in 1..(Len(s) + 1)
  BY <1>1
<1> QED
  BY <1>1, <1>2, <1>3 DEF Has

\* The same, said of what is replaced: a fact the provers can instantiate.
ByParts(c, with) ==
  \A s, u \in Strings : Replaced(s \o u, c, with) = Replaced(s, c, with) \o Replaced(u, c, with)

\* Every replacement goes by parts.
LEMMA ReplacedByParts ==
  ASSUME NEW c, NEW with \in Strings
  PROVE  ByParts(c, with)
BY ReplacedConcat DEF ByParts

\* Where there is nothing to replace, nothing is.
LEMMA ReplacedNone ==
  ASSUME NEW c, NEW with \in Strings
  PROVE  \A s \in Strings : ~Has(s, c) => Replaced(s, c, with) = s
<1> DEFINE T == {s \in Strings : ~Has(s, c) => Replaced(s, c, with) = s}
<1>1. <<>> \in T
  BY CharKinds, ReplacedText
<1>2. ASSUME NEW s \in T, NEW d \in Chars PROVE Append(s, d) \in T
  <2>1. s \in Strings /\ Append(s, d) \in Strings /\ Append(s, d) = s \o <<d>>
    BY <1>2, CharKinds
  <2>2. Has(Append(s, d), c) <=> Has(s, c) \/ d = c
    BY <2>1, HasAppend
  <2>3. Replaced(Append(s, d), c, with) = Replaced(s, c, with) \o Piece(d, c, with)
    BY <2>1, ReplacedAppend
  <2> QED
    BY <1>2, <2>1, <2>2, <2>3 DEF Piece
<1>3. T = Strings
  <2>1. T \in SUBSET Strings
    OBVIOUS
  <2> HIDE DEF T
  <2> QED
    BY <1>1, <1>2, <2>1, StringInduction, Zenon
<1> QED
  BY <1>3

\* A character alone.
LEMMA ReplacedChar ==
  ASSUME NEW d \in Chars, NEW c, NEW with \in Strings
  PROVE  Replaced(<<d>>, c, with) = Piece(d, c, with)
<1>1. <<>> \in Strings /\ <<d>> = Append(<<>>, d) /\ Piece(d, c, with) \in Strings
  BY CharKinds, StringsJoin DEF Piece
<1>2. Replaced(Append(<<>>, d), c, with) = Replaced(<<>>, c, with) \o Piece(d, c, with)
  BY <1>1, ReplacedAppend, Zenon
<1>3. Replaced(<<>>, c, with) = <<>>
  BY <1>1, ReplacedText, Zenon
<1>4. <<>> \o Piece(d, c, with) = Piece(d, c, with)
  BY <1>1, StringsJoin, Zenon
<1> QED
  BY <1>1, <1>2, <1>3, <1>4

PairByPieces(d, e, c, with) ==
  Replaced(<<d, e>>, c, with) = Piece(d, c, with) \o Piece(e, c, with)

\* And two.
LEMMA ReplacedPair ==
  ASSUME NEW d \in Chars, NEW e \in Chars, NEW c, NEW with \in Strings
  PROVE  PairByPieces(d, e, c, with)
<1>1. <<d>> \in Strings /\ <<d, e>> = Append(<<d>>, e)
  BY CharKinds
<1>2. Replaced(Append(<<d>>, e), c, with) = Replaced(<<d>>, c, with) \o Piece(e, c, with)
  BY <1>1, ReplacedAppend, Zenon
<1>3. Replaced(<<d>>, c, with) = Piece(d, c, with)
  BY ReplacedChar, Zenon
<1> QED
  BY <1>1, <1>2, <1>3 DEF PairByPieces

-----------------------------------------------------------------------------
\* What encode() makes of a character in double quotes.
EscapedChar(d) ==
  IF d \in {Backslash, DoubleQuote, "$"} THEN <<Backslash, d>>
  ELSE IF d = "nl" THEN <<Backslash, "n">> ELSE IF d = "cr" THEN <<Backslash, "r">> ELSE <<d>>

\* The characters encode() and the readers know, and pairs of characters.
LEMMA MarksAreApart ==
  /\ {Backslash, DoubleQuote, Apostrophe, "$", "nl", "cr", "ff", "tab", "#", " ", "n", "r"} \subseteq Chars
  /\ \A d, e \in Chars : <<d, e>> \in Strings
<1>1. {Backslash, DoubleQuote, Apostrophe, "$", "nl", "cr", "ff", "tab", "#", " "} \subseteq Marks
  BY DEF Marks, Spaces
<1>2. "n" \in Letters /\ "r" \in Letters
  BY EnvValueAssumption
<1>3. \A d, e \in Chars : <<d, e>> \in Strings
  BY DEF Strings
<1> QED
  BY <1>1, <1>2, <1>3, CharKinds

\* encode()'s five replacements, one over the other, escape each character by itself.
LEMMA EscapedAppend ==
  ASSUME NEW s \in Strings, NEW d \in Chars
  PROVE  Escaped(s) \in Strings /\ Escaped(Append(s, d)) = Escaped(s) \o EscapedChar(d)
<1> DEFINE R1(t) == Replaced(t, Backslash, <<Backslash, Backslash>>)
           R2(t) == Replaced(t, DoubleQuote, <<Backslash, DoubleQuote>>)
           R3(t) == Replaced(t, "$", <<Backslash, "$">>)
           R4(t) == Replaced(t, "nl", <<Backslash, "n">>)
           R5(t) == Replaced(t, "cr", <<Backslash, "r">>)
<1>1. \A t \in Strings : Escaped(t) = R5(R4(R3(R2(R1(t)))))
  BY DEF Escaped
<1>2. /\ <<Backslash, Backslash>> \in Strings /\ <<Backslash, DoubleQuote>> \in Strings
      /\ <<Backslash, "$">> \in Strings /\ <<Backslash, "n">> \in Strings /\ <<Backslash, "r">> \in Strings
  BY MarksAreApart
<1>3. \A t \in Strings : R1(t) \in Strings /\ R2(t) \in Strings /\ R3(t) \in Strings /\ R4(t) \in Strings /\ R5(t) \in Strings
  BY <1>2, ReplacedText
<1>4. \A t, u \in Strings :
        /\ R1(t \o u) = R1(t) \o R1(u) /\ R2(t \o u) = R2(t) \o R2(u) /\ R3(t \o u) = R3(t) \o R3(u)
        /\ R4(t \o u) = R4(t) \o R4(u) /\ R5(t \o u) = R5(t) \o R5(u)
  <2>1. ByParts(Backslash, <<Backslash, Backslash>>)
    BY <1>2, ReplacedByParts, Zenon
  <2>2. ByParts(DoubleQuote, <<Backslash, DoubleQuote>>)
    BY <1>2, ReplacedByParts, Zenon
  <2>3. ByParts("$", <<Backslash, "$">>)
    BY <1>2, ReplacedByParts, Zenon
  <2>4. ByParts("nl", <<Backslash, "n">>)
    BY <1>2, ReplacedByParts, Zenon
  <2>5. ByParts("cr", <<Backslash, "r">>)
    BY <1>2, ReplacedByParts, Zenon
  <2> QED
    BY <2>1, <2>2, <2>3, <2>4, <2>5, Zenon DEF ByParts
<1>5. EscapedChar(d) = R5(R4(R3(R2(R1(<<d>>)))))
  <2>1. /\ R1(<<d>>) = Piece(d, Backslash, <<Backslash, Backslash>>)
        /\ R2(<<d>>) = Piece(d, DoubleQuote, <<Backslash, DoubleQuote>>)
        /\ R3(<<d>>) = Piece(d, "$", <<Backslash, "$">>)
        /\ R4(<<d>>) = Piece(d, "nl", <<Backslash, "n">>)
        /\ R5(<<d>>) = Piece(d, "cr", <<Backslash, "r">>)
    BY <1>2, ReplacedChar
  <2>2. \A e \in {Backslash, DoubleQuote, "$", "n", "r"} :
          /\ e # DoubleQuote => R2(<<Backslash, e>>) = <<Backslash, e>>
          /\ e # "$" => R3(<<Backslash, e>>) = <<Backslash, e>>
          /\ R4(<<Backslash, e>>) = <<Backslash, e>> /\ R5(<<Backslash, e>>) = <<Backslash, e>>
    <3> TAKE e \in {Backslash, DoubleQuote, "$", "n", "r"}
    <3>1. e \in Chars /\ Backslash \in Chars
      BY MarksAreApart
    <3>2. <<Backslash>> \o <<e>> = <<Backslash, e>>
      BY <3>1, AddOne
    <3>3. \A c, with : PairByPieces(Backslash, e, c, with) <=>
                         Replaced(<<Backslash, e>>, c, with) = Piece(Backslash, c, with) \o Piece(e, c, with)
      BY Zenon DEF PairByPieces
    <3>4. /\ PairByPieces(Backslash, e, DoubleQuote, <<Backslash, DoubleQuote>>)
          /\ PairByPieces(Backslash, e, "$", <<Backslash, "$">>)
          /\ PairByPieces(Backslash, e, "nl", <<Backslash, "n">>)
          /\ PairByPieces(Backslash, e, "cr", <<Backslash, "r">>)
      <4>1. PairByPieces(Backslash, e, DoubleQuote, <<Backslash, DoubleQuote>>)
        BY <1>2, <3>1, ReplacedPair, Zenon
      <4>2. PairByPieces(Backslash, e, "$", <<Backslash, "$">>)
        BY <1>2, <3>1, ReplacedPair, Zenon
      <4>3. PairByPieces(Backslash, e, "nl", <<Backslash, "n">>)
        BY <1>2, <3>1, ReplacedPair, Zenon
      <4>4. PairByPieces(Backslash, e, "cr", <<Backslash, "r">>)
        BY <1>2, <3>1, ReplacedPair, Zenon
      <4> QED
        BY <4>1, <4>2, <4>3, <4>4
    <3> QED
      BY <3>2, <3>3, <3>4 DEF Piece, Backslash, DoubleQuote
  <2> HIDE DEF R1, R2, R3, R4, R5
  <2>3. CASE d = Backslash
    BY <2>1, <2>2, <2>3 DEF EscapedChar, Piece, Backslash, DoubleQuote
  <2>4. CASE d = DoubleQuote
    BY <2>1, <2>2, <2>4 DEF EscapedChar, Piece, Backslash, DoubleQuote
  <2>5. CASE d = "$"
    BY <2>1, <2>2, <2>5 DEF EscapedChar, Piece, Backslash, DoubleQuote
  <2>6. CASE d = "nl"
    BY <2>1, <2>2, <2>6 DEF EscapedChar, Piece, Backslash, DoubleQuote
  <2>7. CASE d = "cr"
    BY <2>1, <2>2, <2>7 DEF EscapedChar, Piece, Backslash, DoubleQuote
  <2>8. CASE d \notin {Backslash, DoubleQuote, "$", "nl", "cr"}
    BY <2>1, <2>8 DEF EscapedChar, Piece
  <2> QED
    BY <2>3, <2>4, <2>5, <2>6, <2>7, <2>8
<1>6. Append(s, d) = s \o <<d>> /\ <<d>> \in Strings /\ s \o <<d>> \in Strings
  BY CharKinds
<1> HIDE DEF R1, R2, R3, R4, R5
<1>7. R5(R4(R3(R2(R1(s \o <<d>>))))) = R5(R4(R3(R2(R1(s))))) \o R5(R4(R3(R2(R1(<<d>>)))))
  <2>1. R1(s \o <<d>>) = R1(s) \o R1(<<d>>)
         /\ R1(s) \in Strings /\ R1(<<d>>) \in Strings
    <3>1. R1(s \o <<d>>) = R1(s) \o R1(<<d>>)
      BY <1>4, <1>6, <1>6, Zenon
    <3>2. R1(s) \in Strings /\ R1(<<d>>) \in Strings
      BY <1>3, <1>6, CharKinds, Zenon
    <3> QED
      BY <3>1, <3>2
  <2>2. R2(R1(s \o <<d>>)) = R2(R1(s)) \o R2(R1(<<d>>))
         /\ R2(R1(s)) \in Strings /\ R2(R1(<<d>>)) \in Strings
    <3>1. R2(R1(s) \o R1(<<d>>)) = R2(R1(s)) \o R2(R1(<<d>>))
      BY <1>4, <2>1, Zenon
    <3>2. R2(R1(s)) \in Strings /\ R2(R1(<<d>>)) \in Strings
      BY <1>3, <2>1, Zenon
    <3> QED
      BY <3>1, <3>2, <2>1
  <2>3. R3(R2(R1(s \o <<d>>))) = R3(R2(R1(s))) \o R3(R2(R1(<<d>>)))
         /\ R3(R2(R1(s))) \in Strings /\ R3(R2(R1(<<d>>))) \in Strings
    <3>1. R3(R2(R1(s)) \o R2(R1(<<d>>))) = R3(R2(R1(s))) \o R3(R2(R1(<<d>>)))
      BY <1>4, <2>2, Zenon
    <3>2. R3(R2(R1(s))) \in Strings /\ R3(R2(R1(<<d>>))) \in Strings
      BY <1>3, <2>2, Zenon
    <3> QED
      BY <3>1, <3>2, <2>2
  <2>4. R4(R3(R2(R1(s \o <<d>>)))) = R4(R3(R2(R1(s)))) \o R4(R3(R2(R1(<<d>>))))
         /\ R4(R3(R2(R1(s)))) \in Strings /\ R4(R3(R2(R1(<<d>>)))) \in Strings
    <3>1. R4(R3(R2(R1(s))) \o R3(R2(R1(<<d>>)))) = R4(R3(R2(R1(s)))) \o R4(R3(R2(R1(<<d>>))))
      BY <1>4, <2>3, Zenon
    <3>2. R4(R3(R2(R1(s)))) \in Strings /\ R4(R3(R2(R1(<<d>>)))) \in Strings
      BY <1>3, <2>3, Zenon
    <3> QED
      BY <3>1, <3>2, <2>3
  <2>5. R5(R4(R3(R2(R1(s)))) \o R4(R3(R2(R1(<<d>>))))) = R5(R4(R3(R2(R1(s))))) \o R5(R4(R3(R2(R1(<<d>>)))))
    BY <1>4, <2>4, Zenon
  <2> QED
    BY <2>4, <2>5
<1>8. Escaped(s) \in Strings
  <2>1. R1(s) \in Strings
    BY <1>3
  <2>2. R2(R1(s)) \in Strings
    BY <1>3, <2>1
  <2>3. R3(R2(R1(s))) \in Strings
    BY <1>3, <2>2
  <2>4. R4(R3(R2(R1(s)))) \in Strings
    BY <1>3, <2>3
  <2> QED
    BY <1>1, <1>3, <2>4
<1> QED
  BY <1>1, <1>5, <1>6, <1>7, <1>8

States == [value : Strings, escaping : BOOLEAN, closed : BOOLEAN]

ReadTo(U, text, quote, interpolates) ==
  /\ U \in [0..Len(text) -> States] /\ U[0] = Opened
  /\ \A n \in 1..Len(text) : U[n] = ReadOn(U[n - 1], text[n], quote, interpolates)

\* A reader stays one of its states.
LEMMA ReadOnState ==
  ASSUME NEW was \in States, NEW c \in Chars, NEW quote, NEW interpolates
  PROVE  ReadOn(was, c, quote, interpolates) \in States
<1>1. Unescaped(c) \in Strings
  <2>1. \A d \in Chars : <<d>> \in Strings
    BY CharKinds
  <2>2. <<"nl">> \in Strings /\ <<"cr">> \in Strings /\ <<"tab">> \in Strings /\ <<c>> \in Strings
    BY <2>1, MarksAreApart
  <2>3. <<Backslash, c>> \in Strings
    BY MarksAreApart
  <2> HIDE DEF Strings
  <2> QED
    BY <2>2, <2>3 DEF Unescaped
<1>2. was.value \o Unescaped(c) \in Strings
  BY <1>1, CharKinds DEF States
<1>3. Append(was.value, c) \in Strings
  BY CharKinds DEF States
<1> HIDE DEF Strings
<1>4. [value |-> was.value \o Unescaped(c), escaping |-> FALSE, closed |-> FALSE] \in States
  BY <1>2 DEF States
<1>5. [was EXCEPT !.value = Append(@, c)] \in States
  BY <1>3 DEF States
<1>6. [was EXCEPT !.closed = TRUE] \in States /\ [was EXCEPT !.escaping = TRUE] \in States
  BY DEF States
<1> QED
  BY <1>4, <1>5, <1>6 DEF ReadOn

\* What Reading goes through.
LEMMA ReadingRuns ==
  ASSUME NEW text \in Strings, NEW quote, NEW interpolates
  PROVE  \E U : ReadTo(U, text, quote, interpolates)
                /\ Reading(text, quote, interpolates) = U[Len(text)]
<1> DEFINE N == Len(text)
           on(n, was) == ReadOn(was, text[n], quote, interpolates)
           g == [p \in (1..N) \X States |-> on(p[1], p[2])]
           Is(u) == u = [n \in 0..N |-> IF n = 0 THEN Opened ELSE on(n, u[n - 1])]
           U == CHOOSE u : Is(u)
<1>1. N \in Nat /\ \A n \in 1..N : text[n] \in Chars
  BY CharKinds
<1>2. \A n \in 1..N : \A was \in States : on(n, was) \in States
  BY <1>1, ReadOnState
<1>3. StepIn(g, N, States)
  <2> HIDE DEF on
  <2>1. \A p \in (1..N) \X States : on(p[1], p[2]) \in States
    BY <1>2
  <2> QED
    BY <2>1 DEF StepIn
<1>4. \A n \in 1..N : \A was \in States : g[<<n, was>>] = on(n, was)
  OBVIOUS
<1>5. Reading(text, quote, interpolates) = U[N]
  BY DEF Reading
<1>6. Opened \in States
  BY CharKinds DEF Opened, States
<1> HIDE DEF N, on, g, U
<1>7. PICK f : MadeBy(f, g, Opened, N, States)
  BY <1>1, <1>3, <1>6, MadeByExists, Zenon
<1>8. /\ f \in [0..N -> States] /\ f[0] = Opened
      /\ \A n \in 1..N : f[n] = on(n, f[n - 1])
  <2>1. f \in [0..N -> States] /\ f[0] = Opened /\ \A n \in 1..N : f[n] = g[<<n, f[n - 1]>>]
    BY <1>7 DEF MadeBy
  <2>2. \A n \in 1..N : f[n - 1] \in States
    BY <1>1, <2>1
  <2> QED
    BY <1>4, <2>1, <2>2
<1>9. Is(f)
  <2>1. \A n \in 0..N : f[n] = IF n = 0 THEN Opened ELSE on(n, f[n - 1])
    BY <1>1, <1>8
  <2> QED
    BY <1>8, <2>1
<1>10. Is(U)
  <2> HIDE DEF Is
  <2> QED
    BY <1>9, Zenon DEF U
<1>11. /\ DOMAIN U = 0..N /\ U = [n \in 0..N |-> U[n]] /\ U[0] = Opened
       /\ \A n \in 1..N : U[n] = on(n, U[n - 1])
  <2>1. \A n \in 0..N : U[n] = IF n = 0 THEN Opened ELSE on(n, U[n - 1])
    BY <1>1, <1>10
  <2>2. DOMAIN U = 0..N /\ U = [n \in 0..N |-> U[n]]
    BY <1>1, <1>10
  <2>3. 0 \in 0..N /\ \A n \in 1..N : n \in 0..N /\ n # 0
    BY <1>1
  <2> QED
    BY <2>1, <2>2, <2>3
<1> HIDE DEF Is
<1>12. \A n \in 0..N : U[n] = f[n]
  <2>1. U[0] = f[0] /\ \A n \in 1..N : U[n - 1] = f[n - 1] => U[n] = f[n]
    BY <1>8, <1>11
  <2> QED
    BY <1>1, <2>1, StepsAgree, Zenon
<1>13. U \in [0..N -> States]
  BY <1>8, <1>11, <1>12
<1> QED
  BY <1>5, <1>11, <1>13 DEF ReadTo, N, on

\* Reading goes one character further than it was.
LEMMA ReadingAppend ==
  ASSUME NEW s \in Strings, NEW d \in Chars, NEW quote, NEW interpolates
  PROVE  Reading(Append(s, d), quote, interpolates)
           = ReadOn(Reading(s, quote, interpolates), d, quote, interpolates)
<1> DEFINE t == Append(s, d)
           N == Len(s)
<1>1. t \in Strings /\ N \in Nat /\ Len(t) = N + 1 /\ t[N + 1] = d /\ \A n \in 1..N : t[n] = s[n]
  BY DEF Strings
<1> HIDE DEF t
<1>2. PICK U : ReadTo(U, s, quote, interpolates) /\ Reading(s, quote, interpolates) = U[N]
  BY ReadingRuns
<1>3. PICK V : ReadTo(V, t, quote, interpolates) /\ Reading(t, quote, interpolates) = V[N + 1]
  BY <1>1, ReadingRuns
<1>4. U[0] = Opened /\ \A n \in 1..N : U[n] = ReadOn(U[n - 1], s[n], quote, interpolates)
  BY <1>2 DEF ReadTo
<1>5. V[0] = Opened /\ \A n \in 1..(N + 1) : V[n] = ReadOn(V[n - 1], t[n], quote, interpolates)
  BY <1>1, <1>3 DEF ReadTo
<1> HIDE DEF N
<1>6. U[0] = V[0] /\ \A n \in 1..N : U[n - 1] = V[n - 1] => U[n] = V[n]
  <2>1. \A n \in 1..N : n \in 1..(N + 1)
    BY <1>1
  <2>2. \A n \in 1..N : V[n] = ReadOn(V[n - 1], s[n], quote, interpolates)
    BY <1>1, <1>5, <2>1
  <2> QED
    BY <1>4, <1>5, <2>2
<1>7. \A n \in 0..N : U[n] = V[n]
  <2>1. N \in Nat
    BY <1>1
  <2> QED
    BY <1>6, <2>1, StepsAgree, Zenon
<1>8. N \in 0..N /\ N + 1 \in 1..(N + 1) /\ (N + 1) - 1 = N
  BY <1>1
<1>9. V[N + 1] = ReadOn(V[N], d, quote, interpolates)
  BY <1>1, <1>5, <1>8
<1> QED
  BY <1>2, <1>3, <1>7, <1>8, <1>9 DEF t

\* Behind the opening quote, before anything is read.
LEMMA ReadingNothing ==
  ASSUME NEW quote, NEW interpolates
  PROVE  Reading(<<>>, quote, interpolates) = Opened
<1>1. <<>> \in Strings /\ Len(<<>>) = 0
  BY CharKinds
<1>2. PICK U : ReadTo(U, <<>>, quote, interpolates) /\ Reading(<<>>, quote, interpolates) = U[Len(<<>>)]
  BY <1>1, ReadingRuns
<1> QED
  BY <1>1, <1>2 DEF ReadTo

-----------------------------------------------------------------------------
LinesTo(U, text) ==
  /\ U \in [0..Len(text) -> Strings] /\ U[0] = <<>>
  /\ \A n \in 1..Len(text) :
       U[n] = IF text[n] = "nl" /\ n > 1 /\ text[n - 1] = "cr" THEN U[n - 1]
              ELSE Append(U[n - 1], IF text[n] \in {"cr", "ff"} THEN "nl" ELSE text[n])

\* What AsLines goes through.
LEMMA AsLinesRuns ==
  ASSUME NEW text \in Strings
  PROVE  \E U : LinesTo(U, text) /\ AsLines(text) = U[Len(text)]
<1> DEFINE N == Len(text)
           char(n) == IF text[n] \in {"cr", "ff"} THEN "nl" ELSE text[n]
           skipped(n) == text[n] = "nl" /\ n > 1 /\ text[n - 1] = "cr"
           on(n, s) == IF skipped(n) THEN s ELSE Append(s, char(n))
           g == [p \in (1..N) \X Strings |-> on(p[1], p[2])]
           Is(u) == u = [n \in 0..N |-> IF n = 0 THEN <<>> ELSE on(n, u[n - 1])]
           b == <<>>
           U == CHOOSE u : Is(u)
<1>1. N \in Nat /\ b \in Strings /\ \A n \in 1..N : text[n] \in Chars
  BY CharKinds
<1>2. \A n \in 1..N : \A s \in Strings : on(n, s) \in Strings
  <2>1. \A n \in 1..N : char(n) \in Chars
    BY <1>1, MarksAreApart
  <2> HIDE DEF char, skipped
  <2>2. \A n \in 1..N : \A s \in Strings : Append(s, char(n)) \in Strings
    BY <2>1, CharKinds
  <2> QED
    BY <2>2
<1>4. \A n \in 1..N : \A s \in Strings : g[<<n, s>>] = on(n, s)
  OBVIOUS
<1>5. AsLines(text) = U[N]
  <2>1. \A u : Is(u) <=> u = [n \in 0..N |-> IF n = 0 THEN <<>>
          ELSE IF text[n] = "nl" /\ n > 1 /\ text[n - 1] = "cr" THEN u[n - 1]
          ELSE Append(u[n - 1], IF text[n] \in {"cr", "ff"} THEN "nl" ELSE text[n])]
    OBVIOUS
  <2> QED
    BY DEF AsLines
<1> HIDE DEF char, skipped
<1>3. StepIn(g, N, Strings)
  <2> HIDE DEF on
  <2>1. \A p \in (1..N) \X Strings : on(p[1], p[2]) \in Strings
    BY <1>2
  <2> QED
    BY <2>1 DEF StepIn
<1> HIDE DEF N, on, g, b, U
<1>6. PICK f : MadeBy(f, g, b, N, Strings)
  BY <1>1, <1>3, MadeByExists, Zenon
<1>7. /\ f \in [0..N -> Strings] /\ f[0] = <<>>
      /\ \A n \in 1..N : f[n] = on(n, f[n - 1])
  <2>1. f \in [0..N -> Strings] /\ f[0] = <<>> /\ \A n \in 1..N : f[n] = g[<<n, f[n - 1]>>]
    BY <1>6 DEF MadeBy, b
  <2>2. \A n \in 1..N : f[n - 1] \in Strings
    BY <1>1, <2>1
  <2> QED
    BY <1>4, <2>1, <2>2
<1>8. Is(f)
  <2>1. \A n \in 0..N : f[n] = IF n = 0 THEN <<>> ELSE on(n, f[n - 1])
    BY <1>1, <1>7
  <2> QED
    BY <1>7, <2>1
<1>9. Is(U)
  <2> HIDE DEF Is
  <2> QED
    BY <1>8, Zenon DEF U
<1>10. /\ DOMAIN U = 0..N /\ U = [n \in 0..N |-> U[n]] /\ U[0] = <<>>
       /\ \A n \in 1..N : U[n] = on(n, U[n - 1])
  <2>1. \A n \in 0..N : U[n] = IF n = 0 THEN <<>> ELSE on(n, U[n - 1])
    BY <1>1, <1>9
  <2>2. DOMAIN U = 0..N /\ U = [n \in 0..N |-> U[n]]
    BY <1>1, <1>9
  <2>3. 0 \in 0..N /\ \A n \in 1..N : n \in 0..N /\ n # 0
    BY <1>1
  <2> QED
    BY <2>1, <2>2, <2>3
<1> HIDE DEF Is
<1>11. \A n \in 0..N : U[n] = f[n]
  <2>1. U[0] = f[0] /\ \A n \in 1..N : U[n - 1] = f[n - 1] => U[n] = f[n]
    BY <1>7, <1>10
  <2> QED
    BY <1>1, <2>1, StepsAgree, Zenon
<1>12. U \in [0..N -> Strings]
  BY <1>7, <1>10, <1>11
<1> QED
  BY <1>5, <1>10, <1>12 DEF LinesTo, N, on, char, skipped

\* The newline of a CRLF whose carriage return s ends with.
Second(s, d) == d = "nl" /\ Len(s) > 0 /\ s[Len(s)] = "cr"

\* A character more is a character more, but for the newline of a CRLF.
LEMMA AsLinesAppend ==
  ASSUME NEW s \in Strings, NEW d \in Chars
  PROVE  AsLines(Append(s, d)) =
           IF Second(s, d) THEN AsLines(s)
           ELSE Append(AsLines(s), IF d \in {"cr", "ff"} THEN "nl" ELSE d)
<1> DEFINE t == Append(s, d)
           N == Len(s)
           on(x, n, u) == IF x[n] = "nl" /\ n > 1 /\ x[n - 1] = "cr" THEN u
                          ELSE Append(u, IF x[n] \in {"cr", "ff"} THEN "nl" ELSE x[n])
<1>1. t \in Strings /\ N \in Nat /\ Len(t) = N + 1 /\ t[N + 1] = d /\ \A n \in 1..N : t[n] = s[n]
  BY DEF Strings
<1> HIDE DEF t
<1>2. PICK U : LinesTo(U, s) /\ AsLines(s) = U[N]
  BY AsLinesRuns
<1>3. PICK V : LinesTo(V, t) /\ AsLines(t) = V[N + 1]
  BY <1>1, AsLinesRuns
<1>4. U[0] = <<>> /\ \A n \in 1..N : U[n] = on(s, n, U[n - 1])
  BY <1>2 DEF LinesTo
<1>5. V[0] = <<>> /\ \A n \in 1..(N + 1) : V[n] = on(t, n, V[n - 1])
  BY <1>1, <1>3 DEF LinesTo
<1>10. \A n \in 1..N : \A u : on(t, n, u) = on(s, n, u)
  <2> TAKE n \in 1..N
  <2>1. t[n] = s[n] /\ (n > 1 => t[n - 1] = s[n - 1])
    BY <1>1
  <2> QED
    BY <2>1
<1>11. \A u : on(t, N + 1, u) = IF Second(s, d) THEN u ELSE Append(u, IF d \in {"cr", "ff"} THEN "nl" ELSE d)
  <2>1. (N + 1 > 1 <=> Len(s) > 0) /\ (N + 1) - 1 = N /\ (Len(s) > 0 => t[N] = s[N])
    BY <1>1
  <2> QED
    BY <1>1, <2>1 DEF Second
<1> HIDE DEF N, on
<1>6. U[0] = V[0] /\ \A n \in 1..N : U[n - 1] = V[n - 1] => U[n] = V[n]
  <2>1. \A n \in 1..N : n \in 1..(N + 1)
    BY <1>1
  <2>2. \A n \in 1..N : V[n] = on(s, n, V[n - 1])
    BY <1>5, <1>10, <2>1
  <2> QED
    BY <1>4, <1>5, <2>2
<1>7. \A n \in 0..N : U[n] = V[n]
  <2>1. N \in Nat
    BY <1>1
  <2> QED
    BY <1>6, <2>1, StepsAgree, Zenon
<1>8. N \in 0..N /\ N + 1 \in 1..(N + 1) /\ (N + 1) - 1 = N
  BY <1>1
<1>9. V[N + 1] = on(t, N + 1, V[N])
  BY <1>1, <1>5, <1>8
<1> QED
  BY <1>2, <1>3, <1>7, <1>8, <1>9, <1>11 DEF t

\* Lines are a text.
LEMMA AsLinesText ==
  ASSUME NEW s \in Strings
  PROVE  AsLines(s) \in Strings /\ AsLines(<<>>) = <<>>
<1>1. PICK U : LinesTo(U, s) /\ AsLines(s) = U[Len(s)]
  BY AsLinesRuns
<1>2. Len(s) \in 0..Len(s)
  BY CharKinds
<1>3. <<>> \in Strings /\ Len(<<>>) = 0
  BY CharKinds
<1>4. PICK V : LinesTo(V, <<>>) /\ AsLines(<<>>) = V[Len(<<>>)]
  BY <1>3, AsLinesRuns
<1> QED
  BY <1>1, <1>2, <1>3, <1>4 DEF LinesTo

\* Behind the quote, with nothing pending: s has been read.
Read(s) == [value |-> s, escaping |-> FALSE, closed |-> FALSE]

\* One character on: a quote, a plain one in either quotes, an escaped one.
LEMMA ReadOnCases ==
  ASSUME NEW s, NEW i
  PROVE  /\ \A q : ReadOn(Read(s), q, q, i) = [Read(s) EXCEPT !.closed = TRUE]
         /\ \A d : d # Apostrophe => ReadOn(Read(s), d, Apostrophe, i) = Read(Append(s, d))
         /\ \A d : d \notin {DoubleQuote, Backslash, "$"} => ReadOn(Read(s), d, DoubleQuote, i) = Read(Append(s, d))
         /\ \A d : ReadOn(ReadOn(Read(s), Backslash, DoubleQuote, i), d, DoubleQuote, i) = Read(s \o Unescaped(d))
<1>1. Read(s).closed = FALSE /\ Read(s).escaping = FALSE /\ Read(s).value = s
  BY DEF Read
<1>2. \A d : [Read(s) EXCEPT !.value = Append(@, d)] = Read(Append(s, d))
  <2>1. \A v : [Read(s) EXCEPT !.value = v] = Read(v)
    <3> DEFINE no == FALSE
    <3>1. \A u : Read(u) = [value |-> u, escaping |-> no, closed |-> no]
      BY DEF Read
    <3> HIDE DEF no
    <3> QED
      BY <3>1
  <2> TAKE d
  <2>2. [Read(s) EXCEPT !.value = Append(Read(s).value, d)] = Read(Append(Read(s).value, d))
    BY <2>1
  <2> QED
    BY <1>1, <2>2
<1>3. \A q : ReadOn(Read(s), q, q, i) = [Read(s) EXCEPT !.closed = TRUE]
  BY <1>1 DEF ReadOn, DoubleQuote, Backslash
<1>4. ASSUME NEW d, d # Apostrophe PROVE ReadOn(Read(s), d, Apostrophe, i) = Read(Append(s, d))
  BY <1>1, <1>2, <1>4 DEF ReadOn, DoubleQuote, Apostrophe
<1>5. ASSUME NEW d, d \notin {DoubleQuote, Backslash, "$"}
      PROVE  ReadOn(Read(s), d, DoubleQuote, i) = Read(Append(s, d))
  BY <1>1, <1>2, <1>5 DEF ReadOn
<1>6. ASSUME NEW d
      PROVE  ReadOn(ReadOn(Read(s), Backslash, DoubleQuote, i), d, DoubleQuote, i) = Read(s \o Unescaped(d))
  <2> DEFINE e == [Read(s) EXCEPT !.escaping = TRUE]
  <2>1. ReadOn(Read(s), Backslash, DoubleQuote, i) = e
    BY <1>1 DEF ReadOn, DoubleQuote, Backslash
  <2>2. e.closed = FALSE /\ e.escaping = TRUE /\ e.value = s
    BY DEF Read
  <2> HIDE DEF e
  <2> QED
    BY <2>1, <2>2 DEF ReadOn, Read
<1> QED
  BY <1>3, <1>4, <1>5, <1>6

\* In single quotes every character is itself, up to the next one.
LEMMA ReadPlain ==
  ASSUME NEW i
  PROVE  \A s \in Strings : ~Has(s, Apostrophe) => Reading(s, Apostrophe, i) = Read(s)
<1> DEFINE T == {s \in Strings : ~Has(s, Apostrophe) => Reading(s, Apostrophe, i) = Read(s)}
<1>1. <<>> \in T
  BY CharKinds, ReadingNothing DEF Opened, Read
<1>2. ASSUME NEW s \in T, NEW d \in Chars PROVE Append(s, d) \in T
  <2>1. s \in Strings /\ Append(s, d) \in Strings /\ (~Has(s, Apostrophe) => Reading(s, Apostrophe, i) = Read(s))
    BY <1>2, CharKinds
  <2>2. Has(Append(s, d), Apostrophe) <=> Has(s, Apostrophe) \/ d = Apostrophe
    BY <2>1, HasAppend
  <2>3. Reading(Append(s, d), Apostrophe, i) = ReadOn(Reading(s, Apostrophe, i), d, Apostrophe, i)
    BY <2>1, ReadingAppend
  <2>4. d # Apostrophe => ReadOn(Read(s), d, Apostrophe, i) = Read(Append(s, d))
    <3>1. \A e : e # Apostrophe => ReadOn(Read(s), e, Apostrophe, i) = Read(Append(s, e))
      BY ReadOnCases, Zenon
    <3> QED
      BY <3>1
  <2> QED
    BY <2>1, <2>2, <2>3, <2>4
<1>3. T = Strings
  <2>1. T \in SUBSET Strings
    OBVIOUS
  <2> HIDE DEF T
  <2> QED
    BY <1>1, <1>2, <2>1, StringInduction, Zenon
<1> QED
  BY <1>3

\* A text in quotes starts with one, and the rest is the text and the other.
LEMMA QuotedText ==
  ASSUME NEW s \in Strings, NEW q \in Chars
  PROVE  LET w == <<q>> \o s \o <<q>>
         IN w \in Strings /\ w # <<>> /\ Head(w) = q /\ Tail(w) = Append(s, q)
<1> DEFINE w == <<q>> \o s \o <<q>>
           t == Append(s, q)
<1>1. <<q>> \in Strings /\ s \o <<q>> = t /\ t \in Strings /\ <<q>> \o s \in Strings /\ w \in Strings
  BY CharKinds
<1>2. w = <<q>> \o t
  <2>1. w = <<q>> \o (s \o <<q>>)
    BY <1>1, StringsJoin, Zenon
  <2> QED
    BY <1>1, <2>1
<1> HIDE DEF w, t
<1>3. (<<q>> \o t) # <<>> /\ Head(<<q>> \o t) = q
  BY <1>1 DEF Strings
<1>4. Tail(<<q>> \o t) = t
  <2>1. t \in Seq(Chars) /\ <<q>> \in Seq(Chars) /\ Len(<<q>>) = 1 /\ <<q>>[1] = q
    BY <1>1 DEF Strings
  <2> DEFINE v == <<q>> \o t
  <2>2. v \in Seq(Chars) /\ Len(v) = 1 + Len(t) /\ \A n \in 1..Len(t) : v[n + 1] = t[n]
    BY <2>1
  <2> HIDE DEF v
  <2>3. Tail(v) \in Seq(Chars) /\ Len(Tail(v)) = Len(t) /\ \A n \in 1..Len(t) : Tail(v)[n] = v[n + 1]
    BY <2>1, <2>2
  <2>4. Tail(v) = t
    BY <2>1, <2>2, <2>3, SeqEqual
  <2> QED
    BY <2>4 DEF v
<1> QED
  BY <1>1, <1>2, <1>3, <1>4 DEF w, t

\* What is read up to a quote, in either kind of quotes, is the value.
LEMMA ReadUpToQuote ==
  ASSUME NEW s \in Strings, NEW u \in Strings, NEW q \in {Apostrophe, DoubleQuote}, NEW i,
         Reading(s, q, i) = Read(u)
  PROVE  ReadValue(<<q>> \o s \o <<q>>, i) = u
<1> DEFINE w == <<q>> \o s \o <<q>>
<1>1. q \in Chars
  BY MarksAreApart
<1>2. w # <<>> /\ Head(w) = q /\ Tail(w) = Append(s, q)
  BY <1>1, QuotedText
<1>3. Reading(Append(s, q), q, i) = [Read(u) EXCEPT !.closed = TRUE]
  <2>1. Reading(Append(s, q), q, i) = ReadOn(Reading(s, q, i), q, q, i)
    BY <1>1, ReadingAppend
  <2>2. ReadOn(Read(u), q, q, i) = [Read(u) EXCEPT !.closed = TRUE]
    BY ReadOnCases, Zenon
  <2> QED
    BY <2>1, <2>2
<1> HIDE DEF w
<1>4. ReadQuoted(w, i) = u
  BY <1>2, <1>3 DEF ReadQuoted, Read
<1>5. ReadValue(w, i) = u
  BY <1>2, <1>4 DEF ReadValue
<1> QED
  BY <1>5 DEF w

-----------------------------------------------------------------------------
\* Two characters more.
LEMMA AppendPair ==
  ASSUME NEW s \in Strings, NEW d \in Chars, NEW e \in Chars
  PROVE  s \o <<d, e>> = Append(Append(s, d), e)
<1>1. <<d>> \in Strings /\ <<d, e>> = Append(<<d>>, e)
  BY CharKinds
<1>2. s \o Append(<<d>>, e) = Append(s \o <<d>>, e)
  BY <1>1, AppendOut, Zenon
<1>3. s \o <<d>> = Append(s, d)
  BY CharKinds, Zenon
<1> QED
  BY <1>1, <1>2, <1>3

\* Nothing, escaped.
LEMMA EscapedNothing == Escaped(<<>>) = <<>>
<1>1. \A c : \A with \in Strings : Replaced(<<>>, c, with) = <<>>
  BY CharKinds, ReplacedText
<1> QED
  <2>1. /\ <<Backslash, Backslash>> \in Strings /\ <<Backslash, DoubleQuote>> \in Strings
        /\ <<Backslash, "$">> \in Strings /\ <<Backslash, "n">> \in Strings /\ <<Backslash, "r">> \in Strings
    BY MarksAreApart
  <2>2. /\ Replaced(<<>>, Backslash, <<Backslash, Backslash>>) = <<>>
        /\ Replaced(<<>>, DoubleQuote, <<Backslash, DoubleQuote>>) = <<>>
        /\ Replaced(<<>>, "$", <<Backslash, "$">>) = <<>>
        /\ Replaced(<<>>, "nl", <<Backslash, "n">>) = <<>>
        /\ Replaced(<<>>, "cr", <<Backslash, "r">>) = <<>>
    BY <1>1, <2>1, Zenon
  <2> QED
    BY <2>2 DEF Escaped

\* Either reader's view of the characters at which only splitlines() ends a line.
Views == {<<"ff">>, <<"nl">>}

\* Reading undoes the escapes, one character of the value at a time.
LEMMA ReadEscaped ==
  ASSUME NEW i, NEW as \in Views
  PROVE  \A s \in Strings : Reading(Replaced(Escaped(s), "ff", as), DoubleQuote, i) = Read(Replaced(s, "ff", as))
<1> DEFINE R(t) == Replaced(t, "ff", as)
           T == {s \in Strings : Reading(R(Escaped(s)), DoubleQuote, i) = Read(R(s))}
<1>1. as \in Strings
  BY MarksAreApart, CharKinds DEF Views
<1>2. <<>> \in T
  <2>1. Escaped(<<>>) = <<>>
    BY EscapedNothing
  <2>2. R(<<>>) = <<>>
    BY <1>1, CharKinds, ReplacedText
  <2> QED
    BY <2>1, <2>2, CharKinds, ReadingNothing DEF Opened, Read
<1>3. ASSUME NEW s \in T, NEW d \in Chars PROVE Append(s, d) \in T
  <2> DEFINE x == R(Escaped(s))
             y == R(s)
  <2>1. s \in Strings /\ Append(s, d) \in Strings /\ Reading(x, DoubleQuote, i) = Read(y)
    BY <1>3, CharKinds
  <2>2. Escaped(s) \in Strings /\ Escaped(Append(s, d)) = Escaped(s) \o EscapedChar(d)
    BY <2>1, EscapedAppend
  <2>3. x \in Strings /\ y \in Strings
    BY <1>1, <2>1, <2>2, ReplacedText
  <2>4. R(Append(s, d)) = y \o Piece(d, "ff", as)
    BY <1>1, <2>1, ReplacedAppend, Zenon
  <2>5. EscapedChar(d) \in Strings
    BY MarksAreApart, CharKinds DEF EscapedChar
  <2>6. R(Escaped(Append(s, d))) = x \o R(EscapedChar(d))
    <3>1. ByParts("ff", as)
      BY <1>1, ReplacedByParts, Zenon
    <3>2. R(Escaped(s) \o EscapedChar(d)) = x \o R(EscapedChar(d))
      BY <2>2, <2>5, <3>1, Zenon DEF ByParts
    <3> QED
      BY <2>2, <3>2
  <2> HIDE DEF x, y
  <2>7. SUFFICES Reading(x \o R(EscapedChar(d)), DoubleQuote, i) = Read(y \o Piece(d, "ff", as))
    BY <2>1, <2>4, <2>6
  <2>8. ASSUME NEW e \in {Backslash, DoubleQuote, "$", "n", "r"},
               EscapedChar(d) = <<Backslash, e>>, Piece(d, "ff", as) = Unescaped(e)
        PROVE  Reading(x \o R(EscapedChar(d)), DoubleQuote, i) = Read(y \o Piece(d, "ff", as))
    <3>1. e \in Chars /\ Backslash \in Chars
      BY <2>8, MarksAreApart
    <3>2. R(<<Backslash, e>>) = <<Backslash, e>>
      <4>1. PairByPieces(Backslash, e, "ff", as)
        BY <1>1, <3>1, ReplacedPair, Zenon
      <4>2. Piece(Backslash, "ff", as) = <<Backslash>> /\ Piece(e, "ff", as) = <<e>>
        BY <2>8 DEF Piece, Backslash, DoubleQuote
      <4>3. <<Backslash>> \o <<e>> = <<Backslash, e>>
        BY <3>1, AddOne
      <4> QED
        BY <4>1, <4>2, <4>3 DEF PairByPieces
    <3>3. x \o <<Backslash, e>> = Append(Append(x, Backslash), e) /\ Append(x, Backslash) \in Strings
      BY <2>3, <3>1, AppendPair, CharKinds
    <3>4. Reading(Append(x, Backslash), DoubleQuote, i) = ReadOn(Read(y), Backslash, DoubleQuote, i)
      BY <2>1, <2>3, <3>1, ReadingAppend
    <3>5. Reading(Append(Append(x, Backslash), e), DoubleQuote, i)
            = ReadOn(Reading(Append(x, Backslash), DoubleQuote, i), e, DoubleQuote, i)
      BY <3>1, <3>3, ReadingAppend
    <3>6. ReadOn(ReadOn(Read(y), Backslash, DoubleQuote, i), e, DoubleQuote, i) = Read(y \o Unescaped(e))
      BY ReadOnCases
    <3> QED
      BY <2>8, <3>2, <3>3, <3>4, <3>5, <3>6
  <2>9. ASSUME d \notin {Backslash, DoubleQuote, "$", "nl", "cr"}
        PROVE  Reading(x \o R(EscapedChar(d)), DoubleQuote, i) = Read(y \o Piece(d, "ff", as))
    <3>1. PICK c \in Chars : Piece(d, "ff", as) = <<c>> /\ c \notin {DoubleQuote, Backslash, "$"}
      <4>1. "ff" \in Chars /\ "nl" \in Chars
        BY MarksAreApart
      <4> QED
        BY <2>9, <4>1 DEF Piece, Views, DoubleQuote, Backslash
    <3>2. EscapedChar(d) = <<d>> /\ R(<<d>>) = <<c>>
      BY <1>1, <2>9, <3>1, ReplacedChar DEF EscapedChar
    <3>3. x \o <<c>> = Append(x, c) /\ y \o <<c>> = Append(y, c)
      BY <2>3, CharKinds
    <3>4. Reading(Append(x, c), DoubleQuote, i) = ReadOn(Read(y), c, DoubleQuote, i)
      BY <2>1, <2>3, ReadingAppend
    <3>5. ReadOn(Read(y), c, DoubleQuote, i) = Read(Append(y, c))
      <4>1. \A e : e \notin {DoubleQuote, Backslash, "$"} => ReadOn(Read(y), e, DoubleQuote, i) = Read(Append(y, e))
        BY ReadOnCases, Zenon
      <4> QED
        BY <3>1, <4>1
    <3> QED
      BY <3>1, <3>2, <3>3, <3>4, <3>5
  <2> HIDE DEF R
  <2>10. CASE d \in {Backslash, DoubleQuote, "$"}
    <3>1. EscapedChar(d) = <<Backslash, d>> /\ Piece(d, "ff", as) = Unescaped(d)
      BY <2>10 DEF EscapedChar, Piece, Unescaped, Backslash, DoubleQuote, Apostrophe
    <3> QED
      BY <2>8, <2>10, <3>1
  <2>11. CASE d = "nl"
    <3>1. EscapedChar(d) = <<Backslash, "n">> /\ Piece(d, "ff", as) = Unescaped("n")
      BY <2>11 DEF EscapedChar, Piece, Unescaped, Backslash, DoubleQuote, Apostrophe
    <3> QED
      BY <2>8, <3>1
  <2>12. CASE d = "cr"
    <3>1. EscapedChar(d) = <<Backslash, "r">> /\ Piece(d, "ff", as) = Unescaped("r")
      BY <2>12 DEF EscapedChar, Piece, Unescaped, Backslash, DoubleQuote, Apostrophe
    <3> QED
      BY <2>8, <3>1
  <2> QED
    BY <2>9, <2>10, <2>11, <2>12
<1>4. T = Strings
  <2>1. T \in SUBSET Strings
    OBVIOUS
  <2> HIDE DEF T
  <2> QED
    BY <1>2, <1>3, <2>1, StringInduction, Zenon
<1> QED
  BY <1>4

\* A text whose characters are replaced by themselves.
LEMMA ReplacedByItself == \A s \in Strings : Replaced(s, "ff", <<"ff">>) = s
<1> DEFINE T == {s \in Strings : Replaced(s, "ff", <<"ff">>) = s}
<1>1. <<"ff">> \in Strings /\ <<>> \in Strings
  BY MarksAreApart, CharKinds
<1>2. <<>> \in T
  BY <1>1, ReplacedText
<1>3. ASSUME NEW s \in T, NEW d \in Chars PROVE Append(s, d) \in T
  <2>1. s \in Strings /\ Append(s, d) \in Strings /\ Append(s, d) = s \o <<d>> /\ Replaced(s, "ff", <<"ff">>) = s
    BY <1>3, CharKinds
  <2>2. Replaced(Append(s, d), "ff", <<"ff">>) = Replaced(s, "ff", <<"ff">>) \o Piece(d, "ff", <<"ff">>)
    BY <1>1, <2>1, ReplacedAppend, Zenon
  <2>3. Piece(d, "ff", <<"ff">>) = <<d>>
    BY DEF Piece
  <2> QED
    BY <2>1, <2>2, <2>3
<1>4. T = Strings
  <2>1. T \in SUBSET Strings
    OBVIOUS
  <2> HIDE DEF T
  <2> QED
    BY <1>2, <1>3, <2>1, StringInduction, Zenon
<1> QED
  BY <1>4

\* What a character is for splitlines(), a newline behind a carriage return aside.
LineChar(d) == IF d \in {"cr", "ff"} THEN "nl" ELSE d

\* Without carriage returns, lines end at the newlines and the characters like "ff".
LEMMA AsLinesIsReplaced ==
  \A s \in Strings : ~Has(s, "cr") => AsLines(s) = Replaced(s, "ff", <<"nl">>)
<1> DEFINE T == {s \in Strings : ~Has(s, "cr") => AsLines(s) = Replaced(s, "ff", <<"nl">>)}
<1>1. <<"nl">> \in Strings /\ <<>> \in Strings
  BY MarksAreApart, CharKinds
<1>2. <<>> \in T
  BY <1>1, AsLinesText, ReplacedText
<1>3. ASSUME NEW s \in T, NEW d \in Chars PROVE Append(s, d) \in T
  <2>1. s \in Strings /\ Append(s, d) \in Strings /\ (~Has(s, "cr") => AsLines(s) = Replaced(s, "ff", <<"nl">>))
    BY <1>3, CharKinds
  <2>2. Has(Append(s, d), "cr") <=> Has(s, "cr") \/ d = "cr"
    BY <2>1, HasAppend
  <2>3. Second(s, d) => Has(s, "cr")
    BY <2>1 DEF Second, Has, Strings
  <2>4. AsLines(Append(s, d)) = IF Second(s, d) THEN AsLines(s) ELSE Append(AsLines(s), LineChar(d))
    BY <2>1, AsLinesAppend DEF LineChar
  <2>5. Replaced(Append(s, d), "ff", <<"nl">>) = Replaced(s, "ff", <<"nl">>) \o Piece(d, "ff", <<"nl">>)
    BY <1>1, <2>1, ReplacedAppend, Zenon
  <2>6. d # "cr" => Piece(d, "ff", <<"nl">>) = <<LineChar(d)>> /\ LineChar(d) \in Chars
    BY MarksAreApart DEF Piece, LineChar
  <2>7. AsLines(s) \in Strings
    BY <2>1, AsLinesText
  <2>8. d # "cr" => AsLines(s) \o <<LineChar(d)>> = Append(AsLines(s), LineChar(d))
    BY <2>6, <2>7, CharKinds
  <2> QED
    BY <2>1, <2>2, <2>3, <2>4, <2>5, <2>6, <2>8
<1>4. T = Strings
  <2>1. T \in SUBSET Strings
    OBVIOUS
  <2> HIDE DEF T
  <2> QED
    BY <1>2, <1>3, <2>1, StringInduction, Zenon
<1> QED
  BY <1>4

\* No text at all has no characters.
LEMMA HasNothing == \A c : ~Has(<<>>, c)
BY DEF Has

\* No carriage return is left in what stands between double quotes.
LEMMA EscapedHasNoReturn == \A s \in Strings : Escaped(s) \in Strings /\ ~Has(Escaped(s), "cr")
<1> DEFINE T == {s \in Strings : Escaped(s) \in Strings /\ ~Has(Escaped(s), "cr")}
<1>1. <<>> \in T
  BY CharKinds, EscapedAppend, EscapedNothing, HasNothing
<1>2. ASSUME NEW s \in T, NEW d \in Chars PROVE Append(s, d) \in T
  <2>1. s \in Strings /\ Append(s, d) \in Strings /\ Escaped(s) \in Strings /\ ~Has(Escaped(s), "cr")
    BY <1>2, CharKinds
  <2>2. Escaped(Append(s, d)) \in Strings /\ Escaped(Append(s, d)) = Escaped(s) \o EscapedChar(d)
    BY <2>1, EscapedAppend
  <2>3. ASSUME NEW e \in Chars, e # "cr", EscapedChar(d) = <<Backslash, e>>
        PROVE  ~Has(Escaped(Append(s, d)), "cr")
    <3>1. Backslash \in Chars /\ Backslash # "cr"
      BY MarksAreApart DEF Backslash
    <3>2. Escaped(s) \o <<Backslash, e>> = Append(Append(Escaped(s), Backslash), e)
      BY <2>1, <2>3, <3>1, AppendPair, Zenon
    <3>3. Append(Escaped(s), Backslash) \in Strings
      BY <2>1, <3>1, CharKinds
    <3>4. ~Has(Append(Escaped(s), Backslash), "cr")
      BY <2>1, <3>1, HasAppend
    <3>5. ~Has(Append(Append(Escaped(s), Backslash), e), "cr")
      BY <2>3, <3>3, <3>4, HasAppend
    <3> QED
      BY <2>2, <2>3, <3>2, <3>5
  <2>4. ASSUME d # "cr", EscapedChar(d) = <<d>>
        PROVE  ~Has(Escaped(Append(s, d)), "cr")
    <3>1. Escaped(s) \o <<d>> = Append(Escaped(s), d)
      BY <2>1, CharKinds
    <3>2. ~Has(Append(Escaped(s), d), "cr")
      BY <2>1, <2>4, HasAppend
    <3> QED
      BY <2>2, <2>4, <3>1, <3>2
  <2>5. \/ d # "cr" /\ EscapedChar(d) = <<d>>
        \/ \E e \in Chars : e # "cr" /\ EscapedChar(d) = <<Backslash, e>>
    BY MarksAreApart DEF EscapedChar, Backslash, DoubleQuote
  <2> QED
    BY <2>1, <2>2, <2>3, <2>4, <2>5
<1>3. T = Strings
  <2>1. T \in SUBSET Strings
    OBVIOUS
  <2> HIDE DEF T
  <2> QED
    BY <1>1, <1>2, <2>1, StringInduction, Zenon
<1> QED
  BY <1>3

\* A quote begins no line and ends none.
LEMMA AsLinesBehindQuote ==
  ASSUME NEW q \in {Apostrophe, DoubleQuote}
  PROVE  \A s \in Strings : AsLines(<<q>> \o s) = <<q>> \o AsLines(s)
<1> DEFINE T == {s \in Strings : AsLines(<<q>> \o s) = <<q>> \o AsLines(s)}
<1>1. q \in Chars /\ <<q>> \in Strings /\ <<>> \in Strings /\ LineChar(q) = q
  BY MarksAreApart, CharKinds DEF LineChar, Apostrophe, DoubleQuote
<1>2. <<>> \in T
  <2>1. Append(<<>>, q) = <<q>>
    OBVIOUS
  <2>2. ~Second(<<>>, q)
    BY DEF Second
  <2>3. AsLines(<<q>>) = <<q>>
    BY <1>1, <2>1, <2>2, AsLinesAppend, AsLinesText DEF LineChar
  <2>4. <<q>> \o <<>> = <<q>>
    BY <1>1, StringsJoin, Zenon
  <2>5. AsLines(<<>>) = <<>>
    BY <1>1, AsLinesText
  <2> QED
    BY <1>1, <2>3, <2>4, <2>5
<1>3. ASSUME NEW s \in T, NEW d \in Chars PROVE Append(s, d) \in T
  <2> DEFINE w == <<q>> \o s
  <2>1. s \in Strings /\ Append(s, d) \in Strings /\ AsLines(w) = <<q>> \o AsLines(s) /\ w \in Strings
    BY <1>1, <1>3, CharKinds
  <2>2. <<q>> \o Append(s, d) = Append(w, d)
    BY <1>1, <2>1, AppendOut, Zenon
  <2>3. Second(w, d) <=> Second(s, d)
    <3>1. Len(w) = Len(s) + 1 /\ Len(s) \in Nat /\ (Len(s) > 0 => w[Len(w)] = s[Len(s)]) /\ (Len(s) = 0 => w[Len(w)] = q)
      BY <2>1, <1>1 DEF Strings
    <3>2. q # "cr"
      BY DEF Apostrophe, DoubleQuote
    <3> HIDE DEF w
    <3> QED
      BY <3>1, <3>2 DEF Second
  <2> HIDE DEF w
  <2>4. AsLines(Append(w, d)) = IF Second(w, d) THEN AsLines(w) ELSE Append(AsLines(w), LineChar(d))
    BY <2>1, AsLinesAppend DEF LineChar
  <2>5. AsLines(Append(s, d)) = IF Second(s, d) THEN AsLines(s) ELSE Append(AsLines(s), LineChar(d))
    BY <2>1, AsLinesAppend DEF LineChar
  <2>6. AsLines(s) \in Strings /\ LineChar(d) \in Chars
    BY <2>1, AsLinesText, MarksAreApart DEF LineChar
  <2>7. <<q>> \o Append(AsLines(s), LineChar(d)) = Append(<<q>> \o AsLines(s), LineChar(d))
    BY <1>1, <2>6, AppendOut, Zenon
  <2> QED
    BY <2>1, <2>2, <2>3, <2>4, <2>5, <2>7
<1>4. T = Strings
  <2>1. T \in SUBSET Strings
    OBVIOUS
  <2> HIDE DEF T
  <2> QED
    BY <1>2, <1>3, <2>1, StringInduction, Zenon
<1> QED
  BY <1>4

\* A text in quotes is read as its lines in quotes.
LEMMA AsLinesQuoted ==
  ASSUME NEW q \in {Apostrophe, DoubleQuote}, NEW s \in Strings
  PROVE  AsLines(<<q>> \o s \o <<q>>) = <<q>> \o AsLines(s) \o <<q>>
<1>1. q \in Chars /\ <<q>> \in Strings /\ LineChar(q) = q
  BY MarksAreApart, CharKinds DEF LineChar, Apostrophe, DoubleQuote
<1> DEFINE w == <<q>> \o s
<1>2. w \in Strings /\ w \o <<q>> = Append(w, q)
  BY <1>1, CharKinds
<1>3. AsLines(w) = <<q>> \o AsLines(s) /\ AsLines(w) \in Strings
  BY <1>2, AsLinesBehindQuote, AsLinesText
<1>4. AsLines(w) \o <<q>> = Append(AsLines(w), q)
  BY <1>1, <1>3, CharKinds
<1> HIDE DEF w
<1>5. ~Second(w, q)
  BY DEF Second, Apostrophe, DoubleQuote
<1>6. AsLines(Append(w, q)) = Append(AsLines(w), LineChar(q))
  BY <1>1, <1>2, <1>5, AsLinesAppend DEF LineChar
<1> QED
  BY <1>1, <1>2, <1>3, <1>4, <1>6 DEF w

\* The lines of a text have no apostrophe the text has not.
LEMMA AsLinesAddsNoQuote == \A s \in Strings : ~Has(s, Apostrophe) => ~Has(AsLines(s), Apostrophe)
<1> DEFINE T == {s \in Strings : ~Has(s, Apostrophe) => ~Has(AsLines(s), Apostrophe)}
<1>1. <<>> \in T
  BY CharKinds, AsLinesText, HasNothing
<1>2. ASSUME NEW s \in T, NEW d \in Chars PROVE Append(s, d) \in T
  <2>1. s \in Strings /\ Append(s, d) \in Strings /\ AsLines(s) \in Strings
        /\ (~Has(s, Apostrophe) => ~Has(AsLines(s), Apostrophe))
    BY <1>2, CharKinds, AsLinesText
  <2>2. Has(Append(s, d), Apostrophe) <=> Has(s, Apostrophe) \/ d = Apostrophe
    BY <2>1, HasAppend
  <2>3. AsLines(Append(s, d)) = IF Second(s, d) THEN AsLines(s) ELSE Append(AsLines(s), LineChar(d))
    BY <2>1, AsLinesAppend DEF LineChar
  <2>4. LineChar(d) \in Chars /\ (LineChar(d) = Apostrophe => d = Apostrophe)
    BY MarksAreApart DEF LineChar, Apostrophe
  <2>5. Has(Append(AsLines(s), LineChar(d)), Apostrophe) <=> Has(AsLines(s), Apostrophe) \/ LineChar(d) = Apostrophe
    BY <2>1, <2>4, HasAppend
  <2> QED
    BY <2>1, <2>2, <2>3, <2>4, <2>5
<1>3. T = Strings
  <2>1. T \in SUBSET Strings
    OBVIOUS
  <2> HIDE DEF T
  <2> QED
    BY <1>1, <1>2, <2>1, StringInduction, Zenon
<1> QED
  BY <1>3

-----------------------------------------------------------------------------
\* What stands bare has no marks.
LEMMA BoringHas ==
  ASSUME NEW s, Boring(s)
  PROVE  s \in Strings /\ \A m \in Marks : ~Has(s, m)
<1>1. s \in Seq(Letters)
  BY DEF Boring
<1>2. \A n \in DOMAIN s : s[n] \in Letters
  BY <1>1
<1>3. s \in Strings
  BY <1>1, CharKinds DEF Strings
<1> QED
  BY <1>2, <1>3, CharKinds DEF Has

\* And is read as it stands, interpolated or not: there is nothing to strip.
LEMMA StripBoring ==
  ASSUME NEW s, Boring(s), NEW i
  PROVE  ReadValue(s, i) = s
<1>1. s \in Strings /\ \A m \in Marks : ~Has(s, m)
  BY BoringHas
<1>2. /\ DOMAIN s = 1..Len(s) /\ Len(s) \in Nat
      /\ \A n \in DOMAIN s : s[n] \notin Marks
  BY <1>1 DEF Strings, Has
<1>3. s # <<>> => Head(s) \notin {Apostrophe, DoubleQuote}
  <2>1. s # <<>> => Head(s) = s[1] /\ 1 \in DOMAIN s
    BY <1>1 DEF Strings
  <2> QED
    BY <1>2, <2>1 DEF Marks
<1>4. ReadValue(s, i) = StripBare(s, i)
  BY <1>3 DEF ReadValue
<1> DEFINE Comment(n) == s[n] = "#" /\ (n = 1 \/ s[n - 1] \in Spaces)
           First(S) == CHOOSE n \in S : \A j \in S : n <= j
           Last(S)  == CHOOSE n \in S : \A j \in S : j <= n
           ends  == {n \in DOMAIN s : Comment(n) \/ s[n] = "nl"}
           worth == {n \in DOMAIN s : s[n] \notin Spaces}
<1>5. ends = {}
  BY <1>2 DEF Marks, Spaces
<1>6. worth = 1..Len(s)
  BY <1>2 DEF Marks
<1>7. (IF worth = {} THEN <<>> ELSE SubSeq(s, First(worth), Last(worth))) = s
  <2>1. CASE Len(s) = 0
    <3>1. s = <<>> /\ worth = {}
      BY <1>1, <1>6, <2>1 DEF Strings
    <3> QED
      BY <3>1
  <2>2. CASE Len(s) # 0
    <3>1. 1 \in worth /\ Len(s) \in worth /\ \A j \in worth : 1 <= j /\ j <= Len(s)
      BY <1>2, <1>6, <2>2
    <3> HIDE DEF worth
    <3>2. First(worth) = 1 /\ Last(worth) = Len(s)
      BY <1>2, <1>6, <3>1
    <3>3. SubSeq(s, 1, Len(s)) = s
      BY <1>1, SubSeqFull DEF Strings
    <3> QED
      BY <3>1, <3>2, <3>3
  <2> QED
    BY <2>1, <2>2
<1>8. StripBare(s, i) = IF i THEN Replaced(s, "$", <<>>) ELSE s
  <2> DEFINE kept(c) == LET w == {n \in DOMAIN c : c[n] \notin Spaces}
                        IN IF w = {} THEN <<>> ELSE SubSeq(c, First(w), Last(w))
             cut == IF ends = {} THEN s ELSE SubSeq(s, 1, First(ends) - 1)
  <2>1. StripBare(s, i) = IF i THEN Replaced(kept(cut), "$", <<>>) ELSE kept(cut)
    BY Zenon DEF StripBare
  <2>2. cut = s
    BY <1>5
  <2>3. kept(s) = s
    BY <1>7, Zenon
  <2> HIDE DEF kept, cut
  <2> QED
    BY <2>1, <2>2, <2>3
<1>9. Replaced(s, "$", <<>>) = s
  BY <1>1, ReplacedNone, CharKinds DEF Marks
<1> QED
  BY <1>4, <1>8, <1>9

\* However a value is written, compose reads the value.
LEMMA ComposeReadsAnyText == \A s \in Strings : ComposeReads(Encode(s)) = s
<1> TAKE s \in Strings
<1>1. CASE Boring(s)
  BY <1>1, StripBoring DEF ComposeReads, Encode
<1>2. CASE ~Boring(s) /\ ~Has(s, Apostrophe)
  <2>1. Reading(s, Apostrophe, TRUE) = Read(s)
    BY <1>2, ReadPlain
  <2>2. ReadValue(<<Apostrophe>> \o s \o <<Apostrophe>>, TRUE) = s
    BY <2>1, ReadUpToQuote
  <2> QED
    BY <1>2, <2>2 DEF ComposeReads, Encode
<1>3. CASE ~Boring(s) /\ Has(s, Apostrophe)
  <2> DEFINE x == Escaped(s)
  <2>1. x \in Strings
    BY EscapedHasNoReturn
  <2>2. \A t \in Strings : Replaced(t, "ff", <<"ff">>) = t
    BY ReplacedByItself
  <2>3. <<"ff">> \in Views
    BY DEF Views
  <2>4. Reading(Replaced(x, "ff", <<"ff">>), DoubleQuote, TRUE) = Read(Replaced(s, "ff", <<"ff">>))
    BY <2>3, ReadEscaped
  <2> HIDE DEF x
  <2>5. Reading(x, DoubleQuote, TRUE) = Read(s)
    BY <2>1, <2>2, <2>4
  <2>6. ReadValue(<<DoubleQuote>> \o x \o <<DoubleQuote>>, TRUE) = s
    BY <2>1, <2>5, ReadUpToQuote
  <2> QED
    BY <1>3, <2>6 DEF ComposeReads, Encode, x
<1> QED
  BY <1>1, <1>2, <1>3

\* And the form reads it, but for the ends of its lines.
LEMMA FormReadsAnyText ==
  \A s \in Strings :
    WeRead(Encode(s)) = IF Has(s, Apostrophe) THEN Replaced(s, "ff", <<"nl">>) ELSE AsLines(s)
<1> TAKE s \in Strings
<1>1. AsLines(s) \in Strings
  BY AsLinesText
<1>2. CASE Boring(s)
  <2>1. \A m \in Marks : ~Has(s, m)
    BY <1>2, BoringHas
  <2>2. ~Has(s, "cr") /\ ~Has(s, "ff") /\ ~Has(s, Apostrophe)
    BY <2>1 DEF Marks, Spaces
  <2>3. AsLines(s) = Replaced(s, "ff", <<"nl">>)
    BY <2>2, AsLinesIsReplaced
  <2>4. <<"nl">> \in Strings
    BY MarksAreApart, CharKinds
  <2>5. Replaced(s, "ff", <<"nl">>) = s
    BY <2>2, <2>4, ReplacedNone
  <2>6. ReadValue(s, FALSE) = s
    BY <1>2, StripBoring
  <2> QED
    BY <1>2, <2>2, <2>3, <2>5, <2>6 DEF WeRead, Encode
<1>3. CASE ~Boring(s) /\ ~Has(s, Apostrophe)
  <2>1. ~Has(AsLines(s), Apostrophe)
    BY <1>3, AsLinesAddsNoQuote
  <2>2. Reading(AsLines(s), Apostrophe, FALSE) = Read(AsLines(s))
    BY <1>1, <2>1, ReadPlain
  <2>3. ReadValue(<<Apostrophe>> \o AsLines(s) \o <<Apostrophe>>, FALSE) = AsLines(s)
    BY <1>1, <2>2, ReadUpToQuote
  <2>4. AsLines(<<Apostrophe>> \o s \o <<Apostrophe>>) = <<Apostrophe>> \o AsLines(s) \o <<Apostrophe>>
    BY AsLinesQuoted
  <2> QED
    BY <1>3, <2>3, <2>4 DEF WeRead, Encode
<1>4. CASE ~Boring(s) /\ Has(s, Apostrophe)
  <2> DEFINE x == Escaped(s)
             y == Replaced(s, "ff", <<"nl">>)
  <2>1. x \in Strings /\ ~Has(x, "cr")
    BY EscapedHasNoReturn
  <2>2. <<"nl">> \in Views /\ <<"nl">> \in Strings
    BY MarksAreApart, CharKinds DEF Views
  <2>3. AsLines(x) = Replaced(x, "ff", <<"nl">>) /\ AsLines(x) \in Strings
    BY <2>1, AsLinesIsReplaced, AsLinesText
  <2>4. y \in Strings
    BY <2>2, ReplacedText
  <2>5. Reading(Replaced(x, "ff", <<"nl">>), DoubleQuote, FALSE) = Read(y)
    BY <2>2, ReadEscaped
  <2> HIDE DEF x, y
  <2>6. ReadValue(<<DoubleQuote>> \o AsLines(x) \o <<DoubleQuote>>, FALSE) = y
    BY <2>3, <2>4, <2>5, ReadUpToQuote
  <2>7. AsLines(<<DoubleQuote>> \o x \o <<DoubleQuote>>) = <<DoubleQuote>> \o AsLines(x) \o <<DoubleQuote>>
    BY <2>1, AsLinesQuoted
  <2>8. Encode(s) = <<DoubleQuote>> \o x \o <<DoubleQuote>>
    BY <1>4 DEF Encode, x
  <2> QED
    BY <1>4, <2>6, <2>7, <2>8 DEF WeRead, y
<1> QED
  BY <1>2, <1>3, <1>4

\* A value, of any length and any characters, that goes through encode() and the file comes
\* back: to compose exactly, to the form but for the characters that end lines.
THEOREM ValueReadsBack == EnvValueSpec => []ReadsBack
<1> DEFINE Typed == typed \in Strings
<1>1. EnvValueInit => Typed
  BY CharKinds DEF EnvValueInit
<1>2. Typed /\ [EnvValueNext]_EnvValueVars => Typed'
  BY CharKinds DEF EnvValueNext, TypeChar, EnvValueVars
<1>3. Typed => ReadsBack
  BY ComposeReadsAnyText, FormReadsAnyText DEF ReadsBack, ComposeReadsExactly, FormReadsExactly
<1> QED
  BY <1>1, <1>2, <1>3, PTL DEF EnvValueSpec

-----------------------------------------------------------------------------
(* The file *)

(* Induction from the end of a file: next[n] is where one looks after n, further down. *)
Onward(next, N) == next \in [1..N -> 1..(N + 1)] /\ \A n \in 1..N : next[n] > n

\* What holds of the end, and of each place if it does of the next, holds everywhere.
LEMMA BackInduction ==
  ASSUME NEW N \in Nat, NEW next, Onward(next, N), NEW T,
         N + 1 \in T, \A n \in 1..N : next[n] \in T => n \in T
  PROVE  \A n \in 1..(N + 1) : n \in T
<1> DEFINE M == {m \in Nat : m <= N /\ (N + 1) - m \notin T}
<1> SUFFICES ASSUME NEW n \in 1..(N + 1), n \notin T PROVE FALSE
  OBVIOUS
<1>1. M \in SUBSET Nat /\ M # {}
  <2>1. (N + 1) - n \in Nat /\ (N + 1) - n <= N /\ (N + 1) - ((N + 1) - n) = n
    OBVIOUS
  <2>2. (N + 1) - n \in M
    BY <2>1
  <2> QED
    BY <2>2
<1>2. PICK m \in M : \A y \in M : m <= y
  <2> HIDE DEF M
  <2> QED
    BY <1>1, LeastNumber, Zenon
<1> DEFINE k == (N + 1) - m
<1>3. m \in Nat /\ m <= N /\ k \notin T /\ k \in 1..(N + 1)
  BY <1>2
<1>4. k # N + 1 /\ k \in 1..N
  BY <1>3
<1>5. next[k] \in 1..(N + 1) /\ next[k] > k
  BY <1>4 DEF Onward
<1>6. (N + 1) - next[k] \in Nat /\ (N + 1) - next[k] < m /\ (N + 1) - next[k] <= N
      /\ (N + 1) - ((N + 1) - next[k]) = next[k]
  BY <1>3, <1>5
<1>7. (N + 1) - next[k] \notin M
  BY <1>2, <1>3, <1>6
<1>8. next[k] \in T
  BY <1>6, <1>7
<1> QED
  BY <1>3, <1>4, <1>8

\* g makes the value at n from the one at the next place, and f is what it makes of b.
BackIn(g, N, S) == g \in [(1..N) \X S -> S]
BackMade(f, g, next, b, N, S) ==
  f \in [1..(N + 1) -> S] /\ f[N + 1] = b /\ \A n \in 1..N : f[n] = g[<<n, f[next[n]]>>]

\* A function whose values each follow from one further down exists.
LEMMA BackMadeExists ==
  ASSUME NEW S, NEW b \in S, NEW N \in Nat, NEW g, BackIn(g, N, S), NEW next, Onward(next, N)
  PROVE  \E f : BackMade(f, g, next, b, N, S)
<1>0. g \in [(1..N) \X S -> S] /\ next \in [1..N -> 1..(N + 1)] /\ \A n \in 1..N : next[n] > n
  BY DEF BackIn, Onward
<1> DEFINE Down(m) == m <= N => \E f \in [(N + 1 - m)..(N + 1) -> S] :
                        f[N + 1] = b /\ \A n \in (N + 1 - m)..N : f[n] = g[<<n, f[next[n]]>>]
           T == {m \in Nat : Down(m)}
<1>1. 0 \in T
  <2> DEFINE f == [k \in (N + 1 - 0)..(N + 1) |-> b]
  <2>1. f \in [(N + 1 - 0)..(N + 1) -> S] /\ f[N + 1] = b /\ (N + 1 - 0)..N = {}
    OBVIOUS
  <2> QED
    BY <2>1
<1>2. ASSUME NEW m \in T PROVE m + 1 \in T
  <2> DEFINE k == N + 1 - (m + 1)
  <2> SUFFICES ASSUME m + 1 <= N
               PROVE  \E h \in [k..(N + 1) -> S] :
                        h[N + 1] = b /\ \A n \in k..N : h[n] = g[<<n, h[next[n]]>>]
    BY <1>2
  <2>1. PICK f \in [(N + 1 - m)..(N + 1) -> S] :
          f[N + 1] = b /\ \A n \in (N + 1 - m)..N : f[n] = g[<<n, f[next[n]]>>]
    BY <1>2
  <2>2. m \in Nat /\ k \in 1..N /\ N + 1 - m = k + 1 /\ next[k] \in (k + 1)..(N + 1)
    BY <1>0, <1>2
  <2> HIDE DEF k
  <2> DEFINE h == [n \in k..(N + 1) |-> IF n = k THEN g[<<k, f[next[k]]>>] ELSE f[n]]
  <2>3. f \in [(k + 1)..(N + 1) -> S] /\ \A n \in (k + 1)..N : f[n] = g[<<n, f[next[n]]>>]
    BY <2>1, <2>2
  <2>4. g[<<k, f[next[k]]>>] \in S
    BY <1>0, <2>2, <2>3
  <2>5. h \in [k..(N + 1) -> S]
    BY <2>2, <2>3, <2>4
  <2>6. \A n \in (k + 1)..(N + 1) : h[n] = f[n]
    BY <2>2
  <2>7. h[k] = g[<<k, f[next[k]]>>]
    BY <2>2
  <2> HIDE DEF h
  <2>8. h[N + 1] = b
    BY <2>1, <2>2, <2>6
  <2>9. ASSUME NEW n \in (k + 1)..N PROVE h[n] = g[<<n, h[next[n]]>>]
    <3>1. n \in 1..N /\ n \in (k + 1)..(N + 1) /\ next[n] \in (k + 1)..(N + 1)
      BY <1>0, <2>2, <2>9
    <3> QED
      BY <2>3, <2>6, <3>1
  <2>10. \A n \in k..N : n = k \/ n \in (k + 1)..N
    BY <2>2
  <2>11. \A n \in k..N : h[n] = g[<<n, h[next[n]]>>]
    BY <2>2, <2>6, <2>7, <2>9, <2>10
  <2> QED
    BY <2>5, <2>8, <2>11
<1> HIDE DEF Down
<1>3. T = Nat
  <2>1. T \in SUBSET Nat
    OBVIOUS
  <2> HIDE DEF T
  <2> QED
    BY <1>1, <1>2, <2>1, NumberInduction, Zenon
<1>4. Down(N)
  BY <1>3
<1>5. N + 1 - N = 1
  OBVIOUS
<1> QED
  BY <1>4, <1>5 DEF Down, BackMade

(* Files, and what starts on their lines. *)
Files == Seq(AnyLine)

\* What starts on line i, and whether it is an assignment.
Span(ls, i) == SubSeq(ls, i, End(ls, i))
Starts(b)   == b[1].kind = "assign" \/ Len(b) > 1

\* A span whose quotes close.
Block(b) ==
  /\ b \in Files
  /\ \/ Len(b) = 1 /\ b[1].kind # "opens"
     \/ /\ Len(b) > 1 /\ b[1].kind = "opens" /\ HasQuote(b[Len(b)])
        /\ \A j \in 2..(Len(b) - 1) : ~HasQuote(b[j])

\* Files are put together of files.
LEMMA FilesJoin ==
  /\ <<>> \in Files
  /\ \A s \in Files : Len(s) \in Nat /\ s \o <<>> = s /\ <<>> \o s = s
  /\ \A s, r \in Files : s \o r \in Files /\ Len(s \o r) = Len(s) + Len(r)
  /\ \A s, r, q \in Files : (s \o r) \o q = s \o (r \o q)
<1>1. <<>> \in Files /\ \A s \in Files : Len(s) \in Nat
  BY DEF Files
<1>2. \A s, r \in Files : s \o r \in Files /\ Len(s \o r) = Len(s) + Len(r)
  BY DEF Files
<1>3. \A s \in Files : s \o <<>> = s /\ <<>> \o s = s
  BY ConcatEmptySeq, Zenon DEF Files
<1>4. \A s, r, q \in Files : (s \o r) \o q = s \o (r \o q)
  <2> TAKE s, r, q \in Files
  <2>1. s \in Seq(AnyLine) /\ r \in Seq(AnyLine) /\ q \in Seq(AnyLine)
    BY DEF Files
  <2> QED
    BY <2>1, ConcatAssociative
<1> QED
  BY <1>1, <1>2, <1>3, <1>4

\* The line a quote closes on is the first below it with a quote.
LEMMA ClosesFirst ==
  ASSUME NEW ls \in Files, NEW i \in 1..Len(ls)
  PROVE  /\ \/ Closes(ls, i) = 0 /\ \A j \in (i + 1)..Len(ls) : ~HasQuote(ls[j])
            \/ /\ Closes(ls, i) \in (i + 1)..Len(ls) /\ HasQuote(ls[Closes(ls, i)])
               /\ \A j \in (i + 1)..(Closes(ls, i) - 1) : ~HasQuote(ls[j])
         /\ \A c \in (i + 1)..Len(ls) :
              HasQuote(ls[c]) /\ (\A j \in (i + 1)..(c - 1) : ~HasQuote(ls[j])) => Closes(ls, i) = c
<1> DEFINE Q == {j \in (i + 1)..Len(ls) : HasQuote(ls[j])}
           First(c) == c \in Q /\ \A n \in Q : c <= n
           C == CHOOSE c \in Q : \A n \in Q : c <= n
<1>0. Len(ls) \in Nat
  BY FilesJoin
<1>1. Closes(ls, i) = IF Q = {} THEN 0 ELSE C
  BY DEF Closes
<1>2. Q \in SUBSET Nat /\ \A j \in (i + 1)..Len(ls) : j \in Q <=> HasQuote(ls[j])
  BY <1>0
<1>3. \A j \in Q : j \in (i + 1)..Len(ls) /\ HasQuote(ls[j])
  OBVIOUS
<1> HIDE DEF Q
<1>4. Q # {} => First(C)
  <2> SUFFICES ASSUME Q # {} PROVE First(C)
    OBVIOUS
  <2>1. \E c \in Q : \A n \in Q : c <= n
    BY <1>2, LeastNumber, Zenon
  <2> QED
    BY <2>1, Zenon
<1> HIDE DEF C
<1>5. ASSUME NEW c \in (i + 1)..Len(ls), HasQuote(ls[c]), \A j \in (i + 1)..(c - 1) : ~HasQuote(ls[j])
      PROVE  Closes(ls, i) = c
  <2>1. c \in Q
    BY <1>2, <1>5
  <2>2. \A j \in Q : c <= j
    BY <1>3, <1>5
  <2>3. First(C)
    BY <1>4, <2>1
  <2>4. C <= c /\ c <= C /\ C \in Nat /\ c \in Nat
    BY <1>2, <2>1, <2>2, <2>3
  <2> QED
    BY <1>1, <2>1, <2>4
<1>6. CASE Q = {}
  BY <1>1, <1>2, <1>5, <1>6
<1>7. CASE Q # {}
  <2>1. First(C) /\ Closes(ls, i) = C
    BY <1>1, <1>4, <1>7
  <2>2. C \in (i + 1)..Len(ls) /\ HasQuote(ls[C])
    BY <1>3, <2>1
  <2>3. \A j \in (i + 1)..(C - 1) : ~HasQuote(ls[j])
    <3> TAKE j \in (i + 1)..(C - 1)
    <3>1. j \in (i + 1)..Len(ls) /\ ~(C <= j)
      BY <1>0, <2>2
    <3> QED
      BY <1>2, <2>1, <3>1
  <2> QED
    BY <1>5, <2>1, <2>2, <2>3
<1> QED
  BY <1>6, <1>7

\* What starts on a line ends on it or further down, and the next starts behind.
LEMMA EndIs ==
  ASSUME NEW ls \in Files
  PROVE  /\ \A i \in 1..Len(ls) : End(ls, i) \in i..Len(ls)
         /\ Onward([i \in 1..Len(ls) |-> End(ls, i) + 1], Len(ls))
<1>0. Len(ls) \in Nat
  BY FilesJoin
<1>1. ASSUME NEW i \in 1..Len(ls) PROVE End(ls, i) \in i..Len(ls)
  <2>1. Closes(ls, i) = 0 \/ Closes(ls, i) \in (i + 1)..Len(ls)
    BY ClosesFirst
  <2> QED
    BY <1>0, <1>1, <2>1 DEF End, Assigns
<1>2. \A i \in 1..Len(ls) : End(ls, i) + 1 \in 1..(Len(ls) + 1) /\ End(ls, i) + 1 > i
  BY <1>0, <1>1
<1> QED
  BY <1>1, <1>2 DEF Onward

\* What starts on a line is the same whatever stands above it.
LEMMA Behind ==
  ASSUME NEW b \in Files, NEW r \in Files, NEW i \in 1..Len(r)
  PROVE  /\ (b \o r)[Len(b) + i] = r[i]
         /\ Assigns(b \o r, Len(b) + i) <=> Assigns(r, i)
         /\ End(b \o r, Len(b) + i) = Len(b) + End(r, i)
         /\ Span(b \o r, Len(b) + i) = Span(r, i)
<1> DEFINE s == b \o r
           m == Len(b)
<1>1. s \in Files /\ m \in Nat /\ Len(r) \in Nat /\ Len(s) = m + Len(r)
  BY FilesJoin
<1>2. \A j \in 1..Len(r) : s[m + j] = r[j]
  BY DEF Files
<1> HIDE DEF s, m
<1>3. m + i \in 1..Len(s)
  BY <1>1
<1>4. \/ Closes(r, i) = 0 /\ Closes(s, m + i) = 0
      \/ Closes(r, i) \in (i + 1)..Len(r) /\ Closes(s, m + i) = m + Closes(r, i)
  <2>1. CASE Closes(r, i) = 0 /\ \A j \in (i + 1)..Len(r) : ~HasQuote(r[j])
    <3>1. ASSUME NEW j \in (m + i + 1)..Len(s) PROVE ~HasQuote(s[j])
      <4>1. j - m \in (i + 1)..Len(r) /\ j - m \in 1..Len(r) /\ m + (j - m) = j
        BY <1>1, <3>1
      <4> QED
        BY <1>2, <2>1, <4>1
    <3>2. \/ Closes(s, m + i) = 0
          \/ Closes(s, m + i) \in (m + i + 1)..Len(s) /\ HasQuote(s[Closes(s, m + i)])
      BY <1>1, <1>3, ClosesFirst
    <3> QED
      BY <2>1, <3>1, <3>2
  <2>2. CASE /\ Closes(r, i) \in (i + 1)..Len(r) /\ HasQuote(r[Closes(r, i)])
             /\ \A j \in (i + 1)..(Closes(r, i) - 1) : ~HasQuote(r[j])
    <3> DEFINE c == Closes(r, i)
    <3>1. c \in 1..Len(r) /\ m + c \in (m + i + 1)..Len(s)
      BY <1>1, <2>2
    <3>2. HasQuote(s[m + c])
      BY <1>2, <2>2, <3>1
    <3>3. ASSUME NEW j \in (m + i + 1)..(m + c - 1) PROVE ~HasQuote(s[j])
      <4>1. j - m \in (i + 1)..(c - 1) /\ j - m \in 1..Len(r) /\ m + (j - m) = j
        BY <1>1, <2>2, <3>3
      <4> QED
        BY <1>2, <2>2, <4>1
    <3>4. \A d \in (m + i + 1)..Len(s) :
            HasQuote(s[d]) /\ (\A j \in (m + i + 1)..(d - 1) : ~HasQuote(s[j])) => Closes(s, m + i) = d
      BY <1>1, <1>3, ClosesFirst
    <3>5. \A j \in (m + i + 1)..(m + c - 1) : ~HasQuote(s[j])
      BY <3>3
    <3> HIDE DEF c
    <3>6. ASSUME NEW d, d = m + c PROVE Closes(s, m + i) = d
      <4>1. d \in (m + i + 1)..Len(s) /\ HasQuote(s[d])
        BY <3>1, <3>2, <3>6
      <4>2. \A j \in (m + i + 1)..(d - 1) : ~HasQuote(s[j])
        BY <1>1, <3>1, <3>5, <3>6
      <4> QED
        BY <3>4, <4>1, <4>2
    <3> QED
      BY <2>2, <3>6 DEF c
  <2> QED
    BY <2>1, <2>2, ClosesFirst
<1>5. s[m + i] = r[i]
  BY <1>2
<1>6. Assigns(s, m + i) <=> Assigns(r, i)
  BY <1>1, <1>4, <1>5 DEF Assigns
<1>7. End(s, m + i) = m + End(r, i)
  BY <1>1, <1>4, <1>5, <1>6 DEF End, Assigns
<1>8. Span(s, m + i) = Span(r, i)
  <2> DEFINE e == End(r, i)
  <2>0. e \in i..Len(r)
    BY EndIs
  <2> HIDE DEF e
  <2>1. e \in i..Len(r) /\ m + e \in (m + i)..Len(s)
    BY <1>1, <2>0
  <2>2. s \in Seq(AnyLine) /\ r \in Seq(AnyLine)
    BY <1>1 DEF Files
  <2>3. Len(SubSeq(s, m + i, m + e)) = e - i + 1 /\ Len(SubSeq(r, i, e)) = e - i + 1
        /\ SubSeq(s, m + i, m + e) \in Seq(AnyLine) /\ SubSeq(r, i, e) \in Seq(AnyLine)
    BY <1>1, <2>1, <2>2
  <2>4. \A j \in 1..(e - i + 1) :
          SubSeq(s, m + i, m + e)[j] = s[m + (i + j - 1)] /\ SubSeq(r, i, e)[j] = r[i + j - 1]
    BY <1>1, <2>1, <2>2
  <2>5. \A j \in 1..(e - i + 1) : i + j - 1 \in 1..Len(r)
    BY <1>1, <2>1
  <2>6. \A j \in 1..(e - i + 1) : SubSeq(s, m + i, m + e)[j] = SubSeq(r, i, e)[j]
    BY <1>2, <2>4, <2>5
  <2>7. SubSeq(s, m + i, m + e) = SubSeq(r, i, e)
    BY <2>3, <2>6, SeqEqual
  <2> QED
    BY <1>7, <2>7 DEF Span, e
<1> QED
  BY <1>5, <1>6, <1>7, <1>8 DEF s, m

\* A block at the head of a file is the span that starts there.
LEMMA Ahead ==
  ASSUME NEW b, Block(b), NEW r \in Files
  PROVE  /\ Len(b) \in Nat /\ Len(b) >= 1 /\ (b \o r)[1] = b[1]
         /\ End(b \o r, 1) = Len(b) /\ Span(b \o r, 1) = b
         /\ Assigns(b \o r, 1) <=> Starts(b)
<1> DEFINE s == b \o r
           m == Len(b)
<1>0. b \in Files
  BY DEF Block
<1>1. s \in Files /\ m \in Nat /\ Len(r) \in Nat /\ Len(s) = m + Len(r) /\ m >= 1
  BY <1>0, FilesJoin DEF Block
<1>2. \A j \in 1..m : s[j] = b[j]
  BY <1>0 DEF Files
<1>3. SubSeq(s, 1, m) = b
  <2>1. s \in Seq(AnyLine) /\ b \in Seq(AnyLine)
    BY <1>0, <1>1 DEF Files
  <2> HIDE DEF s, m
  <2>2. SubSeq(s, 1, m) \in Seq(AnyLine) /\ Len(SubSeq(s, 1, m)) = m
        /\ \A j \in 1..m : SubSeq(s, 1, m)[j] = s[j]
    BY <1>1, <2>1
  <2>3. SubSeq(s, 1, m) = b
    BY <1>2, <2>1, <2>2, SeqEqual DEF m
  <2> QED
    BY <2>3
<1>4. Len(b) = m
  OBVIOUS
<1> HIDE DEF s, m
<1>5. s[1] = b[1] /\ 1 \in 1..Len(s)
  BY <1>1, <1>2
<1>6. CASE m = 1 /\ b[1].kind # "opens"
  <2>1. End(s, 1) = 1 /\ (Assigns(s, 1) <=> Starts(b))
    BY <1>4, <1>5, <1>6 DEF End, Assigns, Starts
  <2> QED
    BY <1>1, <1>3, <1>5, <1>6, <2>1 DEF Span, s, m
<1>7. CASE /\ m > 1 /\ b[1].kind = "opens" /\ HasQuote(b[m])
           /\ \A j \in 2..(m - 1) : ~HasQuote(b[j])
  <2>1. m \in (1 + 1)..Len(s) /\ HasQuote(s[m]) /\ \A j \in (1 + 1)..(m - 1) : ~HasQuote(s[j])
    BY <1>1, <1>2, <1>7
  <2>2. Closes(s, 1) = m
    BY <1>1, <1>5, <2>1, ClosesFirst
  <2>3. End(s, 1) = m /\ Assigns(s, 1) /\ Starts(b)
    BY <1>1, <1>4, <1>5, <1>7, <2>2 DEF End, Assigns, Starts
  <2> QED
    BY <1>1, <1>3, <1>5, <2>3 DEF Span, s, m
<1> QED
  BY <1>4, <1>6, <1>7 DEF Block

\* Where one looks after what starts on a line.
NextOf(ls) == [i \in 1..Len(ls) |-> End(ls, i) + 1]

\* R goes over a file from its end, a span at a time, by h.
Stepping(h, S) == h \in [Files \X S -> S]
Over(R, ls, h, b0, S) ==
  /\ R \in [1..(Len(ls) + 1) -> S] /\ R[Len(ls) + 1] = b0
  /\ \A i \in 1..Len(ls) : R[i] = h[<<Span(ls, i), R[End(ls, i) + 1]>>]

\* A span is a piece of a file.
LEMMA SpanIsFile ==
  ASSUME NEW ls \in Files, NEW i \in 1..Len(ls)
  PROVE  Span(ls, i) \in Files
<1>1. End(ls, i) \in i..Len(ls) /\ Len(ls) \in Nat
  BY EndIs, FilesJoin
<1> QED
  BY <1>1 DEF Span, Files

\* Any file can be gone over.
LEMMA OverExists ==
  ASSUME NEW ls \in Files, NEW S, NEW b0 \in S, NEW h, Stepping(h, S)
  PROVE  \E R : Over(R, ls, h, b0, S)
<1> DEFINE N == Len(ls)
           next == NextOf(ls)
           g == [p \in (1..N) \X S |-> h[<<Span(ls, p[1]), p[2]>>]]
<1>1. N \in Nat /\ Onward(next, N)
  BY FilesJoin, EndIs DEF NextOf
<1>2. BackIn(g, N, S)
  BY SpanIsFile DEF BackIn, Stepping
<1>3. \A i \in 1..N : \A v \in S : g[<<i, v>>] = h[<<Span(ls, i), v>>]
  OBVIOUS
<1>4. \A i \in 1..N : next[i] = End(ls, i) + 1 /\ next[i] \in 1..(N + 1)
  BY <1>1 DEF NextOf, Onward
<1> HIDE DEF N, next, g
<1>5. PICK f : BackMade(f, g, next, b0, N, S)
  BY <1>1, <1>2, BackMadeExists, Zenon
<1>6. f \in [1..(N + 1) -> S] /\ f[N + 1] = b0 /\ \A n \in 1..N : f[n] = g[<<n, f[next[n]]>>]
  BY <1>5 DEF BackMade
<1>7. \A n \in 1..N : f[n] = h[<<Span(ls, n), f[End(ls, n) + 1]>>]
  <2> TAKE n \in 1..N
  <2>1. f[End(ls, n) + 1] \in S /\ f[n] = g[<<n, f[End(ls, n) + 1]>>]
    BY <1>4, <1>6
  <2> QED
    BY <1>3, <2>1
<1>8. Over(f, ls, h, b0, S)
  BY <1>6, <1>7 DEF Over, N
<1> QED
  BY <1>8

\* The last step is the block's.
EndsWith(R, h, b, Q) == R[1] = h[<<b, Q[1]>>]

\* A file behind a block is gone over as it is, and the block comes last.
LEMMA OverAhead ==
  ASSUME NEW b, Block(b), NEW r \in Files, NEW h, NEW b0, NEW S,
         NEW R, Over(R, b \o r, h, b0, S), NEW Q, Over(Q, r, h, b0, S)
  PROVE  EndsWith(R, h, b, Q)
<1> DEFINE s == b \o r
           m == Len(b)
           N == Len(r)
           T == {i \in 1..(N + 1) : R[m + i] = Q[i]}
<1>0. b \in Files
  BY DEF Block
<1>1. m \in Nat /\ N \in Nat /\ Len(s) = m + N /\ m >= 1 /\ End(s, 1) = m /\ Span(s, 1) = b
  BY <1>0, FilesJoin, Ahead
<1>2. \A i \in 1..N : End(s, m + i) = m + End(r, i) /\ Span(s, m + i) = Span(r, i)
  BY <1>0, Behind
<1>3. R[Len(s) + 1] = b0 /\ \A i \in 1..Len(s) : R[i] = h[<<Span(s, i), R[End(s, i) + 1]>>]
  BY DEF Over
<1>4. Q[N + 1] = b0 /\ \A i \in 1..N : Q[i] = h[<<Span(r, i), Q[End(r, i) + 1]>>]
  BY DEF Over
<1>5. Onward(NextOf(r), N) /\ \A i \in 1..N : NextOf(r)[i] = End(r, i) + 1 /\ End(r, i) \in i..N
  BY EndIs DEF NextOf
<1> HIDE DEF s, m, N
<1>6. N + 1 \in T
  <2>1. m + (N + 1) = Len(s) + 1 /\ N + 1 \in 1..(N + 1)
    BY <1>1
  <2> QED
    BY <1>3, <1>4, <2>1
<1>7. ASSUME NEW i \in 1..N, NextOf(r)[i] \in T PROVE i \in T
  <2>1. R[m + (End(r, i) + 1)] = Q[End(r, i) + 1]
    BY <1>5, <1>7
  <2>2. (m + End(r, i)) + 1 = m + (End(r, i) + 1) /\ m + i \in 1..Len(s) /\ i \in 1..(N + 1)
    BY <1>1, <1>5
  <2>3. R[m + i] = h[<<Span(s, m + i), R[End(s, m + i) + 1]>>]
    BY <1>3, <2>2
  <2>4. R[m + i] = h[<<Span(r, i), R[(m + End(r, i)) + 1]>>]
    BY <1>2, <2>3
  <2>5. R[m + i] = h[<<Span(r, i), Q[End(r, i) + 1]>>]
    BY <2>1, <2>2, <2>4
  <2> QED
    BY <1>4, <2>2, <2>5
<1>8. \A i \in 1..(N + 1) : i \in T
  <2>1. N \in Nat /\ Onward(NextOf(r), N)
    BY <1>1, <1>5
  <2> HIDE DEF T
  <2> QED
    BY <1>6, <1>7, <2>1, BackInduction, Zenon
<1>9. R[m + 1] = Q[1]
  BY <1>1, <1>8
<1>10. 1 \in 1..Len(s)
  BY <1>1
<1> QED
  BY <1>1, <1>3, <1>9, <1>10 DEF EndsWith

-----------------------------------------------------------------------------
(* What scan() finds. *)

ScanFrom(F, ls) ==
  /\ F \in [1..(Len(ls) + 1) -> SUBSET Nat] /\ F[Len(ls) + 1] = {}
  /\ \A i \in 1..Len(ls) : F[i] = IF Assigns(ls, i) THEN {i} \union F[End(ls, i) + 1]
                                  ELSE F[End(ls, i) + 1]
  /\ \A i \in 1..(Len(ls) + 1) : \A n \in F[i] : n \in i..Len(ls) /\ Assigns(ls, n)

\* What Scan goes through: there is such a function, and it is that one.
LEMMA ScanRuns ==
  ASSUME NEW ls \in Files
  PROVE  \E F : ScanFrom(F, ls) /\ Scan(ls) = F[1]
<1> DEFINE N == Len(ls)
           next == NextOf(ls)
           g == [p \in (1..N) \X SUBSET Nat |-> IF Assigns(ls, p[1]) THEN {p[1]} \union p[2] ELSE p[2]]
           Is(u) == u = [i \in 1..(N + 1) |-> IF i > N THEN {}
                                              ELSE IF Assigns(ls, i) THEN {i} \union u[End(ls, i) + 1]
                                              ELSE u[End(ls, i) + 1]]
           b0 == {}
           S == SUBSET Nat
           U == CHOOSE u : Is(u)
<1>1. N \in Nat /\ Onward(next, N) /\ b0 \in S
  BY FilesJoin, EndIs DEF NextOf
<1>2. BackIn(g, N, S)
  <2>1. \A p \in (1..N) \X SUBSET Nat : (IF Assigns(ls, p[1]) THEN {p[1]} \union p[2] ELSE p[2]) \in SUBSET Nat
    BY <1>1
  <2> QED
    BY <2>1 DEF BackIn
<1>3. \A i \in 1..N : \A v \in S : g[<<i, v>>] = IF Assigns(ls, i) THEN {i} \union v ELSE v
  OBVIOUS
<1>4. \A i \in 1..N : next[i] = End(ls, i) + 1 /\ next[i] \in 1..(N + 1) /\ End(ls, i) \in i..N
  BY <1>1, EndIs DEF NextOf, Onward
<1>5. Scan(ls) = U[1]
  BY DEF Scan
<1> HIDE DEF N, next, g, b0, U
<1>6. PICK f : BackMade(f, g, next, b0, N, S)
  <2> HIDE DEF S
  <2> QED
    BY <1>1, <1>2, BackMadeExists, Zenon
<1>7. f \in [1..(N + 1) -> S] /\ f[N + 1] = {} /\ \A n \in 1..N : f[n] = g[<<n, f[next[n]]>>]
  BY <1>6 DEF BackMade, b0
<1>8. \A i \in 1..N : f[i] = IF Assigns(ls, i) THEN {i} \union f[End(ls, i) + 1] ELSE f[End(ls, i) + 1]
  <2> TAKE i \in 1..N
  <2>1. f[End(ls, i) + 1] \in S /\ f[i] = g[<<i, f[End(ls, i) + 1]>>]
    BY <1>4, <1>7
  <2> HIDE DEF S
  <2> QED
    BY <1>3, <2>1
<1>9. Is(f)
  <2>1. \A i \in 1..(N + 1) : (i > N <=> i = N + 1) /\ (~(i > N) => i \in 1..N)
    BY <1>1
  <2>2. \A i \in 1..(N + 1) : f[i] = IF i > N THEN {}
                                     ELSE IF Assigns(ls, i) THEN {i} \union f[End(ls, i) + 1]
                                     ELSE f[End(ls, i) + 1]
    BY <1>7, <1>8, <2>1
  <2> QED
    BY <1>7, <2>2
<1>10. Is(U)
  <2> HIDE DEF Is
  <2> QED
    BY <1>9, Zenon DEF U
<1>11. /\ DOMAIN U = 1..(N + 1) /\ U[N + 1] = {} /\ U = [i \in 1..(N + 1) |-> U[i]]
       /\ \A i \in 1..N : U[i] = IF Assigns(ls, i) THEN {i} \union U[End(ls, i) + 1]
                                 ELSE U[End(ls, i) + 1]
  <2>1. DOMAIN U = 1..(N + 1) /\ U = [i \in 1..(N + 1) |-> U[i]]
    BY <1>10
  <2>2. \A i \in 1..(N + 1) : U[i] = IF i > N THEN {}
                                     ELSE IF Assigns(ls, i) THEN {i} \union U[End(ls, i) + 1]
                                     ELSE U[End(ls, i) + 1]
    BY <1>10
  <2>3. N + 1 \in 1..(N + 1) /\ N + 1 > N /\ \A i \in 1..N : i \in 1..(N + 1) /\ ~(i > N)
    BY <1>1
  <2> QED
    BY <2>1, <2>2, <2>3
<1> HIDE DEF Is
<1> DEFINE Fine(i, v) == \A n \in v : n \in i..N /\ Assigns(ls, n)
           T == {i \in 1..(N + 1) : U[i] \in SUBSET Nat /\ Fine(i, U[i])}
<1>12. N + 1 \in T
  BY <1>1, <1>11
<1>13. ASSUME NEW i \in 1..N, next[i] \in T PROVE i \in T
  <2>1. U[End(ls, i) + 1] \in SUBSET Nat /\ Fine(End(ls, i) + 1, U[End(ls, i) + 1])
    BY <1>4, <1>13
  <2>2. i \in Nat /\ i \in i..N /\ \A n \in (End(ls, i) + 1)..N : n \in i..N
    BY <1>1, <1>4
  <2>3. Fine(i, U[End(ls, i) + 1])
    BY <2>1, <2>2
  <2>4. i \in 1..(N + 1)
    BY <1>1
  <2> QED
    BY <1>11, <2>1, <2>2, <2>3, <2>4
<1>14. \A i \in 1..(N + 1) : i \in T
  <2> HIDE DEF T
  <2> QED
    BY <1>1, <1>12, <1>13, BackInduction, Zenon
<1>15. ScanFrom(U, ls)
  BY <1>11, <1>14 DEF ScanFrom, N
<1> QED
  BY <1>5, <1>15

\* The assignments of a file behind a block are those of the file, and the block if it is one.
LEMMA ScanAhead ==
  ASSUME NEW b, Block(b), NEW r \in Files
  PROVE  /\ Scan(r) \in SUBSET (1..Len(r)) /\ Scan(b \o r) \in SUBSET (1..Len(b \o r))
         /\ \A j \in Scan(r) : Assigns(r, j)
         /\ \A n : n \in Scan(b \o r) <=> (n = 1 /\ Starts(b)) \/ \E j \in Scan(r) : n = Len(b) + j
<1> DEFINE s == b \o r
           m == Len(b)
           N == Len(r)
<1>0. b \in Files /\ s \in Files
  BY FilesJoin DEF Block
<1>1. m \in Nat /\ N \in Nat /\ Len(s) = m + N /\ m >= 1 /\ End(s, 1) = m
      /\ (Assigns(s, 1) <=> Starts(b))
  BY <1>0, FilesJoin, Ahead
<1>2. \A i \in 1..N : End(s, m + i) = m + End(r, i) /\ (Assigns(s, m + i) <=> Assigns(r, i))
  BY <1>0, Behind
<1>3. PICK F : ScanFrom(F, s) /\ Scan(s) = F[1]
  BY <1>0, ScanRuns
<1>4. PICK G : ScanFrom(G, r) /\ Scan(r) = G[1]
  BY ScanRuns
<1>5. /\ F[Len(s) + 1] = {}
      /\ \A i \in 1..Len(s) : F[i] = IF Assigns(s, i) THEN {i} \union F[End(s, i) + 1]
                                     ELSE F[End(s, i) + 1]
  BY <1>3 DEF ScanFrom
<1>6. /\ G[N + 1] = {}
      /\ \A i \in 1..N : G[i] = IF Assigns(r, i) THEN {i} \union G[End(r, i) + 1]
                                ELSE G[End(r, i) + 1]
  BY <1>4 DEF ScanFrom
<1>7. Onward(NextOf(r), N) /\ \A i \in 1..N : NextOf(r)[i] = End(r, i) + 1 /\ End(r, i) \in i..N
  BY EndIs DEF NextOf
<1>8. Scan(r) \in SUBSET (1..N) /\ Scan(s) \in SUBSET (1..Len(s)) /\ \A j \in Scan(r) : Assigns(r, j)
  <2>1. 1 \in 1..(N + 1) /\ 1 \in 1..(Len(s) + 1)
    BY <1>1
  <2> QED
    BY <1>3, <1>4, <2>1 DEF ScanFrom
<1> DEFINE Moved(A, B) == \A n : n \in A <=> \E j \in B : n = m + j
           T == {i \in 1..(N + 1) : Moved(F[m + i], G[i])}
<1> HIDE DEF s, m, N
<1>9. N + 1 \in T
  <2>1. m + (N + 1) = Len(s) + 1 /\ N + 1 \in 1..(N + 1)
    BY <1>1
  <2> QED
    BY <1>5, <1>6, <2>1
<1>10. ASSUME NEW i \in 1..N, NextOf(r)[i] \in T PROVE i \in T
  <2>1. Moved(F[m + (End(r, i) + 1)], G[End(r, i) + 1])
    BY <1>7, <1>10
  <2>2. (m + End(r, i)) + 1 = m + (End(r, i) + 1) /\ m + i \in 1..Len(s) /\ i \in 1..(N + 1)
    BY <1>1, <1>7
  <2>3. F[m + i] = IF Assigns(r, i) THEN {m + i} \union F[m + (End(r, i) + 1)]
                   ELSE F[m + (End(r, i) + 1)]
    <3>1. F[m + i] = IF Assigns(s, m + i) THEN {m + i} \union F[End(s, m + i) + 1]
                     ELSE F[End(s, m + i) + 1]
      BY <1>5, <2>2
    <3> QED
      BY <1>2, <2>2, <3>1
  <2>4. G[i] = IF Assigns(r, i) THEN {i} \union G[End(r, i) + 1] ELSE G[End(r, i) + 1]
    BY <1>6
  <2> DEFINE A == F[m + (End(r, i) + 1)]
             B == G[End(r, i) + 1]
  <2> HIDE DEF A, B
  <2>5. Moved(A, B) => Moved({m + i} \union A, {i} \union B)
    OBVIOUS
  <2>6. Moved(F[m + i], G[i])
    BY <2>1, <2>3, <2>4, <2>5 DEF A, B
  <2> QED
    BY <2>2, <2>6
<1>11. \A i \in 1..(N + 1) : i \in T
  <2>1. N \in Nat /\ Onward(NextOf(r), N)
    BY <1>1, <1>7
  <2> HIDE DEF T
  <2> QED
    BY <1>9, <1>10, <2>1, BackInduction, Zenon
<1>12. Moved(F[m + 1], G[1])
  BY <1>1, <1>11
<1>13. F[1] = IF Starts(b) THEN {1} \union F[m + 1] ELSE F[m + 1]
  <2>1. 1 \in 1..Len(s)
    BY <1>1
  <2> QED
    BY <1>1, <1>5, <2>1
<1>14. \A n : n \in Scan(s) <=> (n = 1 /\ Starts(b)) \/ \E j \in Scan(r) : n = m + j
  BY <1>3, <1>4, <1>12, <1>13
<1> QED
  BY <1>8, <1>14 DEF s, m, N

\* An empty file has no assignments.
LEMMA ScanOfNothing == Scan(<<>>) = {}
<1>1. <<>> \in Files /\ Len(<<>>) = 0
  BY FilesJoin
<1>2. PICK F : ScanFrom(F, <<>>) /\ Scan(<<>>) = F[1]
  BY <1>1, ScanRuns
<1> QED
  BY <1>1, <1>2 DEF ScanFrom

\* The quotes of a file close if they do without the block at its head.
LEMMA ClosedAhead ==
  ASSUME NEW b, Block(b), NEW r \in Files
  PROVE  Closed(b \o r) <=> Closed(r)
<1> DEFINE s == b \o r
           m == Len(b)
           N == Len(r)
<1>0. b \in Files /\ s \in Files
  BY FilesJoin DEF Block
<1>1. m \in Nat /\ N \in Nat /\ Len(s) = m + N /\ m >= 1 /\ End(s, 1) = m /\ s[1] = b[1]
  BY <1>0, FilesJoin, Ahead
<1>2. \A i \in 1..N : End(s, m + i) = m + End(r, i) /\ s[m + i] = r[i]
  BY <1>0, Behind
<1>3. /\ Scan(r) \in SUBSET (1..N)
      /\ \A n : n \in Scan(s) <=> (n = 1 /\ Starts(b)) \/ \E j \in Scan(r) : n = m + j
  BY ScanAhead
<1>4. DOMAIN s = 1..Len(s) /\ DOMAIN r = 1..N
  BY <1>0 DEF Files
<1>5. (m = 1 /\ b[1].kind # "opens") \/ Starts(b)
  BY DEF Block, Starts
<1> DEFINE In(i) == \E n \in Scan(r) : i \in n..End(r, n)
           InS(i) == \E n \in Scan(s) : i \in n..End(s, n)
<1>6. Closed(s) <=> \A i \in 1..Len(s) : s[i].kind = "opens" => InS(i)
  BY <1>4 DEF Closed
<1>7. Closed(r) <=> \A i \in 1..N : r[i].kind = "opens" => In(i)
  BY <1>4 DEF Closed
<1> HIDE DEF s, m, N
<1>8. ASSUME NEW i \in 1..N PROVE InS(m + i) <=> In(i)
  <2>1. ASSUME NEW n \in Scan(r), i \in n..End(r, n) PROVE InS(m + i)
    <3>1. m + n \in Scan(s) /\ End(s, m + n) = m + End(r, n)
      BY <1>2, <1>3
    <3>2. End(r, n) \in n..N
      BY <1>3, EndIs DEF N
    <3>3. m + i \in (m + n)..End(s, m + n)
      BY <1>1, <1>3, <2>1, <3>1, <3>2
    <3> QED
      BY <3>1, <3>3
  <2>2. ASSUME NEW n \in Scan(s), m + i \in n..End(s, n) PROVE In(i)
    <3>1. n # 1
      BY <1>1, <2>2
    <3>2. PICK j \in Scan(r) : n = m + j
      BY <1>3, <3>1
    <3>3. End(r, j) \in j..N /\ End(s, n) = m + End(r, j) /\ j \in 1..N
      BY <1>2, <1>3, <3>2, EndIs DEF N
    <3>4. i \in j..End(r, j)
      BY <1>1, <2>2, <3>2, <3>3
    <3> QED
      BY <3>4
  <2> QED
    BY <2>1, <2>2
<1>9. ASSUME NEW i \in 1..m, s[i].kind = "opens" PROVE InS(i)
  <2>1. CASE Starts(b)
    BY <1>1, <1>3, <2>1
  <2>2. CASE m = 1 /\ b[1].kind # "opens"
    BY <1>1, <1>9, <2>2
  <2> QED
    BY <1>5, <2>1, <2>2
<1>10. \A i \in 1..Len(s) : i \in 1..m \/ (i - m \in 1..N /\ m + (i - m) = i)
  BY <1>1
<1>11. \A i \in 1..N : m + i \in 1..Len(s)
  BY <1>1
<1> HIDE DEF In, InS
<1>12. Closed(r) => Closed(s)
  <2> SUFFICES ASSUME Closed(r), NEW i \in 1..Len(s), s[i].kind = "opens" PROVE InS(i)
    BY <1>6
  <2>1. CASE i \in 1..m
    BY <1>9, <2>1
  <2>2. CASE i - m \in 1..N /\ m + (i - m) = i
    <3> DEFINE j == i - m
    <3>1. j \in 1..N /\ m + j = i
      BY <2>2
    <3> HIDE DEF j
    <3>2. r[j].kind = "opens"
      BY <1>2, <3>1
    <3>3. In(j)
      BY <1>7, <3>1, <3>2
    <3> QED
      BY <1>8, <3>1, <3>3
  <2> QED
    BY <1>10, <2>1, <2>2
<1>13. Closed(s) => Closed(r)
  <2> SUFFICES ASSUME Closed(s), NEW i \in 1..N, r[i].kind = "opens" PROVE In(i)
    BY <1>7
  <2>1. InS(m + i)
    BY <1>2, <1>6, <1>11
  <2> QED
    BY <1>8, <2>1
<1> QED
  BY <1>12, <1>13 DEF s

\* Every set of numbers with a bound has a greatest one.
LEMMA GreatestNumber ==
  ASSUME NEW N \in Nat, NEW T \in SUBSET (1..N), T # {}
  PROVE  \E x \in T : \A y \in T : y <= x
<1> DEFINE M == {m \in Nat : m <= N /\ N - m \in T}
<1>1. M \in SUBSET Nat /\ M # {}
  <2>1. PICK x \in T : TRUE
    OBVIOUS
  <2>2. N - x \in M
    BY <2>1
  <2> QED
    BY <2>2
<1>2. PICK m \in M : \A y \in M : m <= y
  <2> HIDE DEF M
  <2> QED
    BY <1>1, LeastNumber, Zenon
<1>3. \A y \in T : N - y \in M
  OBVIOUS
<1>4. N - m \in T /\ \A y \in T : y <= N - m
  BY <1>2, <1>3
<1> QED
  BY <1>4

\* The keys a file sets.
Sets(ls) == {ls[i].key : i \in Scan(ls)}

\* A file behind a block sets the keys it does, and the block's if it is an assignment.
LEMMA SetsAhead ==
  ASSUME NEW b, Block(b), NEW r \in Files
  PROVE  Sets(b \o r) = Sets(r) \union (IF Starts(b) THEN {b[1].key} ELSE {})
<1> DEFINE s == b \o r
           m == Len(b)
<1>0. b \in Files
  BY DEF Block
<1>1. s[1] = b[1] /\ \A i \in 1..Len(r) : s[m + i] = r[i]
  BY <1>0, Ahead, Behind
<1>2. /\ Scan(r) \in SUBSET (1..Len(r))
      /\ \A n : n \in Scan(s) <=> (n = 1 /\ Starts(b)) \/ \E j \in Scan(r) : n = m + j
  BY ScanAhead
<1> HIDE DEF s, m
<1>3. \A j \in Scan(r) : s[m + j] = r[j]
  BY <1>1, <1>2
<1>4. Sets(s) = Sets(r) \union (IF Starts(b) THEN {b[1].key} ELSE {})
  BY <1>1, <1>2, <1>3 DEF Sets
<1> QED
  BY <1>4 DEF s

\* A key has the value it has in the file behind a block that does not set it.
LEMMA ValueAhead ==
  ASSUME NEW b, Block(b), NEW r \in Files, NEW k, ~(Starts(b) /\ b[1].key = k)
  PROVE  Value(b \o r, k) = Value(r, k)
<1> DEFINE s == b \o r
           m == Len(b)
           A == {i \in Scan(s) : s[i].key = k}
           B == {i \in Scan(r) : r[i].key = k}
           x == CHOOSE i \in A : \A n \in A : n <= i
           y == CHOOSE i \in B : \A n \in B : n <= i
           Last(i, Q) == i \in Q /\ \A n \in Q : n <= i
<1>0. b \in Files
  BY DEF Block
<1>1. m \in Nat /\ s[1] = b[1]
  BY Ahead
<1>2. \A i \in 1..Len(r) : s[m + i] = r[i] /\ Span(s, m + i) = Span(r, i)
  BY <1>0, Behind
<1>3. /\ Scan(r) \in SUBSET (1..Len(r))
      /\ \A n : n \in Scan(s) <=> (n = 1 /\ Starts(b)) \/ \E j \in Scan(r) : n = m + j
  BY ScanAhead
<1>4. Value(s, k) = IF A = {} THEN Empty ELSE Meaning(s, x)
  BY DEF Value
<1>5. Value(r, k) = IF B = {} THEN Empty ELSE Meaning(r, y)
  BY DEF Value
<1>6. \A n : n \in A <=> \E j \in B : n = m + j
  <2> HIDE DEF s, m
  <2>1. \A j \in Scan(r) : s[m + j] = r[j]
    BY <1>2, <1>3
  <2> QED
    BY <1>1, <1>3, <2>1
<1>7. B \in SUBSET (1..Len(r)) /\ Len(r) \in Nat
  BY <1>3, FilesJoin
<1> HIDE DEF A, B
<1>8. CASE B = {}
  <2>1. A = {}
    BY <1>6, <1>8
  <2> QED
    BY <1>4, <1>5, <1>8, <2>1 DEF s
<1>9. CASE B # {}
  <2>1. Last(y, B)
    <3>1. \E i \in B : \A n \in B : n <= i
      BY <1>7, <1>9, GreatestNumber, Zenon
    <3> QED
      BY <3>1, Zenon
  <2> HIDE DEF y, s, m
  <2>2. Last(m + y, A)
    BY <1>1, <1>6, <1>7, <2>1
  <2>3. Last(x, A)
    <3>1. \E i \in A : \A n \in A : n <= i
      BY <2>2
    <3> QED
      BY <3>1, Zenon
  <2> HIDE DEF x
  <2>4. x = m + y
    <3>1. x \in Nat /\ m + y \in Nat
      BY <1>1, <1>6, <1>7, <2>2, <2>3
    <3> QED
      BY <2>2, <2>3, <3>1
  <2>5. y \in 1..Len(r) /\ A # {}
    BY <1>7, <2>1, <2>2
  <2>6. s[x] = r[y] /\ Span(s, x) = Span(r, y)
    BY <1>2, <2>4, <2>5
  <2>7. Meaning(s, x) = Meaning(r, y)
    BY <2>6 DEF Meaning, Span
  <2> QED
    BY <1>4, <1>5, <1>9, <2>5, <2>7 DEF s
<1> QED
  BY <1>8, <1>9

\* A key the file behind a block does not set has the value the block gives it.
LEMMA ValueOfBlock ==
  ASSUME NEW b, Block(b), NEW r \in Files, Starts(b), b[1].key \notin Sets(r)
  PROVE  Value(b \o r, b[1].key) = IF b[1].kind = "assign" THEN b[1].value
                                   ELSE IF b = Written(b[1].key, Long) THEN Long ELSE b
<1> DEFINE s == b \o r
           m == Len(b)
           k == b[1].key
           A == {i \in Scan(s) : s[i].key = k}
           x == CHOOSE i \in A : \A n \in A : n <= i
<1>0. b \in Files
  BY DEF Block
<1>1. m \in Nat /\ s[1] = b[1] /\ Span(s, 1) = b
  BY Ahead
<1>2. \A i \in 1..Len(r) : s[m + i] = r[i]
  BY <1>0, Behind
<1>3. /\ Scan(r) \in SUBSET (1..Len(r))
      /\ \A n : n \in Scan(s) <=> (n = 1 /\ Starts(b)) \/ \E j \in Scan(r) : n = m + j
  BY ScanAhead
<1>4. Value(s, k) = IF A = {} THEN Empty ELSE Meaning(s, x)
  BY DEF Value
<1>5. A = {1}
  <2>1. \A j \in Scan(r) : s[m + j] = r[j] /\ r[j].key # k
    BY <1>2, <1>3 DEF Sets
  <2> HIDE DEF s, m
  <2> QED
    BY <1>1, <1>3, <2>1
<1> HIDE DEF A, s
<1>6. x = 1
  <2>1. \E i \in A : \A n \in A : n <= i
    BY <1>5
  <2>2. x \in A
    BY <2>1, Zenon
  <2> QED
    BY <1>5, <2>2
<1> HIDE DEF x
<1>7. Meaning(s, 1) = IF b[1].kind = "assign" THEN b[1].value
                      ELSE IF b = Written(b[1].key, Long) THEN Long ELSE b
  <2>1. SubSeq(s, 1, End(s, 1)) = b /\ s[1] = b[1]
    BY <1>1 DEF Span
  <2>2. Meaning(s, 1) = IF s[1].kind = "assign" THEN s[1].value
                        ELSE IF SubSeq(s, 1, End(s, 1)) = Written(s[1].key, Long) THEN Long
                        ELSE SubSeq(s, 1, End(s, 1))
    BY DEF Meaning
  <2> HIDE DEF k
  <2> QED
    BY <2>1, <2>2
<1> QED
  BY <1>4, <1>5, <1>6, <1>7 DEF s

\* A file whose quotes close is a block and a file whose quotes close, or empty.
LEMMA BlockApart ==
  ASSUME NEW s \in Files, Closed(s), Len(s) # 0
  PROVE  \E b, r : Block(b) /\ r \in Files /\ s = b \o r /\ Len(r) < Len(s)
<1>1. Len(s) \in Nat /\ Len(s) >= 1 /\ 1 \in 1..Len(s) /\ s \in Seq(AnyLine) /\ DOMAIN s = 1..Len(s)
  BY FilesJoin DEF Files
<1> DEFINE e == End(s, 1)
           b == SubSeq(s, 1, e)
           r == SubSeq(s, e + 1, Len(s))
<1>2. e \in 1..Len(s)
  BY <1>1, EndIs
<1>3. s[1].kind = "opens" => Assigns(s, 1)
  <2> SUFFICES ASSUME s[1].kind = "opens" PROVE Assigns(s, 1)
    OBVIOUS
  <2>1. PICK F : ScanFrom(F, s) /\ Scan(s) = F[1]
    BY ScanRuns
  <2>2. PICK n \in Scan(s) : 1 \in n..End(s, n)
    BY <1>1 DEF Closed
  <2>3. n \in 1..Len(s) /\ Assigns(s, n)
    BY <1>1, <2>1 DEF ScanFrom
  <2>4. n = 1
    BY <1>1, <2>2, <2>3
  <2> QED
    BY <2>3, <2>4
<1>4. \/ e = 1 /\ s[1].kind # "opens"
      \/ /\ e > 1 /\ s[1].kind = "opens" /\ HasQuote(s[e])
         /\ \A j \in 2..(e - 1) : ~HasQuote(s[j])
  <2>1. CASE s[1].kind = "opens"
    <3>1. e = Closes(s, 1) /\ Closes(s, 1) # 0
      BY <1>3, <2>1 DEF End, Assigns
    <3>2. e \in (1 + 1)..Len(s) /\ HasQuote(s[e]) /\ \A j \in (1 + 1)..(e - 1) : ~HasQuote(s[j])
      BY <1>1, <3>1, ClosesFirst
    <3> QED
      BY <1>1, <2>1, <3>2
  <2>2. CASE s[1].kind # "opens"
    BY <2>2 DEF End
  <2> QED
    BY <2>1, <2>2
<1> HIDE DEF e
<1>5. /\ b \in Seq(AnyLine) /\ Len(b) = e /\ \A j \in 1..e : b[j] = s[j]
      /\ r \in Seq(AnyLine) /\ Len(r) = Len(s) - e /\ \A j \in 1..(Len(s) - e) : r[j] = s[e + j]
  <2>1. b \in Seq(AnyLine) /\ Len(b) = e /\ \A j \in 1..e : b[j] = s[j]
    BY <1>1, <1>2
  <2>2. r \in Seq(AnyLine) /\ Len(r) = Len(s) - e
    <3>1. \A j \in (e + 1)..Len(s) : s[j] \in AnyLine
      BY <1>1, <1>2
    <3>2. e + 1 \in Int /\ Len(s) \in Int
      BY <1>1, <1>2
    <3>3. /\ SubSeq(s, e + 1, Len(s)) \in Seq(AnyLine)
          /\ Len(SubSeq(s, e + 1, Len(s))) = IF e + 1 <= Len(s) THEN Len(s) - (e + 1) + 1 ELSE 0
      BY <3>1, <3>2, SubSeqProperties
    <3>4. e \in Nat /\ Len(s) \in Nat /\ e <= Len(s)
      BY <1>1, <1>2
    <3>5. (e + 1 <= Len(s) /\ Len(s) - (e + 1) + 1 = Len(s) - e)
          \/ (~(e + 1 <= Len(s)) /\ 0 = Len(s) - e)
      BY <3>4
    <3> QED
      BY <3>3, <3>5, Zenon
  <2>3. \A j \in 1..(Len(s) - e) : r[j] = s[(e + 1) + j - 1]
    BY <1>1, <1>2
  <2>4. \A j \in 1..(Len(s) - e) : (e + 1) + j - 1 = e + j
    BY <1>1, <1>2
  <2> HIDE DEF b, r
  <2> QED
    BY <2>1, <2>2, <2>3, <2>4
<1> HIDE DEF b, r
<1>6. Block(b)
  <2>1. e \in Nat /\ 1 \in 1..e /\ e \in 1..e /\ \A j \in 2..(e - 1) : j \in 1..e
    BY <1>2
  <2> QED
    BY <1>4, <1>5, <2>1 DEF Block, Files
<1>7. s = b \o r
  <2>1. b \o r \in Seq(AnyLine) /\ Len(b \o r) = Len(s)
        /\ \A j \in 1..Len(s) : (b \o r)[j] = IF j <= e THEN b[j] ELSE r[j - e]
    <3>1. b \in Seq(AnyLine) /\ r \in Seq(AnyLine) /\ Len(b) + Len(r) = Len(s)
      BY <1>1, <1>2, <1>5
    <3> QED
      BY <1>5, <3>1, ConcatProperties
  <2>2. \A j \in 1..Len(s) : IF j <= e THEN j \in 1..e ELSE j - e \in 1..(Len(s) - e) /\ e + (j - e) = j
    BY <1>1, <1>2
  <2>3. \A j \in 1..Len(s) : (b \o r)[j] = s[j]
    BY <1>5, <2>1, <2>2
  <2> QED
    BY <1>1, <2>1, <2>3, SeqEqual
<1>8. r \in Files /\ Len(r) < Len(s)
  BY <1>1, <1>2, <1>5 DEF Files
<1> QED
  BY <1>6, <1>7, <1>8

\* Induction over the files whose quotes close, a block at a time.
LEMMA BlockInduction ==
  ASSUME NEW T, <<>> \in T,
         \A b, r : Block(b) /\ r \in Files /\ Closed(r) /\ r \in T => b \o r \in T
  PROVE  \A s \in Files : Closed(s) => s \in T
<1> DEFINE M == {n \in Nat : \E s \in Files : Len(s) = n /\ Closed(s) /\ s \notin T}
<1> SUFFICES ASSUME NEW q \in Files, Closed(q), q \notin T PROVE FALSE
  OBVIOUS
<1>1. M \in SUBSET Nat /\ M # {}
  BY FilesJoin
<1>2. PICK n \in M : \A y \in M : n <= y
  <2> HIDE DEF M
  <2> QED
    BY <1>1, LeastNumber, Zenon
<1>3. PICK s \in Files : Len(s) = n /\ Closed(s) /\ s \notin T
  BY <1>2
<1>4. Len(s) # 0
  <2>1. Len(s) = 0 => s = <<>>
    BY DEF Files
  <2> QED
    BY <1>3, <2>1
<1>5. PICK b, r : Block(b) /\ r \in Files /\ s = b \o r /\ Len(r) < Len(s)
  BY <1>3, <1>4, BlockApart
<1>6. Closed(r)
  BY <1>3, <1>5, ClosedAhead
<1>7. r \notin T
  BY <1>3, <1>5, <1>6
<1>8. Len(r) \in Nat /\ Len(r) \in M
  BY <1>5, <1>6, <1>7, FilesJoin
<1> QED
  BY <1>2, <1>3, <1>5, <1>8

-----------------------------------------------------------------------------
(* What patch() makes of a file, a span at a time. *)

Walks == [lines : Files, seen : SUBSET Keyed]
Start == [lines |-> <<>>, seen |-> {}]

\* What a span becomes in front of what those below it became.
New(b, acc, u) ==
  IF ~(Starts(b) /\ b[1].key \in Keyed) THEN b
  ELSE IF b[1].key \in acc.seen \/ u[b[1].key] = Empty THEN <<>>
  ELSE Written(b[1].key, u[b[1].key])

Turned(b, acc, u) ==
  [lines |-> New(b, acc, u) \o acc.lines,
   seen  |-> acc.seen \union (IF Starts(b) /\ b[1].key \in Keyed THEN {b[1].key} ELSE {})]

Turning(u) == [p \in Files \X Walks |-> Turned(p[1], p[2], u)]

\* What is kept of a span.
Spared(b)  == IF Starts(b) /\ b[1].key \in Keyed THEN <<>> ELSE b
Sparing    == [p \in Files \X Files |-> Spared(p[1]) \o p[2]]

\* An answer for every key the form declares.
Given == [Keyed -> Texts]

(* What is written for an answer is a block that sets its key to it. *)
LEMMA WrittenIsBlock ==
  ASSUME NEW k \in Keyed, NEW v \in Texts
  PROVE  /\ Block(Written(k, v)) /\ Written(k, v) \in Files
         /\ Starts(Written(k, v)) /\ Written(k, v)[1].key = k
         /\ v # Long => Written(k, v)[1].kind = "assign" /\ Written(k, v)[1].value = v
         /\ v = Long => Written(k, v)[1].kind = "opens"
<1>1. CASE v = Long
  <2>1. Opening(k) \in AnyLine /\ Closing \in AnyLine
    BY <1>1 DEF AnyLine, Typeable
  <2>2. Opening(k).kind = "opens" /\ Opening(k).key = k /\ HasQuote(Closing)
    BY DEF Opening, Closing, Line, HasQuote
  <2>3. Written(k, v) = <<Opening(k), Closing>>
    BY <1>1 DEF Written
  <2> QED
    BY <1>1, <2>1, <2>2, <2>3 DEF Block, Files, Starts
<1>2. CASE v # Long
  <2>1. Assign(k, v) \in AnyLine
    BY <1>2 DEF AnyLine, Typeable
  <2>2. Assign(k, v).kind = "assign" /\ Assign(k, v).key = k /\ Assign(k, v).value = v
    BY DEF Assign, Line
  <2>3. Written(k, v) = <<Assign(k, v)>>
    BY <1>2 DEF Written
  <2> QED
    BY <1>2, <2>1, <2>2, <2>3 DEF Block, Files, Starts
<1> QED
  BY <1>1, <1>2

\* What spans become, and what is kept of them, are files.
LEMMA TurnedType ==
  ASSUME NEW u \in Given
  PROVE  /\ Start \in Walks /\ Stepping(Turning(u), Walks) /\ Stepping(Sparing, Files)
         /\ \A b \in Files, acc \in Walks : New(b, acc, u) \in Files /\ Turned(b, acc, u) \in Walks
<1>1. Start \in Walks
  BY FilesJoin DEF Start, Walks
<1>2. ASSUME NEW b \in Files, NEW acc \in Walks
      PROVE  New(b, acc, u) \in Files /\ Turned(b, acc, u) \in Walks
  <2>1. New(b, acc, u) \in Files
    <3>1. CASE ~(Starts(b) /\ b[1].key \in Keyed)
      BY <3>1 DEF New
    <3>2. CASE b[1].key \in Keyed
      BY <3>2, FilesJoin, WrittenIsBlock DEF New, Given
    <3> QED
      BY <3>1, <3>2
  <2>2. acc.lines \in Files /\ acc.seen \in SUBSET Keyed
    BY DEF Walks
  <2>3. New(b, acc, u) \o acc.lines \in Files
    BY <2>1, <2>2, FilesJoin
  <2> QED
    BY <2>1, <2>2, <2>3 DEF Turned, Walks
<1>3. Stepping(Turning(u), Walks)
  BY <1>2 DEF Stepping, Turning
<1>4. Stepping(Sparing, Files)
  <2>1. \A p \in Files \X Files : Spared(p[1]) \o p[2] \in Files
    BY FilesJoin DEF Spared
  <2> QED
    BY <2>1 DEF Stepping, Sparing
<1> QED
  BY <1>1, <1>2, <1>3, <1>4

\* The first line of a span is the line it starts on, and tells whether it is an assignment.
LEMMA SpanStarts ==
  ASSUME NEW ls \in Files, NEW i \in 1..Len(ls)
  PROVE  /\ Span(ls, i)[1] = ls[i] /\ Len(Span(ls, i)) = End(ls, i) - i + 1
         /\ Starts(Span(ls, i)) <=> Assigns(ls, i)
<1>1. End(ls, i) \in i..Len(ls) /\ Len(ls) \in Nat
  BY EndIs, FilesJoin
<1>2. Span(ls, i)[1] = ls[i] /\ Len(Span(ls, i)) = End(ls, i) - i + 1
  BY <1>1 DEF Span, Files
<1>3. Closes(ls, i) = 0 \/ Closes(ls, i) \in (i + 1)..Len(ls)
  BY ClosesFirst
<1>4. Starts(Span(ls, i)) <=> Assigns(ls, i)
  BY <1>1, <1>2, <1>3 DEF Starts, Assigns, End
<1> QED
  BY <1>2, <1>4

\* The middle of three files cut out, and another put in its place.
Replaces(p, b, q, new) == Cut((p \o b) \o q, Len(p) + 1, Len(p) + Len(b), new) = p \o (new \o q)

LEMMA CutMiddle ==
  ASSUME NEW p \in Files, NEW b \in Files, NEW q \in Files, NEW new \in Files
  PROVE  Replaces(p, b, q, new)
<1> DEFINE s == (p \o b) \o q
           n == Len(p)
           m == Len(b)
           z == Len(q)
<1>1. n \in Nat /\ m \in Nat /\ z \in Nat /\ s \in Files /\ p \o b \in Files
      /\ Len(p \o b) = n + m /\ Len(s) = n + m + z
  BY FilesJoin
<1>2. p \in Seq(AnyLine) /\ b \in Seq(AnyLine) /\ q \in Seq(AnyLine) /\ s \in Seq(AnyLine)
      /\ p \o b \in Seq(AnyLine)
  BY <1>1 DEF Files
<1>3. \A j \in 1..(n + m) : s[j] = (p \o b)[j]
  BY <1>1, <1>2, ConcatProperties
<1>4. \A j \in 1..n : (p \o b)[j] = p[j]
  BY <1>1, <1>2, ConcatProperties
<1>5. \A j \in 1..z : s[n + m + j] = q[j]
  <2> TAKE j \in 1..z
  <2>1. n + m + j \in 1..(n + m + z) /\ ~(n + m + j <= n + m) /\ n + m + j - (n + m) = j
    BY <1>1
  <2> QED
    BY <1>1, <1>2, <2>1, ConcatProperties
<1> HIDE DEF s
<1>6. SubSeq(s, 1, n) = p
  <2>1. \A j \in 1..n : s[j] = p[j] /\ s[j] \in AnyLine
    BY <1>1, <1>2, <1>3, <1>4
  <2>2. /\ SubSeq(s, 1, n) \in Seq(AnyLine) /\ Len(SubSeq(s, 1, n)) = IF 1 <= n THEN n - 1 + 1 ELSE 0
        /\ \A j \in 1..(n - 1 + 1) : SubSeq(s, 1, n)[j] = s[1 + j - 1]
    <3>1. n \in Int /\ 1 \in Int
      BY <1>1
    <3> QED
      BY <2>1, <3>1, SubSeqProperties
  <2>3. Len(SubSeq(s, 1, n)) = n /\ n - 1 + 1 = n /\ \A j \in 1..n : 1 + j - 1 = j
    BY <1>1, <2>2
  <2>4. \A j \in 1..n : SubSeq(s, 1, n)[j] = p[j]
    BY <2>1, <2>2, <2>3
  <2> QED
    BY <1>2, <2>2, <2>3, <2>4, SeqEqual
<1>7. SubSeq(s, n + m + 1, Len(s)) = q
  <2> DEFINE a == n + m + 1
             l == Len(s)
  <2>1. a \in Int /\ l \in Int /\ l = a + z - 1
    BY <1>1
  <2>2. \A j \in a..l : s[j] \in AnyLine
    BY <1>1, <1>2
  <2> HIDE DEF a, l
  <2>3. /\ SubSeq(s, a, l) \in Seq(AnyLine) /\ Len(SubSeq(s, a, l)) = IF a <= l THEN l - a + 1 ELSE 0
        /\ \A j \in 1..(l - a + 1) : SubSeq(s, a, l)[j] = s[a + j - 1]
    BY <2>1, <2>2, SubSeqProperties
  <2>4. Len(SubSeq(s, a, l)) = z /\ l - a + 1 = z
    BY <1>1, <2>1, <2>3
  <2>5. \A j \in 1..z : a + j - 1 = n + m + j
    BY <1>1 DEF a
  <2>6. \A j \in 1..z : SubSeq(s, a, l)[j] = q[j]
    BY <1>5, <2>3, <2>4, <2>5
  <2>7. SubSeq(s, a, l) = q
    BY <1>2, <2>3, <2>4, <2>6, SeqEqual
  <2> QED
    BY <2>7 DEF a, l
<1>8. Cut(s, n + 1, n + m, new) = (SubSeq(s, 1, (n + 1) - 1) \o new) \o SubSeq(s, n + m + 1, Len(s))
  BY DEF Cut
<1>9. (n + 1) - 1 = n
  BY <1>1
<1>10. Cut(s, n + 1, n + m, new) = (p \o new) \o q
  BY <1>6, <1>7, <1>8, <1>9
<1>11. (p \o new) \o q = p \o (new \o q)
  BY FilesJoin
<1> QED
  BY <1>10, <1>11 DEF s, Replaces

\* What Walk leaves is what going over the file from its end makes of it.
LEMMA WalkIs ==
  ASSUME NEW ls \in Files, NEW u \in Given, NEW R, Over(R, ls, Turning(u), Start, Walks)
  PROVE  Walk(ls, u) = R[1]
<1> DEFINE N == Len(ls)
           next == NextOf(ls)
           L == [i \in 1..(N + 1) |-> SubSeq(ls, 1, i - 1) \o R[i].lines]
           f == [i \in 1..(N + 1) |-> [lines |-> L[i], seen |-> R[i].seen]]
           Going(x, i) == IF Assigns(ls, i) THEN PatchEntry(ls, i, x[End(ls, i) + 1], u)
                          ELSE x[End(ls, i) + 1]
           Is(x) == x = [i \in 1..(N + 1) |-> IF i > N THEN [lines |-> ls, seen |-> {}]
                                              ELSE IF Assigns(ls, i)
                                              THEN PatchEntry(ls, i, x[End(ls, i) + 1], u)
                                              ELSE x[End(ls, i) + 1]]
           U == CHOOSE x : Is(x)
<1>1. N \in Nat /\ Onward(next, N) /\ ls \in Seq(AnyLine)
  BY FilesJoin, EndIs DEF NextOf, Files
<1>2. \A i \in 1..N : next[i] = End(ls, i) + 1 /\ next[i] \in 1..(N + 1) /\ End(ls, i) \in i..N
  BY <1>1, EndIs DEF NextOf, Onward
<1>3. /\ \A i \in 1..(N + 1) : R[i] \in Walks
      /\ R[N + 1] = Start
      /\ \A i \in 1..N : R[i] = Turned(Span(ls, i), R[End(ls, i) + 1], u)
  <2>1. \A b \in Files, acc \in Walks : Turning(u)[<<b, acc>>] = Turned(b, acc, u)
    BY DEF Turning
  <2>2. /\ R \in [1..(N + 1) -> Walks] /\ R[N + 1] = Start
        /\ \A i \in 1..N : R[i] = Turning(u)[<<Span(ls, i), R[End(ls, i) + 1]>>]
    BY DEF Over
  <2>3. \A i \in 1..N : Span(ls, i) \in Files /\ R[End(ls, i) + 1] \in Walks
    BY <1>2, <2>2, SpanIsFile
  <2> QED
    BY <2>1, <2>2, <2>3
<1>4. Walk(ls, u) = U[1]
  BY DEF Walk
<1>5. \A i \in 1..(N + 1) : L[i] = SubSeq(ls, 1, i - 1) \o R[i].lines
  OBVIOUS
<1> HIDE DEF L
<1>6. /\ DOMAIN f = 1..(N + 1) /\ f = [i \in 1..(N + 1) |-> f[i]]
      /\ \A i \in 1..(N + 1) : /\ f[i] = [lines |-> L[i], seen |-> R[i].seen]
                              /\ f[i].lines = L[i] /\ f[i].seen = R[i].seen
  OBVIOUS
<1> HIDE DEF N, next, f, U
<1>7. f[N + 1] = [lines |-> ls, seen |-> {}]
  <2>1. SubSeq(ls, 1, N) = ls
    BY <1>1, SubSeqFull DEF N
  <2>2. (N + 1) - 1 = N /\ N + 1 \in 1..(N + 1)
    BY <1>1
  <2>3. ls \o <<>> = ls
    BY FilesJoin
  <2>4. R[N + 1].lines = <<>> /\ R[N + 1].seen = {}
    BY <1>3 DEF Start
  <2>5. L[N + 1] = SubSeq(ls, 1, N) \o <<>>
    BY <1>5, <2>2, <2>4
  <2>6. L[N + 1] = ls
    BY <2>1, <2>3, <2>5
  <2> QED
    BY <1>6, <2>2, <2>4, <2>6
<1>8. ASSUME NEW i \in 1..N PROVE f[i] = Going(f, i)
  <2> DEFINE e == End(ls, i)
             p == SubSeq(ls, 1, i - 1)
             b == Span(ls, i)
             acc == R[e + 1]
  <2>1. e \in i..N /\ e + 1 \in 1..(N + 1) /\ i \in 1..(N + 1) /\ (e + 1) - 1 = e
    BY <1>1, <1>2
  <2>2. p \in Files /\ Len(p) = i - 1
    BY <1>1 DEF Files, N
  <2>3. b \in Files /\ Len(b) = e - i + 1 /\ b[1] = ls[i] /\ (Starts(b) <=> Assigns(ls, i))
    BY SpanIsFile, SpanStarts DEF N
  <2>4. SubSeq(ls, 1, e) = p \o b
    <3>1. 1 \in 1..(Len(ls) + 1) /\ i - 1 \in (1 - 1)..Len(ls) /\ e \in (i - 1)..Len(ls)
      BY <1>1, <2>1 DEF N
    <3>2. (i - 1) + 1 = i
      BY <1>1
    <3>3. SubSeq(ls, 1, i - 1) \o SubSeq(ls, (i - 1) + 1, e) = SubSeq(ls, 1, e)
      BY <1>1, <3>1, ConcatAdjacentSubSeq, Zenon
    <3> QED
      BY <3>2, <3>3 DEF Span
  <2>5. acc \in Walks /\ acc.lines \in Files
    BY <1>3, <2>1 DEF Walks
  <2>6. /\ L[e + 1] = (p \o b) \o acc.lines /\ f[e + 1] = [lines |-> L[e + 1], seen |-> acc.seen]
        /\ f[e + 1].lines = L[e + 1] /\ f[e + 1].seen = acc.seen
    BY <1>5, <1>6, <2>1, <2>4
  <2>7. /\ L[i] = p \o R[i].lines /\ f[i] = [lines |-> L[i], seen |-> R[i].seen]
        /\ R[i] = Turned(b, acc, u)
    BY <1>3, <1>5, <1>6, <2>1
  <2> HIDE DEF e, p, b, acc
  <2>8. New(b, acc, u) \in Files
    BY <2>3, <2>5, TurnedType
  <2>9. /\ R[i].lines = New(b, acc, u) \o acc.lines
        /\ R[i].seen = acc.seen \union (IF Starts(b) /\ b[1].key \in Keyed THEN {b[1].key} ELSE {})
    BY <2>7 DEF Turned
  <2>10. DOMAIN u = Keyed
    BY DEF Given
  <2>11. CASE ~(Starts(b) /\ b[1].key \in Keyed)
    <3>1. R[i].lines = b \o acc.lines /\ R[i].seen = acc.seen
      BY <2>9, <2>11 DEF New
    <3>2. (p \o b) \o acc.lines = p \o (b \o acc.lines)
      BY <2>2, <2>3, <2>5, FilesJoin
    <3>3. L[i] = L[e + 1]
      BY <2>6, <2>7, <3>1, <3>2
    <3>4. f[i] = f[e + 1]
      BY <2>6, <2>7, <3>1, <3>3
    <3>5. Assigns(ls, i) => PatchEntry(ls, i, f[e + 1], u) = f[e + 1]
      BY <2>3, <2>10, <2>11 DEF PatchEntry
    <3> QED
      BY <3>4, <3>5 DEF e
  <2>12. CASE Starts(b) /\ b[1].key \in Keyed
    <3> DEFINE new == New(b, acc, u)
    <3>1. Replaces(p, b, acc.lines, new)
      <4>1. p \in Files /\ b \in Files /\ acc.lines \in Files /\ new \in Files
        BY <2>2, <2>3, <2>5, <2>8
      <4> QED
        BY <4>1, CutMiddle, Zenon
    <3>2. Len(p) + 1 = i /\ Len(p) + Len(b) = e
      BY <1>1, <2>1, <2>2, <2>3
    <3>3. Cut(L[e + 1], i, e, new) = p \o (new \o acc.lines)
      BY <2>6, <3>1, <3>2 DEF Replaces
    <3>4. new = IF ls[i].key \in acc.seen \/ u[ls[i].key] = Empty THEN <<>>
                ELSE Written(ls[i].key, u[ls[i].key])
      BY <2>3, <2>12 DEF New
    <3>5. L[i] = p \o (new \o acc.lines) /\ R[i].seen = acc.seen \union {ls[i].key}
      BY <2>3, <2>7, <2>9, <2>12
    <3> HIDE DEF new
    <3>6. PatchEntry(ls, i, f[e + 1], u) =
            [lines |-> Cut(L[e + 1], i, e, new), seen |-> acc.seen \union {ls[i].key}]
      BY <2>3, <2>6, <2>10, <2>12, <3>4 DEF PatchEntry, e
    <3> QED
      BY <2>3, <2>7, <2>12, <3>3, <3>5, <3>6 DEF e
  <2> QED
    BY <2>11, <2>12
<1>9. Is(f)
  <2>1. \A i \in 1..(N + 1) : (i > N <=> i = N + 1) /\ (~(i > N) => i \in 1..N)
    BY <1>1
  <2>2. \A i \in 1..(N + 1) : f[i] = IF i > N THEN [lines |-> ls, seen |-> {}] ELSE Going(f, i)
    BY <1>7, <1>8, <2>1
  <2> QED
    BY <1>6, <2>2
<1>10. Is(U)
  <2> HIDE DEF Is
  <2> QED
    BY <1>9, Zenon DEF U
<1>11. U[N + 1] = [lines |-> ls, seen |-> {}] /\ \A i \in 1..N : U[i] = Going(U, i)
  <2>1. \A i \in 1..(N + 1) : U[i] = IF i > N THEN [lines |-> ls, seen |-> {}] ELSE Going(U, i)
    BY <1>10
  <2>2. N + 1 \in 1..(N + 1) /\ N + 1 > N /\ \A i \in 1..N : i \in 1..(N + 1) /\ ~(i > N)
    BY <1>1
  <2> HIDE DEF Going
  <2> QED
    BY <2>1, <2>2
<1> HIDE DEF Is
<1> DEFINE T == {i \in 1..(N + 1) : U[i] = f[i]}
<1>12. N + 1 \in T
  BY <1>1, <1>7, <1>11
<1>13. ASSUME NEW i \in 1..N, next[i] \in T PROVE i \in T
  <2>1. U[End(ls, i) + 1] = f[End(ls, i) + 1] /\ i \in 1..(N + 1)
    BY <1>1, <1>2, <1>13
  <2>2. Going(U, i) = Going(f, i)
    BY <2>1
  <2> HIDE DEF Going
  <2> QED
    BY <1>8, <1>11, <2>1, <2>2
<1>14. \A i \in 1..(N + 1) : i \in T
  <2> HIDE DEF T
  <2> QED
    BY <1>1, <1>12, <1>13, BackInduction, Zenon
<1>15. U[1] = [lines |-> L[1], seen |-> R[1].seen] /\ R[1] \in Walks /\ L[1] = SubSeq(ls, 1, 0) \o R[1].lines
  <2>1. 1 \in 1..(N + 1) /\ 1 - 1 = 0
    BY <1>1
  <2> QED
    BY <1>3, <1>5, <1>6, <1>14, <2>1
<1>16. SubSeq(ls, 1, 0) = <<>>
  BY SubSeqEmpty
<1>17. <<>> \o R[1].lines = R[1].lines
  BY <1>15, FilesJoin DEF Walks
<1>18. L[1] = R[1].lines
  BY <1>15, <1>16, <1>17
<1> QED
  BY <1>4, <1>15, <1>18 DEF Walks

\* Patching a file behind a block is patching the file, then the block.
LEMMA WalkAhead ==
  ASSUME NEW u \in Given, NEW r \in Files
  PROVE  /\ Walk(r, u) \in Walks /\ Walk(<<>>, u) = Start
         /\ \A b : Block(b) => Walk(b \o r, u) = Turned(b, Walk(r, u), u)
<1>1. Stepping(Turning(u), Walks) /\ Start \in Walks
  BY TurnedType
<1>2. \A s \in Files : \E R : Over(R, s, Turning(u), Start, Walks)
  BY <1>1, OverExists, Zenon
<1>3. PICK Q : Over(Q, r, Turning(u), Start, Walks)
  BY <1>2
<1>4. Walk(r, u) = Q[1] /\ Q[1] \in Walks
  <2>1. Walk(r, u) = Q[1]
    BY <1>3, WalkIs, Zenon
  <2>2. 1 \in 1..(Len(r) + 1)
    BY FilesJoin
  <2> QED
    BY <1>3, <2>1, <2>2 DEF Over
<1>5. ASSUME NEW b, Block(b) PROVE Walk(b \o r, u) = Turned(b, Walk(r, u), u)
  <2>1. b \in Files /\ b \o r \in Files
    BY <1>5, FilesJoin DEF Block
  <2>2. PICK R : Over(R, b \o r, Turning(u), Start, Walks)
    BY <1>2, <2>1
  <2>3. Walk(b \o r, u) = R[1]
    BY <2>1, <2>2, WalkIs, Zenon
  <2>4. R[1] = Turning(u)[<<b, Q[1]>>]
    <3>1. EndsWith(R, Turning(u), b, Q)
      BY <1>3, <1>5, <2>2, OverAhead, Zenon
    <3> QED
      BY <3>1 DEF EndsWith
  <2>5. Turning(u)[<<b, Q[1]>>] = Turned(b, Q[1], u)
    BY <1>4, <2>1 DEF Turning
  <2> QED
    BY <1>4, <2>3, <2>4, <2>5
<1>6. Walk(<<>>, u) = Start
  <2>1. <<>> \in Files /\ Len(<<>>) + 1 = 1
    BY FilesJoin
  <2>2. PICK R : Over(R, <<>>, Turning(u), Start, Walks)
    BY <1>2, <2>1
  <2>3. Walk(<<>>, u) = R[1]
    BY <2>1, <2>2, WalkIs, Zenon
  <2> QED
    BY <2>1, <2>2, <2>3 DEF Over
<1> QED
  BY <1>4, <1>5, <1>6

\* What Kept leaves is what going over the file from its end leaves of it.
LEMMA KeptIs ==
  ASSUME NEW ls \in Files, NEW R, Over(R, ls, Sparing, <<>>, Files)
  PROVE  Kept(ls) = R[1]
<1> DEFINE N == Len(ls)
           next == NextOf(ls)
           Going(x, i) == IF Assigns(ls, i) /\ ls[i].key \in Keyed THEN x[End(ls, i) + 1]
                          ELSE SubSeq(ls, i, End(ls, i)) \o x[End(ls, i) + 1]
           Is(x) == x = [i \in 1..(N + 1) |-> IF i > N THEN <<>>
                                              ELSE IF Assigns(ls, i) /\ ls[i].key \in Keyed
                                              THEN x[End(ls, i) + 1]
                                              ELSE SubSeq(ls, i, End(ls, i)) \o x[End(ls, i) + 1]]
           U == CHOOSE x : Is(x)
<1>1. N \in Nat /\ Onward(next, N)
  BY FilesJoin, EndIs DEF NextOf
<1>2. \A i \in 1..N : next[i] = End(ls, i) + 1 /\ next[i] \in 1..(N + 1)
  BY <1>1 DEF NextOf, Onward
<1>3. /\ R \in [1..(N + 1) -> Files] /\ R[N + 1] = <<>>
      /\ \A i \in 1..N : R[i] = Sparing[<<Span(ls, i), R[End(ls, i) + 1]>>]
  BY DEF Over
<1>4. Kept(ls) = U[1]
  BY DEF Kept
<1> HIDE DEF U, next
<1>5. ASSUME NEW i \in 1..N PROVE R[i] = Going(R, i)
  <2> DEFINE b == Span(ls, i)
             q == R[End(ls, i) + 1]
  <2>1. q \in Files /\ b \in Files
    BY <1>2, <1>3, SpanIsFile
  <2>2. b[1] = ls[i] /\ (Starts(b) <=> Assigns(ls, i))
    BY SpanStarts
  <2>3. R[i] = Sparing[<<b, q>>]
    BY <1>3
  <2>4. SubSeq(ls, i, End(ls, i)) = b
    BY DEF Span
  <2> HIDE DEF b, q
  <2>5. R[i] = Spared(b) \o q
    BY <2>1, <2>3 DEF Sparing
  <2>6. CASE Starts(b) /\ b[1].key \in Keyed
    BY <2>1, <2>2, <2>5, <2>6, FilesJoin DEF Spared, q
  <2>7. CASE ~(Starts(b) /\ b[1].key \in Keyed)
    <3>1. R[i] = b \o q
      BY <2>5, <2>7 DEF Spared
    <3> QED
      BY <2>2, <2>4, <2>7, <3>1, Zenon DEF q
  <2> QED
    BY <2>6, <2>7
<1> HIDE DEF N
<1>6. \A i \in 1..(N + 1) : (i > N <=> i = N + 1) /\ (~(i > N) => i \in 1..N)
  BY <1>1
<1>7. Is(R)
  <2>1. \A i \in 1..(N + 1) : R[i] = IF i > N THEN <<>> ELSE Going(R, i)
    <3> HIDE DEF Going
    <3> QED
      BY <1>3, <1>5, <1>6
  <2> QED
    BY <1>3, <2>1
<1>8. Is(U)
  <2> HIDE DEF Is
  <2> QED
    BY <1>7, Zenon DEF U
<1>9. U[N + 1] = <<>> /\ \A i \in 1..N : U[i] = Going(U, i)
  <2>1. \A i \in 1..(N + 1) : U[i] = IF i > N THEN <<>> ELSE Going(U, i)
    BY <1>8
  <2>2. N + 1 \in 1..(N + 1) /\ N + 1 > N /\ \A i \in 1..N : i \in 1..(N + 1) /\ ~(i > N)
    BY <1>1
  <2> HIDE DEF Going
  <2> QED
    BY <2>1, <2>2
<1> HIDE DEF Is
<1> DEFINE T == {i \in 1..(N + 1) : U[i] = R[i]}
<1>10. N + 1 \in T
  BY <1>1, <1>3, <1>9
<1>11. ASSUME NEW i \in 1..N, next[i] \in T PROVE i \in T
  <2>1. U[End(ls, i) + 1] = R[End(ls, i) + 1] /\ i \in 1..(N + 1)
    BY <1>1, <1>2, <1>11
  <2>2. Going(U, i) = Going(R, i)
    BY <2>1
  <2> HIDE DEF Going
  <2> QED
    BY <1>5, <1>9, <2>1, <2>2
<1>12. \A i \in 1..(N + 1) : i \in T
  <2> HIDE DEF T
  <2> QED
    BY <1>1, <1>10, <1>11, BackInduction, Zenon
<1>13. 1 \in 1..(N + 1)
  BY <1>1
<1> QED
  BY <1>4, <1>12, <1>13

\* What is kept of a file behind a block is kept of the file, and of the block.
LEMMA KeptAhead ==
  ASSUME NEW r \in Files
  PROVE  /\ Kept(r) \in Files /\ Kept(<<>>) = <<>>
         /\ \A b : Block(b) => Kept(b \o r) = Spared(b) \o Kept(r)
<1>1. Stepping(Sparing, Files) /\ <<>> \in Files
  <2>1. [k \in Keyed |-> Empty] \in Given
    BY EnvFileAssumption DEF Given
  <2> QED
    BY <2>1, TurnedType, FilesJoin
<1>2. \A s \in Files : \E R : Over(R, s, Sparing, <<>>, Files)
  <2> DEFINE b0 == <<>>
  <2>1. b0 \in Files
    BY <1>1
  <2> HIDE DEF b0
  <2>2. \A s \in Files : \E R : Over(R, s, Sparing, b0, Files)
    BY <1>1, <2>1, OverExists, Zenon
  <2> QED
    BY <2>2 DEF b0
<1>3. PICK Q : Over(Q, r, Sparing, <<>>, Files)
  BY <1>2
<1>4. Kept(r) = Q[1] /\ Q[1] \in Files
  <2>1. Kept(r) = Q[1]
    BY <1>3, KeptIs, Zenon
  <2>2. 1 \in 1..(Len(r) + 1)
    BY FilesJoin
  <2> QED
    BY <1>3, <2>1, <2>2 DEF Over
<1>5. ASSUME NEW b, Block(b) PROVE Kept(b \o r) = Spared(b) \o Kept(r)
  <2>1. b \in Files /\ b \o r \in Files
    BY <1>5, FilesJoin DEF Block
  <2>2. PICK R : Over(R, b \o r, Sparing, <<>>, Files)
    BY <1>2, <2>1
  <2>3. Kept(b \o r) = R[1]
    BY <2>1, <2>2, KeptIs, Zenon
  <2>4. R[1] = Sparing[<<b, Q[1]>>]
    <3>1. EndsWith(R, Sparing, b, Q)
      BY <1>3, <1>5, <2>2, OverAhead, Zenon
    <3> QED
      BY <3>1 DEF EndsWith
  <2>5. Sparing[<<b, Q[1]>>] = Spared(b) \o Q[1]
    BY <1>4, <2>1 DEF Sparing
  <2> QED
    BY <1>4, <2>3, <2>4, <2>5
<1>6. Kept(<<>>) = <<>>
  <2>1. <<>> \in Files /\ Len(<<>>) + 1 = 1
    BY FilesJoin
  <2>2. PICK R : Over(R, <<>>, Sparing, <<>>, Files)
    BY <1>2, <2>1
  <2>3. Kept(<<>>) = R[1]
    BY <2>1, <2>2, KeptIs, Zenon
  <2> QED
    BY <2>1, <2>2, <2>3 DEF Over
<1> QED
  BY <1>4, <1>5, <1>6

-----------------------------------------------------------------------------
(* What a saved file is. *)

\* z says what was answered for the keys of K, in the lines of one assignment each, keeps
\* q besides, and is left as it is by another save of the same answers.
Settled(z, K, q, u) ==
  /\ z \in Files /\ Closed(z) /\ Sets(z) \intersect Keyed = K /\ Kept(z) = q
  /\ \A k \in K : u[k] # Empty /\ Value(z, k) = u[k]
  /\ Walk(z, u) = [lines |-> z, seen |-> K]

\* The keys that were answered with something.
Said(u) == {k \in Keyed : u[k] # Empty}

\* Nothing is settled when nothing was answered.
LEMMA NothingSettled ==
  ASSUME NEW u \in Given
  PROVE  Settled(<<>>, {}, <<>>, u)
<1>1. <<>> \in Files /\ DOMAIN <<>> = {}
  BY FilesJoin
<1>2. Closed(<<>>)
  BY <1>1 DEF Closed
<1>3. Sets(<<>>) = {}
  BY ScanOfNothing DEF Sets
<1>4. Walk(<<>>, u) = Start /\ Kept(<<>>) = <<>>
  BY <1>1, WalkAhead, KeptAhead
<1> QED
  BY <1>1, <1>2, <1>3, <1>4 DEF Settled, Start

\* A settled file behind lines that are not the form's is settled.
LEMMA OthersSettled ==
  ASSUME NEW u \in Given, NEW z, NEW K, NEW q, Settled(z, K, q, u),
         NEW b, Block(b), ~(Starts(b) /\ b[1].key \in Keyed)
  PROVE  Settled(b \o z, K, b \o q, u)
<1>1. z \in Files /\ Closed(z) /\ Sets(z) \intersect Keyed = K /\ Kept(z) = q
  BY DEF Settled
<1>2. \A k \in K : u[k] # Empty /\ Value(z, k) = u[k]
  BY DEF Settled
<1>3. Walk(z, u).lines = z /\ Walk(z, u).seen = K /\ Walk(z, u) \in Walks
  <2>1. Walk(z, u) = [lines |-> z, seen |-> K]
    BY DEF Settled
  <2>2. Walk(z, u) \in Walks
    BY <1>1, WalkAhead
  <2> QED
    BY <2>1, <2>2
<1>4. b \in Files /\ b \o z \in Files /\ Closed(b \o z)
  BY <1>1, FilesJoin, ClosedAhead DEF Block
<1>5. Sets(b \o z) = Sets(z) \union (IF Starts(b) THEN {b[1].key} ELSE {})
  BY <1>1, SetsAhead
<1>6. Sets(b \o z) \intersect Keyed = K
  BY <1>1, <1>5
<1>7. Kept(b \o z) = b \o q
  BY <1>1, KeptAhead DEF Spared
<1>8. \A k \in K : Value(b \o z, k) = u[k]
  <2> TAKE k \in K
  <2>1. ~(Starts(b) /\ b[1].key = k)
    BY <1>1
  <2>2. Value(b \o z, k) = Value(z, k)
    BY <1>1, <2>1, ValueAhead
  <2> QED
    BY <1>2, <2>2
<1>9. Walk(b \o z, u) = [lines |-> b \o z, seen |-> K]
  <2>1. Walk(b \o z, u) = Turned(b, Walk(z, u), u)
    BY <1>1, WalkAhead
  <2>2. New(b, Walk(z, u), u) = b
    BY DEF New
  <2>3. Walk(b \o z, u) = [lines |-> b \o Walk(z, u).lines, seen |-> Walk(z, u).seen]
    BY <2>1, <2>2 DEF Turned
  <2> QED
    BY <1>3, <2>3
<1> QED
  BY <1>2, <1>4, <1>6, <1>7, <1>8, <1>9 DEF Settled

\* What is written for an answer, in front of a settled file that does not say it, settles it.
LEMMA AnswerSettled ==
  ASSUME NEW u \in Given, NEW z, NEW K, NEW q, Settled(z, K, q, u),
         NEW k \in Keyed, k \notin K, u[k] # Empty
  PROVE  Settled(Written(k, u[k]) \o z, K \union {k}, q, u)
<1> DEFINE b == Written(k, u[k])
<1>1. z \in Files /\ Closed(z) /\ Sets(z) \intersect Keyed = K /\ Kept(z) = q
  BY DEF Settled
<1>2. \A n \in K : u[n] # Empty /\ Value(z, n) = u[n]
  BY DEF Settled
<1>3. Walk(z, u).lines = z /\ Walk(z, u).seen = K
  <2>1. Walk(z, u) = [lines |-> z, seen |-> K]
    BY DEF Settled
  <2> QED
    BY <2>1
<1>4. u[k] \in Texts
  BY DEF Given
<1>5. /\ Block(b) /\ b \in Files /\ Starts(b) /\ b[1].key = k
      /\ u[k] # Long => b[1].kind = "assign" /\ b[1].value = u[k]
      /\ u[k] = Long => b[1].kind = "opens"
  BY <1>4, WrittenIsBlock
<1>6. u[k] = Long => b = Written(b[1].key, Long)
  BY <1>5
<1> HIDE DEF b
<1>7. b \o z \in Files /\ Closed(b \o z)
  BY <1>1, <1>5, FilesJoin, ClosedAhead
<1>8. Sets(b \o z) = Sets(z) \union {k}
  BY <1>1, <1>5, SetsAhead
<1>9. Sets(b \o z) \intersect Keyed = K \union {k}
  BY <1>1, <1>8
<1>10. Kept(b \o z) = q
  <2>1. Kept(b \o z) = Spared(b) \o Kept(z) /\ Kept(z) \in Files
    BY <1>1, <1>5, KeptAhead
  <2>2. Spared(b) = <<>>
    BY <1>5 DEF Spared
  <2> QED
    BY <1>1, <2>1, <2>2, FilesJoin
<1>11. Value(b \o z, k) = u[k]
  <2>1. b[1].key \notin Sets(z)
    BY <1>1, <1>5
  <2>2. Value(b \o z, b[1].key) = IF b[1].kind = "assign" THEN b[1].value
                                  ELSE IF b = Written(b[1].key, Long) THEN Long ELSE b
    BY <1>1, <1>5, <2>1, ValueOfBlock
  <2> QED
    BY <1>5, <1>6, <2>2
<1>12. \A n \in K : Value(b \o z, n) = u[n]
  <2> TAKE n \in K
  <2>1. ~(Starts(b) /\ b[1].key = n)
    BY <1>5
  <2>2. Value(b \o z, n) = Value(z, n)
    BY <1>1, <1>5, <2>1, ValueAhead
  <2> QED
    BY <1>2, <2>2
<1>13. Walk(b \o z, u) = [lines |-> b \o z, seen |-> K \union {k}]
  <2>1. Walk(b \o z, u) = Turned(b, Walk(z, u), u)
    BY <1>1, <1>5, WalkAhead
  <2>2. New(b, Walk(z, u), u) = b
    BY <1>3, <1>5 DEF New, b
  <2>3. Walk(b \o z, u) = [lines |-> b \o Walk(z, u).lines, seen |-> Walk(z, u).seen \union {k}]
    BY <1>5, <2>1, <2>2 DEF Turned
  <2> QED
    BY <1>3, <2>3
<1>14. Settled(b \o z, K \union {k}, q, u)
  BY <1>2, <1>7, <1>9, <1>10, <1>11, <1>12, <1>13 DEF Settled
<1> QED
  BY <1>14 DEF b

-----------------------------------------------------------------------------
(* What patch() appends. *)

FieldsIn == [n \in 1..Len(Fields) |-> n + 1]

AppendedFrom(A, seen, u) ==
  /\ A[Len(Fields) + 1] = <<>>
  /\ \A n \in 1..Len(Fields) :
       A[n] = IF Fields[n] \in seen \/ u[Fields[n]] = Empty THEN A[n + 1]
              ELSE Written(Fields[n], u[Fields[n]]) \o A[n + 1]

\* The fields are the keys, each of them once.
LEMMA FieldsAre ==
  /\ Len(Fields) \in Nat /\ \A n \in 1..Len(Fields) : Fields[n] \in Keyed
  /\ \A k \in Keyed : \E n \in 1..Len(Fields) : Fields[n] = k
  /\ \A m, n \in 1..Len(Fields) : Fields[m] = Fields[n] => m = n
  /\ Onward(FieldsIn, Len(Fields))
<1>1. Len(Fields) \in Nat /\ DOMAIN Fields = 1..Len(Fields) /\ \A n \in 1..Len(Fields) : Fields[n] \in Keyed
  BY EnvFileAssumption
<1>2. \A k \in Keyed : \E n \in 1..Len(Fields) : Fields[n] = k
  BY <1>1 DEF Keyed
<1>3. Onward(FieldsIn, Len(Fields))
  BY <1>1 DEF Onward, FieldsIn
<1> QED
  BY <1>1, <1>2, <1>3, EnvFileAssumption

\* What Appended goes through: there is such a function, and it is that one.
LEMMA AppendedRuns ==
  ASSUME NEW u \in Given, NEW seen
  PROVE  \E A : AppendedFrom(A, seen, u) /\ Appended(seen, u) = A[1]
<1> DEFINE N == Len(Fields)
           Adds(n, rest) == IF Fields[n] \in seen \/ u[Fields[n]] = Empty THEN rest
                            ELSE Written(Fields[n], u[Fields[n]]) \o rest
           g == [p \in (1..N) \X Files |-> Adds(p[1], p[2])]
           Is(x) == x = [n \in 1..(N + 1) |-> IF n > N THEN <<>>
                                              ELSE IF Fields[n] \in seen \/ u[Fields[n]] = Empty
                                              THEN x[n + 1]
                                              ELSE Written(Fields[n], u[Fields[n]]) \o x[n + 1]]
           b0 == <<>>
           U == CHOOSE x : Is(x)
<1>1. N \in Nat /\ Onward(FieldsIn, N) /\ b0 \in Files
  BY FieldsAre, FilesJoin
<1>2. BackIn(g, N, Files)
  <2>1. ASSUME NEW p \in (1..N) \X Files PROVE Adds(p[1], p[2]) \in Files
    <3>1. Fields[p[1]] \in Keyed /\ u[Fields[p[1]]] \in Texts /\ p[2] \in Files
      BY <2>1, FieldsAre DEF Given
    <3>2. Written(Fields[p[1]], u[Fields[p[1]]]) \in Files
      BY <3>1, WrittenIsBlock
    <3> QED
      BY <3>1, <3>2, FilesJoin
  <2> QED
    BY <2>1 DEF BackIn
<1>3. \A n \in 1..N : \A rest \in Files : g[<<n, rest>>] = Adds(n, rest)
  OBVIOUS
<1>4. \A n \in 1..N : FieldsIn[n] = n + 1 /\ n + 1 \in 1..(N + 1)
  BY <1>1 DEF FieldsIn
<1>5. Appended(seen, u) = U[1]
  BY DEF Appended
<1> HIDE DEF N, g, b0, U
<1>6. PICK f : BackMade(f, g, FieldsIn, b0, N, Files)
  BY <1>1, <1>2, BackMadeExists, Zenon
<1>7. /\ f \in [1..(N + 1) -> Files] /\ f[N + 1] = <<>>
      /\ \A n \in 1..N : f[n] = Adds(n, f[n + 1])
  <2>1. f \in [1..(N + 1) -> Files] /\ f[N + 1] = <<>> /\ \A n \in 1..N : f[n] = g[<<n, f[FieldsIn[n]]>>]
    BY <1>6 DEF BackMade, b0
  <2>2. ASSUME NEW n \in 1..N PROVE f[n] = Adds(n, f[n + 1])
    <3>1. f[n + 1] \in Files /\ f[n] = g[<<n, f[n + 1]>>]
      BY <1>4, <2>1
    <3> HIDE DEF Adds
    <3> QED
      BY <1>3, <3>1
  <2> QED
    BY <2>1, <2>2
<1>8. Is(f)
  <2>1. \A n \in 1..(N + 1) : (n > N <=> n = N + 1) /\ (~(n > N) => n \in 1..N)
    BY <1>1
  <2>2. \A n \in 1..(N + 1) : f[n] = IF n > N THEN <<>> ELSE Adds(n, f[n + 1])
    <3> HIDE DEF Adds
    <3> QED
      BY <1>7, <2>1
  <2> QED
    BY <1>7, <2>2
<1>9. Is(U)
  <2> HIDE DEF Is
  <2> QED
    BY <1>8, Zenon DEF U
<1>10. \A n \in 1..(N + 1) : U[n] = IF n > N THEN <<>> ELSE Adds(n, U[n + 1])
  BY <1>9
<1>11. U[N + 1] = <<>> /\ \A n \in 1..N : U[n] = Adds(n, U[n + 1])
  <2>1. N + 1 \in 1..(N + 1) /\ N + 1 > N /\ \A n \in 1..N : n \in 1..(N + 1) /\ ~(n > N)
    BY <1>1
  <2> HIDE DEF Adds
  <2> QED
    BY <1>10, <2>1
<1> QED
  BY <1>5, <1>11 DEF AppendedFrom, N

\* What is appended says what was answered for the keys the file did not have, and no more.
LEMMA AppendedSettled ==
  ASSUME NEW u \in Given, NEW seen
  PROVE  Settled(Appended(seen, u), Said(u) \ seen, <<>>, u)
<1> DEFINE N == Len(Fields)
           S(n) == {k \in Said(u) \ seen : \E j \in n..N : Fields[j] = k}
<1>1. /\ N \in Nat /\ \A n \in 1..N : Fields[n] \in Keyed
      /\ \A k \in Keyed : \E n \in 1..N : Fields[n] = k
      /\ \A m, n \in 1..N : Fields[m] = Fields[n] => m = n
      /\ Onward(FieldsIn, N)
  BY FieldsAre
<1>2. PICK A : AppendedFrom(A, seen, u) /\ Appended(seen, u) = A[1]
  BY AppendedRuns
<1>3. /\ A[N + 1] = <<>>
      /\ \A n \in 1..N : A[n] = IF Fields[n] \in seen \/ u[Fields[n]] = Empty THEN A[n + 1]
                                ELSE Written(Fields[n], u[Fields[n]]) \o A[n + 1]
  BY <1>2 DEF AppendedFrom
<1> DEFINE T == {n \in 1..(N + 1) : Settled(A[n], S(n), <<>>, u)}
<1> HIDE DEF N
<1>4. N + 1 \in T
  <2>1. S(N + 1) = {} /\ N + 1 \in 1..(N + 1)
    BY <1>1
  <2> HIDE DEF S
  <2> QED
    BY <1>3, <2>1, NothingSettled
<1>5. ASSUME NEW n \in 1..N, FieldsIn[n] \in T PROVE n \in T
  <2>1. FieldsIn[n] = n + 1 /\ n \in 1..(N + 1)
    BY <1>1 DEF FieldsIn, N
  <2>2. Settled(A[n + 1], S(n + 1), <<>>, u)
    BY <1>5, <2>1
  <2>3. \A j \in n..N : j = n \/ j \in (n + 1)..N
    BY <1>1
  <2>4. n \in n..N /\ \A j \in (n + 1)..N : j \in n..N /\ j \in 1..N /\ j # n
    BY <1>1
  <2>5. CASE Fields[n] \in seen \/ u[Fields[n]] = Empty
    <3>1. S(n) = S(n + 1)
      BY <2>3, <2>4, <2>5 DEF Said
    <3>2. A[n] = A[n + 1]
      BY <1>3, <2>5
    <3> HIDE DEF S
    <3> QED
      BY <2>1, <2>2, <3>1, <3>2
  <2>6. CASE Fields[n] \notin seen /\ u[Fields[n]] # Empty
    <3>1. Fields[n] \in Said(u) \ seen
      BY <1>1, <2>6 DEF Said
    <3>2. S(n) = S(n + 1) \union {Fields[n]}
      BY <2>3, <2>4, <3>1
    <3>3. Fields[n] \notin S(n + 1)
      BY <1>1, <2>4
    <3>4. A[n] = Written(Fields[n], u[Fields[n]]) \o A[n + 1]
      BY <1>3, <2>6
    <3>5. Fields[n] \in Keyed
      BY <1>1
    <3> HIDE DEF S
    <3>6. Settled(Written(Fields[n], u[Fields[n]]) \o A[n + 1], S(n + 1) \union {Fields[n]}, <<>>, u)
      BY <2>2, <2>6, <3>3, <3>5, AnswerSettled
    <3> QED
      BY <2>1, <3>2, <3>4, <3>6
  <2> QED
    BY <2>5, <2>6
<1>6. \A n \in 1..(N + 1) : n \in T
  <2> HIDE DEF T
  <2> QED
    BY <1>1, <1>4, <1>5, BackInduction, Zenon
<1>7. S(1) = Said(u) \ seen /\ 1 \in 1..(N + 1)
  BY <1>1 DEF Said
<1> HIDE DEF S
<1> QED
  BY <1>2, <1>6, <1>7

\* Nothing is appended when every answer is in the file.
LEMMA NothingAppended ==
  ASSUME NEW u \in Given
  PROVE  Appended(Said(u), u) = <<>>
<1> DEFINE N == Len(Fields)
<1>1. N \in Nat /\ Onward(FieldsIn, N) /\ \A n \in 1..N : Fields[n] \in Keyed /\ FieldsIn[n] = n + 1
  BY FieldsAre DEF FieldsIn
<1>2. PICK A : AppendedFrom(A, Said(u), u) /\ Appended(Said(u), u) = A[1]
  BY AppendedRuns
<1>3. A[N + 1] = <<>> /\ \A n \in 1..N : A[n] = A[n + 1]
  BY <1>1, <1>2 DEF AppendedFrom, Said
<1> HIDE DEF N
<1> DEFINE T == {n \in 1..(N + 1) : A[n] = <<>>}
<1>4. N + 1 \in T /\ \A n \in 1..N : FieldsIn[n] \in T => n \in T
  BY <1>1, <1>3
<1>5. \A n \in 1..(N + 1) : n \in T
  <2> HIDE DEF T
  <2> QED
    BY <1>1, <1>4, BackInduction, Zenon
<1>6. 1 \in 1..(N + 1)
  BY <1>1
<1> QED
  BY <1>2, <1>5, <1>6

-----------------------------------------------------------------------------
(* What patch() leaves. *)

\* The keys of K that were answered with something.
SaidOf(u, K) == {k \in K : u[k] # Empty}

\* What a file becomes in front of a settled one, that says what the file did not, is settled.
LEMMA WalkedSettled ==
  ASSUME NEW u \in Given
  PROVE  \A s \in Files : Closed(s) =>
           \A z, K : Settled(z, K, <<>>, u) /\ K \intersect Walk(s, u).seen = {} =>
             Settled(Walk(s, u).lines \o z, K \union SaidOf(u, Walk(s, u).seen), Kept(s), u)
<1> DEFINE P(s) == \A z, K : Settled(z, K, <<>>, u) /\ K \intersect Walk(s, u).seen = {} =>
                     Settled(Walk(s, u).lines \o z, K \union SaidOf(u, Walk(s, u).seen), Kept(s), u)
           T == {s \in Files : P(s)}
<1>1. <<>> \in T
  <2>1. <<>> \in Files
    BY FilesJoin
  <2>2. Walk(<<>>, u).lines = <<>> /\ Walk(<<>>, u).seen = {} /\ Kept(<<>>) = <<>>
    BY <2>1, WalkAhead, KeptAhead DEF Start
  <2>3. ASSUME NEW z, NEW K, Settled(z, K, <<>>, u)
        PROVE  Settled(Walk(<<>>, u).lines \o z, K \union SaidOf(u, Walk(<<>>, u).seen), Kept(<<>>), u)
    <3>1. z \in Files
      BY <2>3 DEF Settled
    <3>2. Walk(<<>>, u).lines \o z = z
      BY <2>2, <3>1, FilesJoin
    <3>3. K \union SaidOf(u, Walk(<<>>, u).seen) = K
      BY <2>2 DEF SaidOf
    <3> QED
      BY <2>2, <2>3, <3>2, <3>3
  <2> QED
    BY <2>1, <2>3
<1>2. ASSUME NEW b, NEW r, Block(b), r \in Files, Closed(r), r \in T PROVE b \o r \in T
  <2> DEFINE w == Walk(r, u)
             v == Walk(b \o r, u)
  <2>1. b \in Files /\ b \o r \in Files
    BY <1>2, FilesJoin DEF Block
  <2>2. w \in Walks /\ v = Turned(b, w, u) /\ Kept(b \o r) = Spared(b) \o Kept(r) /\ Kept(r) \in Files
    BY <1>2, WalkAhead, KeptAhead
  <2>3. w.lines \in Files /\ New(b, w, u) \in Files
    BY <2>1, <2>2, TurnedType DEF Walks
  <2>4. /\ v.lines = New(b, w, u) \o w.lines
        /\ v.seen = w.seen \union (IF Starts(b) /\ b[1].key \in Keyed THEN {b[1].key} ELSE {})
    BY <2>2 DEF Turned
  <2>5. P(r)
    BY <1>2
  <2>6. ASSUME NEW z, NEW K, Settled(z, K, <<>>, u), K \intersect v.seen = {}
        PROVE  Settled(v.lines \o z, K \union SaidOf(u, v.seen), Kept(b \o r), u)
    <3> DEFINE y == w.lines \o z
               J == K \union SaidOf(u, w.seen)
    <3>1. K \intersect w.seen = {}
      BY <2>4, <2>6
    <3>2. Settled(y, J, Kept(r), u)
      BY <2>5, <2>6, <3>1
    <3>3. z \in Files /\ y \in Files
      BY <2>3, <2>6, FilesJoin DEF Settled
    <3>4. v.lines \o z = New(b, w, u) \o y
      <4>1. (New(b, w, u) \o w.lines) \o z = New(b, w, u) \o (w.lines \o z)
        BY <2>3, <3>3, FilesJoin
      <4> QED
        BY <2>4, <4>1
    <3> HIDE DEF w, v, y
    <3>5. CASE ~(Starts(b) /\ b[1].key \in Keyed)
      <4>1. New(b, w, u) = b /\ v.seen = w.seen /\ Spared(b) = b
        BY <2>4, <3>5 DEF New, Spared
      <4>2. Settled(b \o y, J, b \o Kept(r), u)
        BY <1>2, <3>2, <3>5, OthersSettled
      <4> QED
        BY <2>2, <3>4, <4>1, <4>2
    <3>6. CASE Starts(b) /\ b[1].key \in Keyed
      <4> DEFINE k == b[1].key
      <4>1. v.seen = w.seen \union {k} /\ Kept(b \o r) = Kept(r)
        BY <2>2, <2>4, <3>6, FilesJoin DEF Spared
      <4>2. CASE k \in w.seen \/ u[k] = Empty
        <5>1. New(b, w, u) = <<>>
          BY <3>6, <4>2 DEF New
        <5>2. v.lines \o z = y
          BY <3>3, <3>4, <5>1, FilesJoin
        <5>3. SaidOf(u, v.seen) = SaidOf(u, w.seen)
          BY <4>1, <4>2 DEF SaidOf
        <5> QED
          BY <3>2, <4>1, <5>2, <5>3
      <4>3. CASE k \notin w.seen /\ u[k] # Empty
        <5>1. New(b, w, u) = Written(k, u[k])
          BY <3>6, <4>3 DEF New
        <5>2. SaidOf(u, v.seen) = SaidOf(u, w.seen) \union {k}
          BY <4>1, <4>3 DEF SaidOf
        <5>3. k \notin J
          BY <2>6, <4>1, <4>3 DEF SaidOf
        <5>4. k \in Keyed
          BY <3>6
        <5> HIDE DEF k, J
        <5>5. Settled(Written(k, u[k]) \o y, J \union {k}, Kept(r), u)
          BY <3>2, <4>3, <5>3, <5>4, AnswerSettled
        <5>6. J \union {k} = K \union SaidOf(u, v.seen)
          BY <5>2 DEF J
        <5> QED
          BY <3>4, <4>1, <5>1, <5>5, <5>6
      <4> QED
        BY <4>2, <4>3
    <3> QED
      BY <3>5, <3>6
  <2> QED
    BY <2>1, <2>6
<1>3. \A s \in Files : Closed(s) => s \in T
  <2>1. \A b, r : Block(b) /\ r \in Files /\ Closed(r) /\ r \in T => b \o r \in T
    BY <1>2
  <2> HIDE DEF T
  <2> QED
    BY <1>1, <2>1, BlockInduction, Zenon
<1> QED
  BY <1>3

\* A patched file says what was answered and keeps the rest.
LEMMA PatchSettles ==
  ASSUME NEW u \in Given, NEW s \in Files, Closed(s)
  PROVE  Settled(PatchLines(s, u), Said(u), Kept(s), u)
<1> DEFINE w == Walk(s, u)
           A == Appended(w.seen, u)
<1>1. w \in Walks
  BY WalkAhead
<1>2. w.seen \in SUBSET Keyed
  BY <1>1 DEF Walks
<1>3. Settled(A, Said(u) \ w.seen, <<>>, u)
  BY AppendedSettled
<1>4. (Said(u) \ w.seen) \intersect w.seen = {}
  OBVIOUS
<1>5. Settled(w.lines \o A, (Said(u) \ w.seen) \union SaidOf(u, w.seen), Kept(s), u)
  <2> DEFINE K == Said(u) \ w.seen
  <2>1. \A z, J : Settled(z, J, <<>>, u) /\ J \intersect w.seen = {} =>
                    Settled(w.lines \o z, J \union SaidOf(u, w.seen), Kept(s), u)
    BY WalkedSettled
  <2> HIDE DEF w, A
  <2> QED
    BY <1>3, <1>4, <2>1
<1>6. (Said(u) \ w.seen) \union SaidOf(u, w.seen) = Said(u)
  BY <1>2 DEF Said, SaidOf
<1> QED
  BY <1>5, <1>6 DEF PatchLines

\* Patching a patched file again with the same answers leaves it.
LEMMA PatchAgain ==
  ASSUME NEW u \in Given, NEW z, NEW q, Settled(z, Said(u), q, u)
  PROVE  PatchLines(z, u) = z
<1>1. z \in Files /\ Walk(z, u).lines = z /\ Walk(z, u).seen = Said(u)
  <2>1. z \in Files /\ Walk(z, u) = [lines |-> z, seen |-> Said(u)]
    BY DEF Settled
  <2> QED
    BY <2>1
<1>2. PatchLines(z, u) = z \o Appended(Said(u), u)
  BY <1>1 DEF PatchLines
<1>3. Appended(Said(u), u) = <<>>
  BY NothingAppended
<1> QED
  BY <1>1, <1>2, <1>3, FilesJoin

\* A settled file closes its quotes, and compose reads every answer out of it.
LEMMA SettledReads ==
  ASSUME NEW u \in Given, NEW z, NEW q, Settled(z, Said(u), q, u)
  PROVE  Closed(z) /\ z \in Files /\ Kept(z) = q /\ \A k \in Keyed : Value(z, k) = u[k]
<1>1. Closed(z) /\ z \in Files /\ Kept(z) = q /\ Sets(z) \intersect Keyed = Said(u)
      /\ \A k \in Said(u) : Value(z, k) = u[k]
  BY DEF Settled
<1>2. ASSUME NEW k \in Keyed \ Said(u) PROVE Value(z, k) = u[k]
  <2>1. k \notin Sets(z)
    BY <1>1
  <2>2. {i \in Scan(z) : z[i].key = k} = {}
    BY <2>1 DEF Sets
  <2>3. Value(z, k) = Empty
    BY <2>2 DEF Value
  <2> QED
    BY <2>3 DEF Said
<1> QED
  BY <1>1, <1>2

\* The file a save writes: what was answered, the rest as it was, and the header if it is new.
LEMMA RenderedSettles ==
  ASSUME NEW u \in Given, NEW file, file = NoFile \/ (file \in Files /\ file # NoFile /\ Closed(file))
  PROVE  /\ file # NoFile => Settled(Rendered(file, u), Said(u), Kept(file), u)
         /\ file = NoFile => \/ Settled(Rendered(file, u), Said(u), <<>>, u)
                             \/ Settled(Rendered(file, u), Said(u), <<Header>>, u)
<1>1. CASE file # NoFile
  <2>1. Rendered(file, u) = PatchLines(file, u)
    BY <1>1 DEF Rendered
  <2> QED
    BY <1>1, <2>1, PatchSettles
<1>2. CASE file = NoFile
  <2> DEFINE t == PatchLines(<<>>, u)
  <2>1. Rendered(file, u) = IF t # <<>> THEN <<Header>> \o t ELSE t
    BY <1>2 DEF Rendered
  <2>2. <<>> \in Files /\ Closed(<<>>) /\ Kept(<<>>) = <<>>
    BY FilesJoin, NothingSettled DEF Settled
  <2>3. Settled(t, Said(u), <<>>, u)
    BY <2>2, PatchSettles
  <2> HIDE DEF t
  <2> DEFINE b == <<Header>>
  <2>4. Block(b) /\ ~Starts(b)
    <3>1. Header \in AnyLine /\ Header.kind = "header"
      BY DEF AnyLine, Header, Line
    <3> QED
      BY <3>1 DEF Block, Files, Starts
  <2>5. b \o <<>> = b
    BY <2>4, FilesJoin DEF Block
  <2> HIDE DEF b
  <2>6. Settled(b \o t, Said(u), b \o <<>>, u)
    BY <2>3, <2>4, OthersSettled
  <2>7. Settled(b \o t, Said(u), b, u)
    BY <2>5, <2>6
  <2> QED
    BY <1>2, <2>1, <2>3, <2>7 DEF b
<1> QED
  BY <1>1, <1>2

-----------------------------------------------------------------------------
(* The theorems about the file *)

\* No file is taken for one that is not there.
LEMMA NoFileIsNone == NoFile \notin Files
BY EnvFileAssumption DEF Files

\* What a save writes is a file, whether or not the quotes of the one before close.
LEMMA RenderedType ==
  ASSUME NEW u \in Given, NEW file, file = NoFile \/ file \in Files
  PROVE  Rendered(file, u) \in Files
<1>1. ASSUME NEW s \in Files PROVE PatchLines(s, u) \in Files
  <2>1. Walk(s, u).lines \in Files
    BY WalkAhead DEF Walks
  <2>2. Appended(Walk(s, u).seen, u) \in Files
    BY AppendedSettled DEF Settled
  <2> QED
    BY <2>1, <2>2, FilesJoin DEF PatchLines
<1>2. <<Header>> \in Files /\ <<>> \in Files
  BY DEF Files, AnyLine
<1>3. (IF file = NoFile THEN <<>> ELSE file) \in Files
  BY <1>2
<1>4. PatchLines(IF file = NoFile THEN <<>> ELSE file, u) \in Files
  BY <1>1, <1>3
<1> QED
  BY <1>2, <1>4, FilesJoin DEF Rendered

\* Whatever is typed or saved, what there is is a file of lines.
THEOREM EnvFileTypeCorrect == EnvFileSpec => []EnvFileTypeOK
<1>1. EnvFileInit => EnvFileTypeOK
  BY DEF EnvFileInit, EnvFileTypeOK
<1>2. EnvFileTypeOK /\ [EnvFileNext]_EnvFileVars => EnvFileTypeOK'
  <2> SUFFICES ASSUME EnvFileTypeOK, [EnvFileNext]_EnvFileVars PROVE EnvFileTypeOK'
    OBVIOUS
  <2>1. CASE TypeLine
    <3> DEFINE now == IF lines = NoFile THEN <<>> ELSE lines
    <3>1. PICK line \in Typeable : lines' = Append(now, line) /\ answers' = Nobody
      BY <2>1 DEF TypeLine
    <3>2. now \in Seq(AnyLine) /\ line \in AnyLine
      BY DEF EnvFileTypeOK, Files, AnyLine
    <3> HIDE DEF now
    <3> QED
      BY <3>1, <3>2 DEF EnvFileTypeOK, Files
  <2>2. CASE SaveAnswers
    <3>1. PICK given \in Given : lines' = Rendered(lines, given) /\ answers' = given
      BY <2>2 DEF SaveAnswers, Given
    <3>2. lines' \in Files
      BY <3>1, RenderedType DEF EnvFileTypeOK, Files
    <3> QED
      BY <3>1, <3>2 DEF EnvFileTypeOK, Files, Given
  <2>3. CASE UNCHANGED EnvFileVars
    BY <2>3 DEF EnvFileVars, EnvFileTypeOK
  <2> QED
    BY <2>1, <2>2, <2>3 DEF EnvFileNext
<1> QED
  BY <1>1, <1>2, PTL DEF EnvFileSpec

\* A save of the form: what compose then reads is what was answered, saving it again
\* changes nothing, and every other line is as it was.
LEMMA SaveStepIsExact ==
  ASSUME EnvFileTypeOK, [EnvFileNext]_EnvFileVars, answers' # Nobody, Closed(FileOrNothing),
         ~UNCHANGED EnvFileVars
  PROVE  /\ Closed(lines') /\ \A k \in Keyed : Value(lines', k) = answers'[k]
         /\ Rendered(lines', answers') = lines'
         /\ \/ Kept(lines') = Kept(FileOrNothing)
            \/ lines = NoFile /\ Kept(lines') = <<Header>>
<1>1. SaveAnswers
  BY DEF EnvFileNext, TypeLine
<1>2. PICK u \in Given : lines' = Rendered(lines, u) /\ answers' = u
  BY <1>1 DEF SaveAnswers, Given
<1>3. lines = NoFile \/ (lines \in Files /\ lines # NoFile /\ Closed(lines))
  BY NoFileIsNone DEF EnvFileTypeOK, FileOrNothing, Files
<1>4. /\ lines # NoFile => Settled(lines', Said(u), Kept(lines), u)
      /\ lines = NoFile => Settled(lines', Said(u), <<>>, u) \/ Settled(lines', Said(u), <<Header>>, u)
  BY <1>2, <1>3, RenderedSettles
<1>5. Kept(<<>>) = <<>>
  BY FilesJoin, KeptAhead
<1>6. PICK q : /\ Settled(lines', Said(u), q, u)
               /\ q = Kept(FileOrNothing) \/ (lines = NoFile /\ q = <<Header>>)
  <2>1. CASE lines = NoFile
    BY <1>4, <1>5, <2>1 DEF FileOrNothing
  <2>2. CASE lines # NoFile
    BY <1>4, <2>2 DEF FileOrNothing
  <2> QED
    BY <2>1, <2>2
<1>7. Closed(lines') /\ lines' \in Files /\ Kept(lines') = q /\ \A k \in Keyed : Value(lines', k) = u[k]
  BY <1>6, SettledReads
<1>8. Rendered(lines', u) = lines'
  <2>1. lines' # NoFile
    BY <1>7, NoFileIsNone
  <2>2. PatchLines(lines', u) = lines'
    BY <1>6, PatchAgain
  <2> QED
    BY <2>1, <2>2 DEF Rendered
<1> QED
  BY <1>2, <1>6, <1>7, <1>8

\* A save of the form, of any answers into any file whose quotes close, changes what its
\* answers say, once, and nothing else.
THEOREM SavesAreExact == EnvFileSpec => SaveIsExact
<1>1. EnvFileTypeOK /\ [EnvFileNext]_EnvFileVars =>
        [ answers' # Nobody /\ Closed(FileOrNothing) =>
            Closed(lines') /\ \A k \in Keyed : Value(lines', k) = answers'[k] ]_EnvFileVars
  BY SaveStepIsExact
<1>2. EnvFileTypeOK /\ [EnvFileNext]_EnvFileVars =>
        [ answers' # Nobody /\ Closed(FileOrNothing) => Rendered(lines', answers') = lines' ]_EnvFileVars
  BY SaveStepIsExact
<1>3. EnvFileTypeOK /\ [EnvFileNext]_EnvFileVars =>
        [ answers' # Nobody /\ Closed(FileOrNothing) =>
            \/ Kept(lines') = Kept(FileOrNothing)
            \/ lines = NoFile /\ Kept(lines') = <<Header>> ]_EnvFileVars
  BY SaveStepIsExact
<1> QED
  BY <1>1, <1>2, <1>3, EnvFileTypeCorrect, PTL
  DEF EnvFileSpec, SaveIsExact, AnswersReadBack, SavedTwiceIsOnce, OtherLinesKept
=============================================================================
