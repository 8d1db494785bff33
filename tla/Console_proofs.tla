----------------------------- MODULE Console_proofs -----------------------------
(***************************************************************************)
(* Theorems about what an operator does in the console: the accounts and   *)
(* the store logins, and then all its parts as MCConsole composes them.    *)
(* An account that is created in two commands is what the dialog said, or  *)
(* the dialog said it failed; git and docker are logged in as the same     *)
(* user.  For any accounts, groups, hosts, users, tabs, faults and shells. *)
(***************************************************************************)
EXTENDS MCConsole, Sessions_proofs, Settings_proofs, SequenceTheorems, TLAPS

-----------------------------------------------------------------------------
(* Accounts *)

Kinds  == {"none", "add", "password", "groups", "delete"}
Places == {"none", "form", "creating", "created", "setting"}
Boxes  == Passwords \union {NoPassword}
Dialogs == [what : Kinds, name : Names \union {""}, at : Places, typed : Names \union {""},
            box : Boxes, chosen : SUBSET Groups, asked : Boxes, pressed : Names \union {""}]

\* The host: nobody who has no account is in a group or a service.
HostTyped ==
  /\ passwd \in [Names -> Passwords \union {Locked, Absent}]
  /\ service \subseteq Names /\ \A n \in service : passwd[n] # Absent
  /\ members \in [Groups -> SUBSET Names] /\ \A g \in Groups : \A n \in members[g] : passwd[n] # Absent

\* The pages, with the dialog's fields spelt out.
PageTyped ==
  /\ listed \in [Operators -> SUBSET Names]
  /\ dialog \in [Operators -> Dialogs]
  /\ heard \in [Operators -> {"nothing", "done", "failed"}]
  /\ faults \in 0..MaxFaults /\ shells \in 0..MaxShells
  /\ foreign \in [Operators -> SUBSET Names]

\* A dialog that is there is about an account, and one that is not is NoDialog.
Shown ==
  \A o \in Operators :
    IF dialog[o].at = "none" THEN dialog[o] = NoDialog
    ELSE /\ dialog[o].what # "none"
         /\ dialog[o].name \in Names /\ dialog[o].typed \in Names /\ dialog[o].pressed \in Names

\* From useradd to chpasswd: the name is still the one that was in the box, the account is
\* locked unless others have been at it, and chpasswd has its password once it is asked.
Halfway ==
  \A o \in Operators :
    dialog[o].what = "add" =>
      /\ dialog[o].at = "setting" <=> dialog[o].asked # NoPassword
      /\ dialog[o].at \in {"created", "setting"} =>
           /\ dialog[o].name = dialog[o].pressed
           /\ dialog[o].pressed \in foreign[o] \/ passwd[dialog[o].pressed] = Locked
      /\ dialog[o].at = "creating" => dialog[o].name = dialog[o].pressed

AccountsInv == HostTyped /\ PageTyped /\ Shown /\ Halfway

(* What the commands do to the host. *)

\* useradd leaves the host well formed, its account locked, and every other account alone.
LEMMA UseraddHost ==
  ASSUME HostTyped, NEW n \in Names, NEW gs \in SUBSET Groups, NEW b \in BOOLEAN, Useradd(n, gs, b)
  PROVE  HostTyped' /\ passwd'[n] = Locked /\ \A m \in Names \ {n} : passwd'[m] = passwd[m]
BY AccountsAssumption DEF HostTyped, Useradd

\* chpasswd of an account that is there sets its password and no other.
LEMMA ChpasswdHost ==
  ASSUME HostTyped, NEW n \in Names, NEW p \in Passwords, CanChange(n), Chpasswd(n, p)
  PROVE  HostTyped' /\ passwd'[n] = p /\ \A m \in Names \ {n} : passwd'[m] = passwd[m]
BY AccountsAssumption DEF HostTyped, CanChange, Chpasswd

\* gpasswd changes memberships only, and of accounts that are there.
LEMMA GpasswdHost ==
  ASSUME HostTyped, NEW n \in Names, NEW g \in Groups, CanChange(n) \/ n \in members[g], Gpasswd(n, g)
  PROVE  HostTyped' /\ passwd' = passwd
BY DEF HostTyped, CanChange, Gpasswd

\* userdel takes the account and its memberships, and touches no other.
LEMMA UserdelHost ==
  ASSUME HostTyped, NEW n \in Names, Userdel(n)
  PROVE  HostTyped' /\ \A m \in Names \ {n} : passwd'[m] = passwd[m]
BY DEF HostTyped, Userdel

\* A command that fails leaves the host as it was.
LEMMA FailsHost ==
  ASSUME HostTyped, faults \in 0..MaxFaults, NEW could, Fails(could)
  PROVE  HostTyped' /\ UNCHANGED hostVars /\ faults' \in 0..MaxFaults
BY AccountsAssumption DEF HostTyped, Fails, hostVars

(* What a change of its fields leaves of a dialog. *)

\* A dialog that waits for another command.
LEMMA NewAt ==
  ASSUME NEW d \in Dialogs, NEW x \in Places
  PROVE  LET e == [d EXCEPT !.at = x] IN
         /\ e \in Dialogs /\ e.at = x
         /\ e.what = d.what /\ e.name = d.name /\ e.typed = d.typed /\ e.asked = d.asked /\ e.pressed = d.pressed
BY DEF Dialogs

\* ... whose password box is typed into,
LEMMA NewBox ==
  ASSUME NEW d \in Dialogs, NEW x \in Boxes
  PROVE  LET e == [d EXCEPT !.box = x] IN
         /\ e \in Dialogs
         /\ e.what = d.what /\ e.at = d.at /\ e.name = d.name /\ e.typed = d.typed
         /\ e.asked = d.asked /\ e.pressed = d.pressed
BY DEF Dialogs

\* ... whose name box is typed into,
LEMMA NewTyped ==
  ASSUME NEW d \in Dialogs, NEW x \in Names
  PROVE  LET e == [d EXCEPT !.typed = x] IN
         /\ e \in Dialogs /\ e.typed = x
         /\ e.what = d.what /\ e.at = d.at /\ e.name = d.name /\ e.asked = d.asked /\ e.pressed = d.pressed
BY DEF Dialogs

\* ... in which groups are picked,
LEMMA NewChosen ==
  ASSUME NEW d \in Dialogs, NEW x \in SUBSET Groups
  PROVE  LET e == [d EXCEPT !.chosen = x] IN
         /\ e \in Dialogs
         /\ e.what = d.what /\ e.at = d.at /\ e.name = d.name /\ e.typed = d.typed
         /\ e.asked = d.asked /\ e.pressed = d.pressed
BY DEF Dialogs

\* ... that hands its password to chpasswd,
LEMMA NewAsked ==
  ASSUME NEW d \in Dialogs, NEW x \in Boxes
  PROVE  LET e == [d EXCEPT !.at = "setting", !.asked = x] IN
         /\ e \in Dialogs /\ e.at = "setting" /\ e.asked = x
         /\ e.what = d.what /\ e.name = d.name /\ e.typed = d.typed /\ e.pressed = d.pressed
BY DEF Dialogs, Places

\* ... that hands its name to useradd.
LEMMA NewName ==
  ASSUME NEW d \in Dialogs, NEW x \in Names
  PROVE  LET e == [d EXCEPT !.name = x, !.at = "creating", !.pressed = x] IN
         /\ e \in Dialogs /\ e.at = "creating" /\ e.name = x /\ e.pressed = x
         /\ e.what = d.what /\ e.typed = d.typed /\ e.asked = d.asked
BY DEF Dialogs, Places

(* One tab's dialog is replaced. *)
LEMMA DialogStep ==
  ASSUME PageTyped, NEW o \in Operators, NEW e \in Dialogs, dialog' = [dialog EXCEPT ![o] = e]
  PROVE  /\ dialog' \in [Operators -> Dialogs] /\ dialog'[o] = e
         /\ \A p \in Operators \ {o} : dialog'[p] = dialog[p]
BY DEF PageTyped

(* The invariant is inductive. *)

\* The dialog that is none waits for nothing and asked for nothing.
LEMMA NoDialogIs ==
  /\ NoDialog \in Dialogs /\ NoDialog.at = "none" /\ NoDialog.what = "none"
  /\ NoDialog.asked = NoPassword
BY DEF NoDialog, AccountDialog, Dialogs, Kinds, Places, Boxes

\* The invariant holds of a host and pages on which nothing has been done.
LEMMA AccountsInitInv == AccountsInit => AccountsInv
<1> SUFFICES ASSUME AccountsInit PROVE AccountsInv
  OBVIOUS
<1>1. HostTyped
  BY DEF AccountsInit, HostTyped
<1>2. PageTyped
  BY NoDialogIs, AccountsAssumption DEF AccountsInit, PageTyped
<1>3. Shown /\ Halfway
  BY NoDialogIs DEF AccountsInit, Shown, Halfway
<1> QED
  BY <1>1, <1>2, <1>3 DEF AccountsInv

\* The invariant of one tab's dialog.
DialogSound(o) ==
  /\ IF dialog[o].at = "none" THEN dialog[o] = NoDialog
     ELSE /\ dialog[o].what # "none"
          /\ dialog[o].name \in Names /\ dialog[o].typed \in Names /\ dialog[o].pressed \in Names
  /\ dialog[o].what = "add" =>
      /\ dialog[o].at = "setting" <=> dialog[o].asked # NoPassword
      /\ dialog[o].at \in {"created", "setting"} =>
           /\ dialog[o].name = dialog[o].pressed
           /\ dialog[o].pressed \in foreign[o] \/ passwd[dialog[o].pressed] = Locked
      /\ dialog[o].at = "creating" => dialog[o].name = dialog[o].pressed

(* Another tab's dialog stays, and what is done to its account is noted there. *)
LEMMA OtherDialogs ==
  ASSUME AccountsInv, NEW o \in Operators, HostTyped', PageTyped', DialogSound(o)',
         \A p \in Operators \ {o} : /\ dialog'[p] = dialog[p] /\ foreign[p] \subseteq foreign'[p]
                                    /\ \A n \in Names : passwd'[n] # passwd[n] => n \in foreign'[p]
  PROVE  AccountsInv'
<1>1. ASSUME NEW p \in Operators \ {o} PROVE DialogSound(p)'
  BY <1>1 DEF AccountsInv, Shown, Halfway, DialogSound
<1>2. \A p \in Operators : DialogSound(p)'
  BY <1>1
<1> QED
  BY <1>2 DEF AccountsInv, DialogSound, Shown, Halfway

\* Every step of an operator or of a shell keeps it.
LEMMA AccountsInvStep == AccountsInv /\ [AccountsNext]_AccountsVars => AccountsInv'
<1> SUFFICES ASSUME AccountsInv, [AccountsNext]_AccountsVars PROVE AccountsInv'
  OBVIOUS
<1>0. HostTyped /\ PageTyped /\ \A o \in Operators : DialogSound(o)
  BY DEF AccountsInv, DialogSound, Shown, Halfway
<1> USE DEF hostVars, At, Say, Shut
<1>1. ASSUME NEW o \in Operators, DrawList(o) PROVE AccountsInv'
  <2>1. \A all : People(all) \subseteq Names
    BY DEF People, Accounted
  <2>2. listed' \in [Operators -> SUBSET Names]
    BY <1>0, <1>1, <2>1 DEF DrawList, PageTyped
  <2> QED
    BY <1>1, <2>2 DEF DrawList, AccountsInv, HostTyped, PageTyped, Shown, Halfway
<1>2. ASSUME NEW o \in Operators, NEW n \in Names, NEW what \in {"add", "password", "groups", "delete"},
             OpenDialog(o, what, n)
      PROVE  AccountsInv'
  <2>1. PICK groups \in SUBSET Groups :
          dialog' = [dialog EXCEPT ![o] = AccountDialog(what, n, groups)]
    BY <1>2 DEF OpenDialog
  <2>2. AccountDialog(what, n, groups) \in Dialogs
    BY DEF AccountDialog, Dialogs, Kinds, Places, Boxes
  <2>3. HostTyped' /\ PageTyped'
    BY <1>0, <1>2, <2>1, <2>2 DEF OpenDialog, HostTyped, PageTyped
  <2>4. DialogSound(o)'
    BY <1>0, <2>1 DEF PageTyped, DialogSound, AccountDialog
  <2> QED
    BY <1>0, <1>2, <2>1, <2>3, <2>4, OtherDialogs DEF OpenDialog, PageTyped
<1>3. ASSUME NEW o \in Operators, CloseDialog(o) PROVE AccountsInv'
  <2>1. HostTyped' /\ PageTyped'
    BY <1>0, <1>3, NoDialogIs DEF CloseDialog, HostTyped, PageTyped
  <2>2. DialogSound(o)'
    BY <1>0, <1>3, NoDialogIs DEF CloseDialog, PageTyped, DialogSound
  <2> QED
    BY <1>0, <1>3, <2>1, <2>2, OtherDialogs DEF CloseDialog, PageTyped
<1>4. ASSUME NEW o \in Operators, TypeBox(o) PROVE AccountsInv'
  <2>0. dialog[o] \in Dialogs
    BY <1>0 DEF PageTyped
  <2>1. PICK x \in Boxes : dialog' = [dialog EXCEPT ![o] = [dialog[o] EXCEPT !.box = x]]
    BY <1>0, <1>4, <2>0 DEF TypeBox, PageTyped, Boxes, Dialogs, DialogSound
  <2> DEFINE e == [dialog[o] EXCEPT !.box = x]
  <2>2. e \in Dialogs /\ dialog' = [dialog EXCEPT ![o] = e]
    BY <2>0, <2>1, NewBox DEF Places
  <2>3. HostTyped' /\ PageTyped'
    BY <1>0, <1>4, <2>2, DialogStep DEF TypeBox, HostTyped, PageTyped
  <2>4. DialogSound(o)'
    <3>1. dialog'[o] = e
      BY <1>0, <2>2, DialogStep
    <3>2. /\ dialog'[o].at = dialog[o].at /\ dialog'[o].what = dialog[o].what
          /\ dialog'[o].name = dialog[o].name /\ dialog'[o].typed = dialog[o].typed
          /\ dialog'[o].asked = dialog[o].asked /\ dialog'[o].pressed = dialog[o].pressed
      BY <2>0, <2>1, <3>1, NewBox DEF Boxes
    <3>3. dialog[o].at # "none" /\ DialogSound(o) /\ passwd' = passwd /\ foreign' = foreign
      BY <1>0, <1>4, NoDialogIs DEF TypeBox, DialogSound
    <3> QED
      BY <1>4, <2>1, <3>2, <3>3 DEF TypeBox, DialogSound
  <2> QED
    BY <1>0, <1>4, <2>2, <2>3, <2>4, DialogStep, OtherDialogs DEF TypeBox
<1>5. ASSUME NEW o \in Operators, TypeName(o) PROVE AccountsInv'
  <2>0. dialog[o] \in Dialogs
    BY <1>0 DEF PageTyped
  <2>1. PICK x \in Names : dialog' = [dialog EXCEPT ![o] = [dialog[o] EXCEPT !.typed = x]]
    BY <1>0, <1>5, <2>0 DEF TypeName, PageTyped, Boxes, Dialogs, DialogSound
  <2> DEFINE e == [dialog[o] EXCEPT !.typed = x]
  <2>2. e \in Dialogs /\ dialog' = [dialog EXCEPT ![o] = e]
    BY <2>0, <2>1, NewTyped DEF Places
  <2>3. HostTyped' /\ PageTyped'
    BY <1>0, <1>5, <2>2, DialogStep DEF TypeName, HostTyped, PageTyped
  <2>4. DialogSound(o)'
    <3>1. dialog'[o] = e
      BY <1>0, <2>2, DialogStep
    <3>4. x \in Names
      BY <2>1
    <3>5. /\ e.at = dialog[o].at /\ e.what = dialog[o].what
          /\ e.name = dialog[o].name /\ e.typed = x
          /\ e.asked = dialog[o].asked /\ e.pressed = dialog[o].pressed
      BY <2>0, <3>4, NewTyped
    <3>2. /\ dialog'[o].at = dialog[o].at /\ dialog'[o].what = dialog[o].what
          /\ dialog'[o].name = dialog[o].name /\ dialog'[o].typed = x
          /\ dialog'[o].asked = dialog[o].asked /\ dialog'[o].pressed = dialog[o].pressed
      BY <3>1, <3>5
    <3>3. dialog[o].at # "none" /\ DialogSound(o) /\ passwd' = passwd /\ foreign' = foreign
      BY <1>0, <1>5, NoDialogIs DEF TypeName, DialogSound
    <3> QED
      BY <1>5, <2>1, <3>2, <3>3 DEF TypeName, DialogSound
  <2> QED
    BY <1>0, <1>5, <2>2, <2>3, <2>4, DialogStep, OtherDialogs DEF TypeName
<1>6. ASSUME NEW o \in Operators, NEW g \in Groups, Pick(o, g) PROVE AccountsInv'
  <2>0. dialog[o] \in Dialogs
    BY <1>0 DEF PageTyped
  <2>1. PICK x \in SUBSET Groups : dialog' = [dialog EXCEPT ![o] = [dialog[o] EXCEPT !.chosen = x]]
    BY <1>0, <1>6, <2>0 DEF Pick, PageTyped, Boxes, Dialogs, DialogSound
  <2> DEFINE e == [dialog[o] EXCEPT !.chosen = x]
  <2>2. e \in Dialogs /\ dialog' = [dialog EXCEPT ![o] = e]
    BY <2>0, <2>1, NewChosen DEF Places
  <2>3. HostTyped' /\ PageTyped'
    BY <1>0, <1>6, <2>2, DialogStep DEF Pick, HostTyped, PageTyped
  <2>4. DialogSound(o)'
    BY <1>0, <1>6, <2>0, <2>1, <2>2, NewChosen, DialogStep DEF Pick, DialogSound, Places
  <2> QED
    BY <1>0, <1>6, <2>2, <2>3, <2>4, DialogStep, OtherDialogs DEF Pick
<1>7. ASSUME NEW o \in Operators, Create(o) PROVE AccountsInv'
  <2>0. dialog[o] \in Dialogs
    BY <1>0 DEF PageTyped
  <2>1. PICK x \in Names : dialog' = [dialog EXCEPT ![o] = [dialog[o] EXCEPT !.name = x, !.at = "creating", !.pressed = x]]
    BY <1>0, <1>7, <2>0 DEF Create, PageTyped, Boxes, Dialogs, DialogSound
  <2> DEFINE e == [dialog[o] EXCEPT !.name = x, !.at = "creating", !.pressed = x]
  <2>2. e \in Dialogs /\ dialog' = [dialog EXCEPT ![o] = e]
    BY <2>0, <2>1, NewName DEF Places
  <2>3. HostTyped' /\ PageTyped'
    BY <1>0, <1>7, <2>2, DialogStep DEF Create, HostTyped, PageTyped
  <2>4. DialogSound(o)'
    <3>1. dialog'[o] = e
      BY <1>0, <2>2, DialogStep
    <3>4. x \in Names
      BY <2>1
    <3>5. /\ e.at = "creating" /\ e.what = dialog[o].what
          /\ e.name = x /\ e.typed = dialog[o].typed
          /\ e.asked = dialog[o].asked /\ e.pressed = x
      BY <2>0, <3>4, NewName
    <3>2. /\ dialog'[o].at = "creating" /\ dialog'[o].what = dialog[o].what
          /\ dialog'[o].name = x /\ dialog'[o].typed = dialog[o].typed
          /\ dialog'[o].asked = dialog[o].asked /\ dialog'[o].pressed = x
      BY <3>1, <3>5
    <3>3. dialog[o].at # "none" /\ DialogSound(o) /\ passwd' = passwd /\ foreign' = foreign
      BY <1>0, <1>7, NoDialogIs DEF Create, DialogSound
    <3> QED
      BY <1>7, <2>1, <3>2, <3>3 DEF Create, DialogSound
  <2> QED
    BY <1>0, <1>7, <2>2, <2>3, <2>4, DialogStep, OtherDialogs DEF Create
<1>8. ASSUME NEW o \in Operators, AddWorks(o) PROVE AccountsInv'
  <2> DEFINE n == dialog[o].name
  <2>1. n \in Names /\ dialog[o].chosen \in SUBSET Groups /\ n = dialog[o].pressed
    BY <1>0, <1>8 DEF AddWorks, PageTyped, Dialogs, DialogSound
  <2>2. PICK nologin \in BOOLEAN : Useradd(n, dialog[o].chosen, nologin)
    BY <1>8 DEF AddWorks
  <2>3. HostTyped' /\ passwd'[n] = Locked /\ \A m \in Names \ {n} : passwd'[m] = passwd[m]
    BY <1>0, <2>1, <2>2, UseraddHost
  <2>4. PageTyped'
    <3>1. [dialog[o] EXCEPT !.at = "created"] \in Dialogs
      BY <1>0, NewAt DEF PageTyped, Places
    <3>2. dialog' = [dialog EXCEPT ![o] = [dialog[o] EXCEPT !.at = "created"]]
      BY <1>8 DEF AddWorks
    <3> QED
      BY <1>0, <1>8, <2>1, <3>1, <3>2 DEF AddWorks, PageTyped
  <2>5. DialogSound(o)'
    <3>1. dialog[o] \in Dialogs /\ dialog' = [dialog EXCEPT ![o] = [dialog[o] EXCEPT !.at = "created"]]
      BY <1>0, <1>8 DEF AddWorks, PageTyped
    <3> DEFINE e == [dialog[o] EXCEPT !.at = "created"]
    <3>2. /\ e \in Dialogs /\ e.at = "created" /\ e.what = dialog[o].what
          /\ e.name = dialog[o].name /\ e.typed = dialog[o].typed
          /\ e.asked = dialog[o].asked /\ e.pressed = dialog[o].pressed
      BY <3>1, NewAt DEF Places
    <3>3. dialog'[o] = e
      BY <1>0, <3>1, <3>2, DialogStep
    <3>4. dialog[o].at = "creating" /\ dialog[o].what = "add" /\ DialogSound(o)
      BY <1>0, <1>8 DEF AddWorks
    <3> HIDE DEF e
    <3> QED
      BY <2>1, <2>3, <3>2, <3>3, <3>4 DEF DialogSound
  <2> QED
    BY <1>0, <1>8, <2>1, <2>3, <2>4, <2>5, OtherDialogs DEF AddWorks, PageTyped
<1>9. ASSUME NEW o \in Operators, AddFails(o) PROVE AccountsInv'
  <2>1. HostTyped' /\ UNCHANGED hostVars /\ faults' \in 0..MaxFaults
    BY <1>0, <1>9, FailsHost DEF AddFails, PageTyped
  <2>2. PageTyped'
    <3>1. [dialog[o] EXCEPT !.at = "form"] \in Dialogs
      BY <1>0, NewAt DEF PageTyped, Places
    <3>2. dialog' = [dialog EXCEPT ![o] = [dialog[o] EXCEPT !.at = "form"]]
      BY <1>9 DEF AddFails
    <3> QED
      BY <1>0, <1>9, <2>1, <3>1, <3>2 DEF AddFails, PageTyped
  <2>3. DialogSound(o)'
    BY <1>0, <1>9 DEF AddFails, PageTyped, Dialogs, DialogSound
  <2> QED
    BY <1>0, <1>9, <2>1, <2>2, <2>3, OtherDialogs DEF AddFails, PageTyped
<1>10. ASSUME NEW o \in Operators, AddEnds(o) PROVE AccountsInv'
  <2>1. HostTyped' /\ PageTyped'
    BY <1>0, <1>10, NoDialogIs DEF AddEnds, HostTyped, PageTyped
  <2>2. DialogSound(o)'
    BY <1>0, <1>10, NoDialogIs DEF AddEnds, PageTyped, DialogSound
  <2> QED
    BY <1>0, <1>10, <2>1, <2>2, OtherDialogs DEF AddEnds, PageTyped
<1>11. ASSUME NEW o \in Operators, AddAsks(o) PROVE AccountsInv'
  <2>0. dialog[o] \in Dialogs
    BY <1>0 DEF PageTyped
  <2>1. PICK x \in Passwords : dialog' = [dialog EXCEPT ![o] = [dialog[o] EXCEPT !.at = "setting", !.asked = x]]
    BY <1>0, <1>11, <2>0 DEF AddAsks, PageTyped, Boxes, Dialogs, DialogSound
  <2> DEFINE e == [dialog[o] EXCEPT !.at = "setting", !.asked = x]
  <2>2. e \in Dialogs /\ dialog' = [dialog EXCEPT ![o] = e]
    BY <2>0, <2>1, NewAsked DEF Boxes
  <2>3. HostTyped' /\ PageTyped'
    BY <1>0, <1>11, <2>2, DialogStep DEF AddAsks, HostTyped, PageTyped
  <2>4. DialogSound(o)'
    <3>1. dialog'[o] = e
      BY <1>0, <2>2, DialogStep
    <3>4. x \in Boxes
      BY <2>1 DEF Boxes
    <3>5. /\ e.at = "setting" /\ e.what = dialog[o].what
          /\ e.name = dialog[o].name /\ e.typed = dialog[o].typed
          /\ e.asked = x /\ e.pressed = dialog[o].pressed
      BY <2>0, <3>4, NewAsked
    <3>2. /\ dialog'[o].at = "setting" /\ dialog'[o].what = dialog[o].what
          /\ dialog'[o].name = dialog[o].name /\ dialog'[o].typed = dialog[o].typed
          /\ dialog'[o].asked = x /\ dialog'[o].pressed = dialog[o].pressed
      BY <3>1, <3>5
    <3>3. dialog[o].at # "none" /\ DialogSound(o) /\ passwd' = passwd /\ foreign' = foreign
      BY <1>0, <1>11, NoDialogIs DEF AddAsks, DialogSound
    <3> QED
      BY <1>11, <2>1, <3>2, <3>3, AccountsAssumption DEF AddAsks, DialogSound
  <2> QED
    BY <1>0, <1>11, <2>2, <2>3, <2>4, DialogStep, OtherDialogs DEF AddAsks
<1>12. ASSUME NEW o \in Operators, NEW n \in Names, NEW p \in Passwords,
              dialog[o].what \in {"add", "password"},
              CanChange(n), Chpasswd(n, p), Say(o, "done"), Shut(o), Touch(o, n),
              UNCHANGED <<faults, listed, shells>>
      PROVE  AccountsInv'
  <2>1. HostTyped' /\ passwd'[n] = p /\ \A m \in Names \ {n} : passwd'[m] = passwd[m]
    BY <1>0, <1>12, ChpasswdHost
  <2>2. PageTyped'
    BY <1>0, <1>12, NoDialogIs DEF PageTyped, Touch
  <2>3. DialogSound(o)'
    BY <1>0, <1>12, NoDialogIs DEF PageTyped, DialogSound
  <2> QED
    BY <1>0, <1>12, <2>1, <2>2, <2>3, OtherDialogs DEF PageTyped, Touch
<1>13. ASSUME NEW o \in Operators, NEW could, Fails(could), Say(o, "failed"), UNCHANGED <<listed, shells, foreign>>,
              Shut(o) \/ UNCHANGED dialog
      PROVE  AccountsInv'
  <2>1. HostTyped' /\ UNCHANGED hostVars /\ faults' \in 0..MaxFaults
    BY <1>0, <1>13, FailsHost DEF PageTyped
  <2>2. PageTyped'
    BY <1>0, <1>13, <2>1, NoDialogIs DEF PageTyped
  <2>3. DialogSound(o)'
    BY <1>0, <1>13, <2>1, NoDialogIs DEF PageTyped, DialogSound
  <2> QED
    BY <1>0, <1>13, <2>1, <2>2, <2>3, OtherDialogs DEF PageTyped
<1>14. ASSUME NEW o \in Operators, AddSets(o) PROVE AccountsInv'
  <2>1. dialog[o].name \in Names /\ dialog[o].asked \in Passwords
    BY <1>0, <1>14 DEF AddSets, PageTyped, Dialogs, Boxes, DialogSound
  <2> QED
    BY <1>12, <1>13, <1>14, <2>1 DEF AddSets
<1>15. ASSUME NEW o \in Operators, SetPassword(o) PROVE AccountsInv'
  <2>1. dialog[o].name \in Names /\ dialog[o].box \in Passwords
    BY <1>0, <1>15 DEF SetPassword, PageTyped, Dialogs, Boxes, DialogSound
  <2> QED
    BY <1>12, <1>13, <1>15, <2>1 DEF SetPassword
<1>16. ASSUME NEW o \in Operators, NEW g \in Groups, Regroup(o, g) PROVE AccountsInv'
  <2> DEFINE n == dialog[o].name
             works == IF g \in dialog[o].chosen THEN CanLeave(n, g) ELSE CanJoin(n, g)
             Regrouped == /\ works
                          /\ IF g \in dialog[o].chosen \/ n \notin members[g] THEN Gpasswd(n, g) ELSE UNCHANGED hostVars
                          /\ Say(o, "done") /\ Touch(o, n) /\ UNCHANGED faults
                          /\ dialog' = [dialog EXCEPT ![o].chosen = {h \in Groups : n \in members'[h]}]
  <2>1. n \in Names /\ dialog[o].what = "groups" /\ dialog[o].at = "form"
    BY <1>0, <1>16 DEF Regroup, DialogSound
  <2>2. CASE Regrouped
    <3>1. HostTyped' /\ passwd' = passwd
      BY <1>0, <2>1, <2>2, GpasswdHost DEF CanLeave, CanJoin, CanChange, HostTyped
    <3>2. PageTyped'
      <4> DEFINE groups == {h \in Groups : n \in members'[h]}
      <4>1. [dialog[o] EXCEPT !.chosen = groups] \in Dialogs
        BY <1>0, NewChosen DEF PageTyped
      <4>2. dialog' = [dialog EXCEPT ![o] = [dialog[o] EXCEPT !.chosen = groups]]
        BY <2>2
      <4>3. dialog' \in [Operators -> Dialogs]
        BY <1>0, <4>1, <4>2, DialogStep
      <4> QED
        BY <1>0, <1>16, <2>1, <2>2, <4>3 DEF Regroup, PageTyped, Touch
    <3>3. DialogSound(o)'
      BY <1>0, <2>1, <2>2 DEF PageTyped, Dialogs, DialogSound
    <3> QED
      BY <1>0, <2>1, <2>2, <3>1, <3>2, <3>3, OtherDialogs DEF PageTyped, Touch
  <2>3. CASE ~Regrouped
    BY <1>13, <1>16, <2>3 DEF Regroup
  <2> QED
    BY <2>2, <2>3
<1>17. ASSUME NEW o \in Operators, Delete(o) PROVE AccountsInv'
  <2> DEFINE n == dialog[o].name
             Deleted == CanChange(n) /\ Userdel(n) /\ Say(o, "done") /\ Shut(o) /\ Touch(o, n) /\ UNCHANGED faults
  <2>1. n \in Names
    BY <1>0, <1>17 DEF Delete, DialogSound
  <2>2. CASE Deleted
    <3>1. HostTyped' /\ \A m \in Names \ {n} : passwd'[m] = passwd[m]
      BY <1>0, <2>1, <2>2, UserdelHost
    <3>2. PageTyped'
      BY <1>0, <1>17, <2>1, <2>2, NoDialogIs DEF Delete, PageTyped, Touch
    <3>3. DialogSound(o)'
      BY <1>0, <2>2, NoDialogIs DEF PageTyped, DialogSound
    <3> QED
      BY <1>0, <2>1, <2>2, <3>1, <3>2, <3>3, OtherDialogs DEF PageTyped, Touch
  <2>3. CASE ~Deleted
    BY <1>13, <1>17, <2>3 DEF Delete
  <2> QED
    BY <2>2, <2>3
<1>18. ASSUME NEW n \in Names, Shell(n) PROVE AccountsInv'
  <2>1. HostTyped' /\ \A m \in Names \ {n} : passwd'[m] = passwd[m]
    <3>1. CASE CanAdd(n) /\ \E nologin \in BOOLEAN : Useradd(n, {}, nologin)
      BY <1>0, <3>1, UseraddHost
    <3>2. CASE CanChange(n) /\ \E p \in Passwords : Chpasswd(n, p)
      BY <1>0, <3>2, ChpasswdHost
    <3>3. CASE CanChange(n) /\ \E g \in Groups : Gpasswd(n, g)
      BY <1>0, <3>3, GpasswdHost
    <3>4. CASE CanChange(n) /\ Userdel(n)
      BY <1>0, <3>4, UserdelHost
    <3> QED
      BY <1>18, <3>1, <3>2, <3>3, <3>4 DEF Shell
  <2>2. PageTyped'
    BY <1>0, <1>18, AccountsAssumption DEF Shell, PageTyped, pageVars
  <2>3. \A o \in Operators : DialogSound(o)'
    BY <1>0, <1>18, <2>1 DEF Shell, PageTyped, pageVars, DialogSound
  <2> QED
    BY <2>1, <2>2, <2>3 DEF AccountsInv, DialogSound, Shown, Halfway
<1>19. CASE UNCHANGED AccountsVars
  BY <1>19 DEF AccountsVars, pageVars, AccountsInv, HostTyped, PageTyped, Shown, Halfway
<1> QED
  BY <1>1, <1>2, <1>3, <1>4, <1>5, <1>6, <1>7, <1>8, <1>9, <1>10, <1>11, <1>14, <1>15, <1>16, <1>17,
     <1>18, <1>19 DEF AccountsNext, Operate

\* The invariant holds in every behaviour of the accounts.
THEOREM AccountsInvariant == AccountsSpec => []AccountsInv
BY AccountsInitInv, AccountsInvStep, PTL DEF AccountsSpec

\* Every variable keeps its type: no group and no service names an account that is gone,
\* and a dialog that is open is about an account.
THEOREM AccountsTypeCorrect == AccountsSpec => []AccountsTypeOK
<1>1. AccountsInv => AccountsTypeOK
  <2> SUFFICES ASSUME AccountsInv PROVE AccountsTypeOK
    OBVIOUS
  <2> USE DEF AccountsInv, HostTyped, PageTyped
  <2>1. service \subseteq Accounted /\ members \in [Groups -> SUBSET Accounted]
    BY DEF Accounted
  <2>2. ASSUME NEW o \in Operators
        PROVE  dialog[o] = NoDialog
               \/ /\ {dialog[o].name, dialog[o].typed, dialog[o].pressed} \subseteq Names
                  /\ {dialog[o].asked, dialog[o].box} \subseteq Passwords \union {NoPassword}
                  /\ dialog[o].chosen \subseteq Groups
    BY DEF Shown, Dialogs, Boxes
  <2> QED
    BY <2>1, <2>2 DEF AccountsTypeOK
<1> QED
  BY <1>1, AccountsInvariant, PTL

\* However the two commands of a new account interleave with everybody else's: the dialog
\* ends with the account as asked for, or with a failure, and sets nobody else's password.
THEOREM NewAccountIsWhole == AccountsSpec => AddIsWhole
<1>1. AccountsInv /\ [AccountsNext]_AccountsVars =>
        [\A o \in Operators :
           dialog[o].what = "add" /\ dialog[o].at \in {"created", "setting"} /\ dialog'[o] = NoDialog =>
             /\ \A n \in Names \ {dialog[o].pressed} : passwd'[n] = passwd[n]
             /\ \/ heard'[o] = "failed"
                \/ dialog[o].pressed \in foreign'[o]
                \/ passwd'[dialog[o].pressed] = IF dialog[o].asked = NoPassword THEN Locked ELSE dialog[o].asked]_AccountsVars
  <2> SUFFICES ASSUME AccountsInv, [AccountsNext]_AccountsVars, NEW o \in Operators, dialog[o].what = "add",
                      dialog[o].at \in {"created", "setting"}, dialog'[o] = NoDialog
               PROVE  /\ \A n \in Names \ {dialog[o].pressed} : passwd'[n] = passwd[n]
                      /\ \/ heard'[o] = "failed"
                         \/ dialog[o].pressed \in foreign'[o]
                         \/ passwd'[dialog[o].pressed] = IF dialog[o].asked = NoPassword THEN Locked ELSE dialog[o].asked
    OBVIOUS
  <2>1. HostTyped /\ PageTyped /\ dialog[o] \in Dialogs
    BY DEF AccountsInv, PageTyped
  <2>2. /\ dialog[o].name = dialog[o].pressed /\ dialog[o].pressed \in Names
        /\ dialog[o].pressed \in foreign[o] \/ passwd[dialog[o].pressed] = Locked
        /\ dialog[o].at = "setting" <=> dialog[o].asked # NoPassword
    BY DEF AccountsInv, Shown, Halfway
  <2>3. AddEnds(o) \/ AddSets(o)
    <3> USE DEF At, Shut
    <3>1. dialog' # dialog
      BY NoDialogIs
    <3>2. PICK p \in Operators : Operate(p)
      BY <3>1 DEF AccountsNext, AccountsVars, pageVars, Shell
    <3>3. CASE p = o
      <4>1. ~CloseDialog(o) /\ ~Create(o) /\ ~AddFails(o) /\ ~AddWorks(o) /\ ~SetPassword(o) /\ ~Delete(o)
            /\ \A g \in Groups : ~Pick(o, g) /\ ~Regroup(o, g)
        BY DEF CloseDialog, Create, AddFails, AddWorks, SetPassword, Delete, Pick, Regroup
      <4>2. ~DrawList(o) /\ \A n \in Names, what \in {"add", "password", "groups", "delete"} :
                             ~OpenDialog(o, what, n)
        BY <3>1, NoDialogIs DEF DrawList, OpenDialog
      <4>3. ~TypeBox(o) /\ ~TypeName(o) /\ ~AddAsks(o)
        <5>1. dialog'[o].what = "none"
          BY NoDialogIs
        <5>2. ASSUME TypeBox(o) PROVE FALSE
          <6>1. PICK x \in Boxes : dialog' = [dialog EXCEPT ![o] = [dialog[o] EXCEPT !.box = x]]
            BY <5>2 DEF TypeBox, Boxes
          <6> QED
            BY <2>1, <5>1, <6>1, NewBox, DialogStep
        <5>3. ASSUME TypeName(o) PROVE FALSE
          <6>1. PICK x \in Names : dialog' = [dialog EXCEPT ![o] = [dialog[o] EXCEPT !.typed = x]]
            BY <5>3 DEF TypeName
          <6> DEFINE e == [dialog[o] EXCEPT !.typed = x]
          <6>2. e \in Dialogs /\ e.what = dialog[o].what
            BY <2>1, <6>1, NewTyped
          <6>3. dialog'[o] = e
            BY <2>1, <6>1, <6>2, DialogStep
          <6> QED
            BY <5>1, <6>2, <6>3
        <5>4. ASSUME AddAsks(o) PROVE FALSE
          <6>1. /\ dialog[o].box \in Boxes
                /\ dialog' = [dialog EXCEPT ![o] = [dialog[o] EXCEPT !.at = "setting", !.asked = dialog[o].box]]
            BY <2>1, <5>4 DEF AddAsks, Dialogs
          <6> DEFINE e == [dialog[o] EXCEPT !.at = "setting", !.asked = dialog[o].box]
          <6>2. e \in Dialogs /\ e.what = dialog[o].what
            BY <2>1, <6>1, NewAsked
          <6>3. dialog'[o] = e
            BY <2>1, <6>1, <6>2, DialogStep
          <6> QED
            BY <5>1, <6>2, <6>3
        <5> QED
          BY <5>2, <5>3, <5>4
      <4> QED
        BY <3>2, <3>3, <4>1, <4>2, <4>3 DEF Operate
    <3>4. CASE p # o
      <4>1. dialog'[o] = dialog[o]
        BY <2>1, <3>2, <3>4 DEF Operate, PageTyped, DrawList, CloseDialog, TypeBox, TypeName, OpenDialog,
           Create, AddWorks, AddFails, AddEnds, AddAsks, AddSets, SetPassword, Delete, Pick, Regroup
      <4> QED
        BY <4>1, NoDialogIs
    <3> QED
      BY <3>3, <3>4
  <2>4. CASE AddEnds(o)
    BY <2>2, <2>4 DEF AddEnds, At, hostVars
  <2>5. CASE AddSets(o)
    BY <2>1, <2>2, <2>5 DEF AddSets, At, Say, Fails, Chpasswd, HostTyped, PageTyped, hostVars
  <2> QED
    BY <2>3, <2>4, <2>5
<1> QED
  BY <1>1, AccountsInvariant, PTL DEF AccountsSpec, AddIsWhole

-----------------------------------------------------------------------------
(* Logins *)

\* One page or terminal at a time.
SoleHand == \A r, s \in Hands : r = s

\* What can be under way: a login is of one user, a logout of none.
Operations ==
  [op : {"none"}, host : {""}, user : {NoUser}]
    \union [op : {"approve", "login"}, host : Keys, user : Users]
    \union [op : {"reject", "logout"}, host : Keys, user : {NoUser}]

\* A host has one line of a user at most.
Lined(ls) == ls \in Seq(Users) /\ \A i, j \in 1..Len(ls) : ls[i] = ls[j] => i = j

LoginsTyped ==
  /\ DOMAIN store = Keys /\ \A h \in Keys : Lined(store[h])
  /\ docker \in [Keys -> Users \union {NoUser}]
  /\ running \in [Hands -> Operations]
  /\ sawHosts \in [Hands -> SUBSET Keys]
  /\ told \subseteq Keys

\* git's half is done when docker's begins, and only then do the two disagree without a
\* word about it.
HalfWay ==
  /\ \A s \in Hands : running[s].op \in {"login", "logout"} => GitUser(running[s].host) = running[s].user
  /\ \A h \in Keys \ told :
       docker[h] = GitUser(h) \/ \E s \in Hands : running[s].op \in {"login", "logout"} /\ running[s].host = h

LoginsInv == LoginsTyped /\ (SoleHand => HalfWay)

(* The list names hosts that a command can be given. *)
LEMMA ListedKeys == \A h \in Keys : AsListed(h) \in Keys
BY LoginsAssumption DEF Keys

(* So it lists hosts that can be logged out of. *)
LEMMA ListedTyped == Listed \subseteq Keys
BY ListedKeys DEF Listed

(* The next half of an operation is for the same host and user. *)
LEMMA NextHalf ==
  ASSUME NEW o \in Operations, o.op \in {"approve", "reject"},
         NEW p, p = [o EXCEPT !.op = IF @ = "approve" THEN "login" ELSE "logout"]
  PROVE  /\ p \in Operations /\ p.host = o.host /\ p.user = o.user
         /\ p.op = IF o.op = "approve" THEN "login" ELSE "logout"
BY DEF Operations

(* Without leaves none of the user's lines, and keeps the others one each. *)
LEMMA WithoutIs ==
  ASSUME NEW ls, Lined(ls), NEW u \in Users
  PROVE  Lined(<<u>> \o Without(ls, u)) /\ Head(<<u>> \o Without(ls, u)) = u
         /\ <<u>> \o Without(ls, u) # <<>>
<1> DEFINE rest == Without(ls, u)
<1>0. ls \in Seq(Users) /\ Len(ls) \in Nat /\ \A i, j \in 1..Len(ls) : ls[i] = ls[j] => i = j
  BY DEF Lined
<1>1. Lined(rest) /\ \A i \in 1..Len(rest) : rest[i] # u
  <2>1. CASE \A k \in 1..Len(ls) : ls[k] # u
    BY <2>1 DEF Without
  <2>2. CASE \E k \in 1..Len(ls) : ls[k] = u
    <3> DEFINE k == CHOOSE i \in 1..Len(ls) : ls[i] = u
               a == SubSeq(ls, 1, k - 1)
               b == SubSeq(ls, k + 1, Len(ls))
    <3>1. k \in 1..Len(ls) /\ ls[k] = u
      BY <2>2
    <3>2. rest = a \o b
      BY <2>2 DEF Without
    <3> HIDE DEF rest, k
    <3>3. a \in Seq(Users) /\ Len(a) = k - 1 /\ \A i \in 1..(k - 1) : a[i] = ls[i]
      BY <1>0, <3>1, SubSeqProperties
    <3>4. b \in Seq(Users) /\ Len(b) = Len(ls) - k /\ \A i \in 1..(Len(ls) - k) : b[i] = ls[k + i]
      BY <1>0, <3>1, SubSeqProperties
    <3> HIDE DEF a, b
    <3>5. /\ rest \in Seq(Users) /\ Len(rest) = Len(ls) - 1
          /\ \A i \in 1..Len(rest) : rest[i] = IF i < k THEN ls[i] ELSE ls[i + 1]
      <4>1. /\ rest \in Seq(Users) /\ Len(rest) = Len(a) + Len(b)
            /\ \A i \in 1..Len(rest) : rest[i] = IF i <= Len(a) THEN a[i] ELSE b[i - Len(a)]
        BY <3>2, <3>3, <3>4, ConcatProperties
      <4>2. ASSUME NEW i \in 1..Len(rest) PROVE rest[i] = IF i < k THEN ls[i] ELSE ls[i + 1]
        <5>1. CASE i < k
          BY <1>0, <3>1, <3>3, <4>1, <5>1
        <5>2. CASE i >= k
          <6>1. i - Len(a) \in 1..(Len(ls) - k) /\ k + (i - Len(a)) = i + 1 /\ ~(i <= Len(a))
            BY <1>0, <3>1, <3>3, <3>4, <4>1, <5>2
          <6>2. rest[i] = b[i - Len(a)]
            BY <4>1, <6>1
          <6>3. b[i - Len(a)] = ls[k + (i - Len(a))]
            BY <3>4, <6>1
          <6>4. ~(i < k)
            BY <3>1, <4>1, <5>2
          <6> QED
            BY <6>1, <6>2, <6>3, <6>4
        <5> QED
          BY <5>1, <5>2, <3>1
      <4> QED
        BY <1>0, <3>1, <3>3, <3>4, <4>1, <4>2
    <3> QED
      BY <1>0, <3>1, <3>5 DEF Lined
  <2> QED
    BY <2>1, <2>2
<1> HIDE DEF rest
<1> DEFINE all == <<u>> \o rest
<1>2. rest \in Seq(Users) /\ Len(rest) \in Nat /\ <<u>> \in Seq(Users) /\ Len(<<u>>) = 1 /\ <<u>>[1] = u
  BY <1>1 DEF Lined
<1>3. /\ all \in Seq(Users) /\ Len(all) = 1 + Len(rest) /\ all[1] = u
      /\ \A i \in 1..Len(all) : i # 1 => all[i] = rest[i - 1]
  BY <1>2, ConcatProperties
<1> HIDE DEF all
<1>4. Lined(all)
  <2> SUFFICES ASSUME NEW i \in 1..Len(all), NEW j \in 1..Len(all), all[i] = all[j] PROVE i = j
    BY <1>3 DEF Lined
  <2>1. (i # 1 => i - 1 \in 1..Len(rest)) /\ (j # 1 => j - 1 \in 1..Len(rest))
    BY <1>2, <1>3
  <2> QED
    <3>1. CASE i = 1 /\ j = 1
      BY <3>1
    <3>2. CASE i = 1 /\ j # 1
      BY <1>1, <1>3, <2>1, <3>2
    <3>3. CASE i # 1 /\ j = 1
      BY <1>1, <1>3, <2>1, <3>3
    <3>4. CASE i # 1 /\ j # 1
      <4>1. rest[i - 1] = rest[j - 1]
        BY <1>3, <3>4
      <4>2. i - 1 = j - 1
        BY <1>1, <2>1, <3>4, <4>1 DEF Lined
      <4> QED
        BY <1>2, <1>3, <4>2
    <3> QED
      BY <3>1, <3>2, <3>3, <3>4
<1>5. Head(all) = u /\ all # <<>>
  BY <1>2, <1>3, EmptySeq
<1> QED
  BY <1>4, <1>5 DEF all, rest

(* The invariant holds before anybody has logged in. *)
LEMMA LoginsInitInv == LoginsInit => LoginsInv
<1> SUFFICES ASSUME LoginsInit PROVE LoginsInv
  OBVIOUS
<1>1. Idle \in Operations /\ Idle.op = "none" /\ Lined(<<>>)
  BY DEF Idle, Operations, Lined
<1> QED
  BY <1>1 DEF LoginsInit, LoginsInv, LoginsTyped, HalfWay, GitUser

(* What git does to its file: afterwards it is the operation's user's, and its alone. *)
LEMMA GitWrites ==
  ASSUME LoginsTyped, NEW s \in Hands, GitDone(s)
  PROVE  /\ DOMAIN store' = Keys /\ \A h \in Keys : Lined(store'[h])
         /\ GitUser(running[s].host)' = running'[s].user
         /\ \A h \in Keys : h # running[s].host => store'[h] = store[h]
         /\ running' \in [Hands -> Operations] /\ running'[s].host = running[s].host
         /\ running'[s].op \in {"login", "logout"} /\ running[s].host \in Keys
<1> DEFINE o == running[s]
           p == running'[s]
<1>1. o \in Operations /\ o.op \in {"approve", "reject"}
  BY DEF LoginsTyped, GitDone
<1>2. p = [o EXCEPT !.op = IF @ = "approve" THEN "login" ELSE "logout"]
  BY DEF LoginsTyped, GitDone
<1>3. p \in Operations /\ p.host = o.host /\ p.user = o.user /\ p.op \in {"login", "logout"}
  BY <1>1, <1>2, NextHalf
<1>4. running' \in [Hands -> Operations]
  BY <1>3 DEF LoginsTyped, GitDone
<1>5. o.host \in Keys /\ (o.op = "approve" => o.user \in Users) /\ (o.op = "reject" => o.user = NoUser)
  BY <1>1 DEF Operations
<1>6. store' = [store EXCEPT ![o.host] = IF o.op = "approve" THEN <<o.user>> \o Without(@, o.user) ELSE <<>>]
  BY DEF GitDone, Lines
<1> HIDE DEF o
<1>7. /\ DOMAIN store' = Keys /\ \A h \in Keys : h # o.host => store'[h] = store[h]
      /\ store'[o.host] = IF o.op = "approve" THEN <<o.user>> \o Without(store[o.host], o.user) ELSE <<>>
  BY <1>5, <1>6 DEF LoginsTyped
<1>8. Lined(<<>>)
  BY DEF Lined
<1>9. CASE o.op = "approve"
  <2>1. Lined(store'[o.host]) /\ Head(store'[o.host]) = o.user /\ store'[o.host] # <<>>
    BY <1>5, <1>7, <1>9, WithoutIs DEF LoginsTyped
  <2>2. (IF store'[o.host] = <<>> THEN NoUser ELSE Head(store'[o.host])) = o.user
    BY <2>1
  <2>3. GitUser(running[s].host)' = p.user
    BY <1>3, <2>2 DEF GitUser, o
  <2> QED
    BY <1>3, <1>4, <1>5, <1>7, <2>1, <2>3 DEF LoginsTyped, o
<1>10. CASE o.op = "reject"
  <2>1. store'[o.host] = <<>>
    BY <1>7, <1>10
  <2>2. (IF store'[o.host] = <<>> THEN NoUser ELSE Head(store'[o.host])) = o.user
    BY <1>5, <1>10, <2>1
  <2>3. GitUser(running[s].host)' = p.user
    BY <1>3, <2>2 DEF GitUser, o
  <2> QED
    BY <1>3, <1>4, <1>5, <1>7, <1>8, <2>1, <2>3 DEF LoginsTyped, o
<1> QED
  BY <1>1, <1>9, <1>10 DEF o

(* One step keeps the invariant. *)
LEMMA LoginsInvStep == LoginsInv /\ [LoginsNext]_LoginsVars => LoginsInv'
<1> SUFFICES ASSUME LoginsInv, [LoginsNext]_LoginsVars PROVE LoginsInv'
  OBVIOUS
<1>0. LoginsTyped /\ (SoleHand => HalfWay) /\ Idle \in Operations
  BY DEF LoginsInv, Idle, Operations
<1>1. ASSUME NEW s \in Hands, NEW op \in {"approve", "reject"}, NEW h \in Keys, NEW u,
             Begin(s, op, h, u), IF op = "approve" THEN u \in Users ELSE u = NoUser
      PROVE  LoginsInv'
  <2> DEFINE o == [op |-> op, host |-> h, user |-> u]
  <2>1. o \in Operations /\ o.op = op
    BY <1>1 DEF Operations
  <2> HIDE DEF o
  <2>2. running[s] = Idle /\ Idle.op = "none" /\ running' = [running EXCEPT ![s] = o]
        /\ UNCHANGED <<store, docker, sawHosts, told>>
    BY <1>1 DEF Begin, Idle, o
  <2>3. LoginsTyped'
    BY <1>0, <2>1, <2>2 DEF LoginsTyped
  <2>4. SoleHand => HalfWay'
    BY <1>0, <2>1, <2>2 DEF HalfWay, LoginsTyped, GitUser
  <2> QED
    BY <2>3, <2>4 DEF LoginsInv
<1>2. ASSUME NEW s \in Hands, SeeHosts(s) PROVE LoginsInv'
  BY <1>0, <1>2, ListedTyped DEF SeeHosts, LoginsInv, LoginsTyped, HalfWay, GitUser
<1>3. ASSUME NEW s \in Hands, GitDone(s) PROVE LoginsInv'
  <2>1. /\ DOMAIN store' = Keys /\ \A h \in Keys : Lined(store'[h])
        /\ GitUser(running[s].host)' = running'[s].user
        /\ \A h \in Keys : h # running[s].host => store'[h] = store[h]
        /\ running' \in [Hands -> Operations] /\ running'[s].host = running[s].host
        /\ running'[s].op \in {"login", "logout"}
    BY <1>0, <1>3, GitWrites
  <2>2. UNCHANGED <<docker, sawHosts, told>> /\ running[s].op \in {"approve", "reject"}
    BY <1>3 DEF GitDone
  <2>3. LoginsTyped'
    BY <1>0, <2>1, <2>2 DEF LoginsTyped
  <2>4. SoleHand => HalfWay'
    <3> SUFFICES ASSUME SoleHand PROVE HalfWay'
      OBVIOUS
    <3>1. \A r \in Hands : r = s
      BY DEF SoleHand
    <3>2. ASSUME NEW h \in Keys \ told, h # running[s].host PROVE docker'[h] = GitUser(h)'
      <4>1. docker[h] = GitUser(h)
        BY <1>0, <2>2, <3>1 DEF HalfWay
      <4> QED
        BY <2>1, <2>2, <3>2, <4>1 DEF GitUser
    <3> QED
      BY <2>1, <2>2, <3>1, <3>2 DEF HalfWay
  <2> QED
    BY <2>3, <2>4 DEF LoginsInv
<1>4. ASSUME NEW s \in Hands, DockerDone(s) PROVE LoginsInv'
  <2> DEFINE o == running[s]
  <2>1. /\ o \in Operations /\ o.op \in {"login", "logout"} /\ store' = store
        /\ docker' = [docker EXCEPT ![o.host] = o.user] /\ running' = [running EXCEPT ![s] = Idle]
        /\ told' = told \ {o.host} /\ sawHosts' = [sawHosts EXCEPT ![s] = Listed]
    BY <1>0, <1>4 DEF DockerDone, LoginsTyped
  <2>2. o.host \in Keys /\ o.user \in Users \union {NoUser}
    BY <2>1 DEF Operations
  <2>3. LoginsTyped'
    BY <1>0, <2>1, <2>2, ListedTyped DEF LoginsTyped
  <2>4. SoleHand => HalfWay'
    <3> SUFFICES ASSUME SoleHand PROVE HalfWay'
      OBVIOUS
    <3>1. running'[s] = Idle /\ Idle.op = "none" /\ \A r \in Hands : r = s
      BY <1>0, <2>1 DEF SoleHand, LoginsTyped, Idle
    <3>2. GitUser(o.host) = o.user
      BY <1>0, <2>1 DEF HalfWay
    <3>3. ASSUME NEW h \in Keys, h \notin told \/ h = o.host PROVE docker'[h] = GitUser(h)'
      <4>1. CASE h = o.host
        BY <1>0, <2>1, <2>2, <3>2, <4>1 DEF GitUser, LoginsTyped
      <4>2. CASE h # o.host
        <5>1. docker[h] = GitUser(h)
          BY <1>0, <3>1, <3>3, <4>2 DEF HalfWay
        <5> QED
          BY <1>0, <2>1, <4>2, <5>1 DEF GitUser, LoginsTyped
      <4> QED
        BY <4>1, <4>2
    <3> QED
      BY <2>1, <3>1, <3>3 DEF HalfWay
  <2> QED
    BY <2>3, <2>4 DEF LoginsInv
<1>5. ASSUME NEW s \in Hands, Fail(s) PROVE LoginsInv'
  <2> DEFINE o == running[s]
  <2>1. /\ o \in Operations /\ o # Idle /\ running' = [running EXCEPT ![s] = Idle]
        /\ told' = told \union {o.host} /\ UNCHANGED <<store, docker, sawHosts>>
    BY <1>0, <1>5 DEF Fail, Refused, LoginsTyped
  <2>2. o.host \in Keys
    BY <2>1 DEF Operations, Idle
  <2>3. LoginsTyped'
    BY <1>0, <2>1, <2>2 DEF LoginsTyped
  <2>4. SoleHand => HalfWay'
    <3> SUFFICES ASSUME SoleHand PROVE HalfWay'
      OBVIOUS
    <3>1. running'[s] = Idle /\ Idle.op = "none" /\ \A r \in Hands : r = s
      BY <1>0, <2>1 DEF SoleHand, LoginsTyped, Idle
    <3>2. ASSUME NEW h \in Keys \ told, h # o.host PROVE docker'[h] = GitUser(h)'
      <4>1. docker[h] = GitUser(h)
        BY <1>0, <3>1, <3>2 DEF HalfWay
      <4> QED
        BY <2>1, <4>1 DEF GitUser
    <3> QED
      BY <2>1, <3>1, <3>2 DEF HalfWay
  <2> QED
    BY <2>3, <2>4 DEF LoginsInv
<1>6. CASE UNCHANGED LoginsVars
  BY <1>0, <1>6 DEF LoginsVars, LoginsInv, LoginsTyped, HalfWay, GitUser
<1>7. ASSUME NEW s \in Hands, Use(s) PROVE LoginsInv'
  <2>1. ASSUME NEW h \in Keys, ForgetListed(s, h) \/ LogOut(s, h) PROVE LoginsInv'
    <3>1. Begin(s, "reject", h, NoUser)
      BY <2>1 DEF ForgetListed, LogOut
    <3> QED
      BY <1>1, <3>1
  <2>2. ASSUME NEW h \in Hosts, NEW u \in Users, Login(s, h, u) PROVE LoginsInv'
    <3>1. Begin(s, "approve", h, u) /\ h \in Keys
      BY <2>2 DEF Login, Keys
    <3> QED
      BY <1>1, <3>1
  <2> QED
    BY <1>2, <1>3, <1>4, <1>5, <1>7, <2>1, <2>2 DEF Use
<1> QED
  BY <1>6, <1>7 DEF LoginsNext

(* The invariant holds in every behaviour of the logins. *)
LEMMA LoginsInvariant == LoginsSpec => []LoginsInv
<1>1. LoginsInit => LoginsInv
  BY LoginsInitInv
<1>2. LoginsInv /\ [LoginsNext]_LoginsVars => LoginsInv'
  BY LoginsInvStep
<1> QED
  BY <1>1, <1>2, PTL DEF LoginsSpec

(* Every variable has its type. *)
LEMMA LoginsTypes == LoginsInv => LoginsTypeOK
<1> SUFFICES ASSUME LoginsInv PROVE LoginsTypeOK
  OBVIOUS
<1>1. LoginsTyped
  BY DEF LoginsInv
<1>2. ASSUME NEW o \in Operations
      PROVE  o = Idle \/ /\ o.op \in {"approve", "reject", "login", "logout"}
                         /\ o.host \in Keys /\ o.user \in Users \union {NoUser}
  BY DEF Operations, Idle
<1> QED
  BY <1>1, <1>2 DEF LoginsTyped, Lined, LoginsTypeOK

(* Nothing under way means that nobody is half way. *)
LEMMA LoginsAgree == LoginsInv /\ SoleHand => StoresAgree
<1> SUFFICES ASSUME LoginsInv, SoleHand, \A s \in Hands : running[s] = Idle,
                    NEW h \in Keys \ told
             PROVE  docker[h] = GitUser(h)
  BY DEF StoresAgree
<1>1. \A s \in Hands : running[s].op = "none"
  <2>1. Idle.op = "none"
    BY DEF Idle
  <2> QED
    BY <2>1
<1> QED
  BY <1>1 DEF LoginsInv, HalfWay

(* When docker's half of a logout ends, git's has emptied the file, and nobody has written to
   it since. *)
LEMMA LoginsForgets ==
  LoginsInv /\ SoleHand /\ (\A h \in Keys : AsListed(h) = h) /\ [LoginsNext]_LoginsVars
    => \A s \in Hands :
         running[s].op = "logout" /\ running'[s] = Idle /\ running[s].host \notin told' =>
           running[s].host \notin Listed'
<1> SUFFICES ASSUME LoginsInv, SoleHand, \A h \in Keys : AsListed(h) = h, [LoginsNext]_LoginsVars,
                    NEW s \in Hands, running[s].op = "logout", running'[s] = Idle,
                    running[s].host \notin told'
             PROVE  running[s].host \notin Listed'
  OBVIOUS
<1>0. LoginsTyped /\ HalfWay /\ Idle.op = "none" /\ running[s] \in Operations
  BY DEF LoginsInv, Idle, LoginsTyped
<1>1. running[s].host \in Keys /\ running[s].user = NoUser
  BY <1>0 DEF Operations
<1>2. store[running[s].host] = <<>>
  <2>1. GitUser(running[s].host) = NoUser
    BY <1>0, <1>1 DEF HalfWay
  <2>2. \A ls \in Seq(Users) : ls # <<>> => Head(ls) \in Users
    OBVIOUS
  <2> QED
    BY <1>0, <1>1, <2>1, <2>2, LoginsAssumption DEF GitUser, LoginsTyped, Lined
<1>3. store' = store
  <2>1. PICK r \in Hands : Use(r)
    BY <1>0 DEF LoginsNext, LoginsVars
  <2>2. r = s
    BY DEF SoleHand
  <2>3. ~GitDone(s)
    BY DEF GitDone
  <2> QED
    BY <2>1, <2>2, <2>3 DEF Use, SeeHosts, DockerDone, Fail, ForgetListed, LogOut, Login, Begin
<1> QED
  BY <1>1, <1>2, <1>3 DEF Listed

\* Every variable of the logins keeps its type, however many pages there are.
THEOREM LoginsTypeCorrect == LoginsSpec => []LoginsTypeOK
BY LoginsInvariant, LoginsTypes, PTL

\* With one page or terminal at a time, git and docker are logged in to a host as the same
\* user whenever nothing is under way, for any hosts, users and lists, unless the last
\* operation on it failed and said so.
THEOREM StoresStayInSync == ASSUME SoleHand PROVE LoginsSpec => []StoresAgree
<1>1. LoginsInv => StoresAgree
  BY LoginsAgree
<1> QED
  BY <1>1, LoginsInvariant, PTL

\* With one hand, and on hosts the list names as git wrote them, a logout that says it is
\* done has taken the login off the list.
THEOREM LoggedOutIsGone ==
  ASSUME SoleHand, \A h \in Keys : AsListed(h) = h
  PROVE  LoginsSpec => ForgottenIsGone
<1>1. LoginsInv /\ [LoginsNext]_LoginsVars =>
        [\A s \in Hands :
           running[s].op = "logout" /\ running'[s] = Idle /\ running[s].host \notin told' =>
             \/ running[s].host \notin Listed'
             \/ \E r \in Hands \ {s} : running[r] # Idle]_LoginsVars
  BY LoginsForgets
<1> QED
  BY <1>1, LoginsInvariant, PTL DEF LoginsSpec, ForgottenIsGone

-----------------------------------------------------------------------------
(* The parts together *)

(* A turn is a step of one part, and the others stand still. *)
LEMMA ConsoleTurn ==
  ASSUME [Next]_vars
  PROVE  /\ part' = part /\ [SessionsNext]_SessionsVars /\ [SettingsNext]_SettingsVars
         /\ [AccountsNext]_AccountsVars /\ [LoginsNext]_LoginsVars
         /\ [EnvFileNext]_EnvFileVars /\ [EnvValueNext]_EnvValueVars
BY DEF Next, vars, SessionsTurn, SettingsTurn, EnvFileTurn, EnvValueTurn, AccountsTurn, LoginsTurn

\* The console is all of its parts: each behaves in it as it does by itself, so what is
\* proved of a part is proved of the console.
THEOREM EveryPartIsItself ==
  Spec => /\ SessionsSpec /\ SettingsSpec /\ AccountsSpec /\ LoginsSpec
          /\ EnvFileSpec /\ EnvValueSpec
<1>1. Init => /\ SessionsInit /\ SettingsInit /\ AccountsInit /\ LoginsInit
              /\ EnvFileInit /\ EnvValueInit
  BY DEF Init
<1>2. [Next]_vars => /\ [SessionsNext]_SessionsVars /\ [SettingsNext]_SettingsVars
                     /\ [AccountsNext]_AccountsVars /\ [LoginsNext]_LoginsVars
                     /\ [EnvFileNext]_EnvFileVars /\ [EnvValueNext]_EnvValueVars
  BY ConsoleTurn
<1> QED
  BY <1>1, <1>2, PTL DEF Spec, SessionsSpec, SettingsSpec, AccountsSpec, LoginsSpec, EnvFileSpec,
     EnvValueSpec

\* Every variable of every part keeps its type.
THEOREM TypeCorrect == Spec => []TypeOK
<1>1. Init => part \in Parts
  BY DEF Init
<1>2. part \in Parts /\ [Next]_vars => (part \in Parts)'
  BY ConsoleTurn
<1>3. Spec => [](part \in Parts)
  BY <1>1, <1>2, PTL DEF Spec
<1>4. part \in Parts /\ SessionsTypeOK /\ SettingsTypeOK /\ EnvFileTypeOK /\ AccountsTypeOK
        /\ LoginsTypeOK => TypeOK
  BY DEF TypeOK
<1> QED
  BY <1>3, <1>4, EveryPartIsItself, SessionsTypeCorrect, SettingsTypeCorrect, EnvFileTypeCorrect,
     AccountsTypeCorrect, LoginsTypeCorrect, PTL

\* And the promises of the parts hold of the console.
THEOREM PromisesAreKept ==
  Spec => /\ []MirrorFollowsLonePage /\ OnlyVerifiedAct
          /\ PanelIsTheWrite /\ UntouchedAsOpened /\ SaveIsExact /\ []ReadsBack /\ AddIsWhole
BY EveryPartIsItself, MirrorIsTrue, ActorsAreVerified, PanelTells, UntouchedStay, SavesAreExact,
   ValueReadsBack, NewAccountIsWhole, PTL

\* With one hand also that git and docker agree.
THEOREM ConsoleStaysInSync == ASSUME SoleHand PROVE Spec => []StoresAgree
BY EveryPartIsItself, StoresStayInSync, PTL

=============================================================================
