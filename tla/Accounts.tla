--------------------------------- MODULE Accounts ---------------------------------
(***************************************************************************)
(* The accounts of the host, and the Users page and `spiriconfig users'    *)
(* that change them by running useradd, chpasswd, gpasswd and userdel.     *)
(*                                                                         *)
(* The host keeps the accounts; a page has a list of them, and a dialog    *)
(* for one, that may both be out of date.  An account with a password      *)
(* takes two commands, and only the first can stop the second.             *)
(***************************************************************************)
EXTENDS Naturals, FiniteSets

CONSTANTS
  Operators,        \* browser tabs on the Users page
  Names,            \* login names
  Groups,           \* groups of the host
  Passwords, Locked, \* passwords, and what an account has that was given none
  Absent,           \* a name there is no account for
  NoPassword,            \* a password box with nothing in it
  MaxFaults,        \* bound: commands that fail although they could have worked
  MaxShells         \* bound: commands run from a shell

ASSUME AccountsAssumption ==
  /\ Locked \notin Passwords /\ Absent \notin Passwords \union {Locked}
  /\ NoPassword \notin Passwords /\ MaxFaults \in Nat /\ MaxShells \in Nat

VARIABLES
  passwd,     \* per name: the account's password, `Locked', or `Absent'
  service,    \* the accounts that are nobody's: a nologin shell, or a low uid
  members,    \* per group: whom it names
  listed,     \* per tab: the accounts its page shows
  dialog,     \* per tab: the dialog that is open, its boxes, and how far it is
  heard,      \* per tab: what the last notification said: "done", "failed"
  faults,     \* counts commands that failed for no reason the model knows
  shells,     \* counts commands from a shell
  foreign     \* history, per tab: accounts changed by others since the tab created one

hostVars     == <<passwd, service, members>>
pageVars     == <<listed, dialog, heard>>
AccountsVars == <<hostVars, pageVars, faults, shells, foreign>>

\* A dialog about the account `name'.  `at' is the command it waits for, "form" when it
\* waits for none; `typed', `box' and `chosen' are its boxes (user name, password, groups),
\* `asked' the password chpasswd was given, and `pressed' a history of `typed'.
AccountDialog(what, n, groups) ==
  [what |-> what, name |-> n, at |-> "form", typed |-> n, box |-> NoPassword,
   chosen |-> groups, asked |-> NoPassword, pressed |-> n]
NoDialog == [AccountDialog("none", "", {}) EXCEPT !.at = "none"]

Accounted == {n \in Names : passwd[n] # Absent}

\* list_users(): people, or with the advanced checkbox everybody.
People(all) == IF all THEN Accounted ELSE Accounted \ service

-----------------------------------------------------------------------------
(* The commands: what each does to the host, and when it can work.  A disk, a lock or *)
(* a want of root can make any of them fail.                                          *)

CanAdd(n)       == passwd[n] = Absent
CanChange(n)    == passwd[n] # Absent
CanJoin(n, g)   == passwd[n] # Absent
CanLeave(n, g)  == n \in members[g]

\* useradd [--groups ...]: an account that is locked.
Useradd(n, groups, nologin) ==
  /\ passwd' = [passwd EXCEPT ![n] = Locked]
  /\ service' = IF nologin THEN service \union {n} ELSE service \ {n}
  /\ members' = [g \in Groups |-> IF g \in groups THEN members[g] \union {n} ELSE members[g]]

Chpasswd(n, p) == passwd' = [passwd EXCEPT ![n] = p] /\ UNCHANGED <<service, members>>

\* gpasswd --add, --delete: the one membership.
Gpasswd(n, g) ==
  /\ members' = [members EXCEPT ![g] = IF n \in @ THEN @ \ {n} ELSE @ \union {n}]
  /\ UNCHANGED <<passwd, service>>

\* userdel; the home directory, which --remove takes along, is not modelled.
Userdel(n) ==
  /\ passwd' = [passwd EXCEPT ![n] = Absent]
  /\ service' = service \ {n}
  /\ members' = [g \in Groups |-> members[g] \ {n}]

\* A command that could not work, or did not.
Fails(could) ==
  /\ IF could THEN faults < MaxFaults /\ faults' = faults + 1 ELSE UNCHANGED faults
  /\ UNCHANGED hostVars

Touch(o, n) == foreign' = [p \in Operators |-> foreign[p] \union (IF p = o THEN {} ELSE {n})]

-----------------------------------------------------------------------------
AccountsInit ==
  /\ passwd \in [Names -> {Absent, Locked}]
  /\ service = {} /\ members = [g \in Groups |-> {}]
  /\ listed = [o \in Operators |-> {}]
  /\ dialog = [o \in Operators |-> NoDialog]
  /\ heard = [o \in Operators |-> "nothing"]
  /\ faults = 0 /\ shells = 0
  /\ foreign = [o \in Operators |-> {}]

\* render(): getent passwd, with or without the accounts of the OS's own.
DrawList(o) ==
  /\ \E all \in BOOLEAN : listed' = [listed EXCEPT ![o] = People(all)]
  /\ UNCHANGED <<hostVars, dialog, heard, faults, shells, foreign>>

\* A dialog for a card, whether the account still is there or not, or for a new one; the
\* groups dialog asks for the memberships before it shows them.
OpenDialog(o, what, n) ==
  /\ dialog[o] = NoDialog
  /\ what # "add" => n \in listed[o]
  /\ dialog' = [dialog EXCEPT ![o] =
       AccountDialog(what, n, IF what = "groups" THEN {g \in Groups : n \in members[g]} ELSE {})]
  /\ foreign' = [foreign EXCEPT ![o] = {}]
  /\ heard' = [heard EXCEPT ![o] = "nothing"]
  /\ UNCHANGED <<hostVars, listed, faults, shells>>

At(o, what, where) == dialog[o].what = what /\ dialog[o].at = where
Say(o, what)       == heard' = [heard EXCEPT ![o] = what]
Shut(o)            == dialog' = [dialog EXCEPT ![o] = NoDialog]

\* Cancel, Close.  (Cancelled while a command runs, the handler goes on to its end: the
\* dialog is on the screen until then, as far as this model goes.)
CloseDialog(o) ==
  /\ dialog[o].at = "form" /\ Shut(o)
  /\ UNCHANGED <<hostVars, listed, heard, faults, shells, foreign>>

\* The boxes stay open to typing while a command runs.
TypeBox(o) ==
  /\ dialog[o].what \in {"add", "password"}
  /\ \E p \in (Passwords \union {NoPassword}) \ {dialog[o].box} : dialog' = [dialog EXCEPT ![o].box = p]
  /\ UNCHANGED <<hostVars, listed, heard, faults, shells, foreign>>

TypeName(o) ==
  /\ dialog[o].what = "add"
  /\ \E n \in Names \ {dialog[o].typed} : dialog' = [dialog EXCEPT ![o].typed = n]
  /\ UNCHANGED <<hostVars, listed, heard, faults, shells, foreign>>

Pick(o, g) ==
  /\ At(o, "add", "form") /\ g \notin dialog[o].chosen
  /\ dialog' = [dialog EXCEPT ![o].chosen = @ \union {g}]
  /\ UNCHANGED <<hostVars, listed, heard, faults, shells, foreign>>

-----------------------------------------------------------------------------
(* _add_dialog().do_create(): useradd, and when the password box is not empty by then,    *)
(* chpasswd.                                                                              *)

\* Create: the name is taken out of its box, and the command built of the form.
Create(o) ==
  /\ At(o, "add", "form")
  /\ dialog' = [dialog EXCEPT ![o].name = dialog[o].typed, ![o].at = "creating", ![o].pressed = dialog[o].typed]
  /\ UNCHANGED <<hostVars, listed, heard, faults, shells, foreign>>

AddWorks(o) ==
  /\ At(o, "add", "creating") /\ CanAdd(dialog[o].name)
  /\ \E nologin \in BOOLEAN : Useradd(dialog[o].name, dialog[o].chosen, nologin)
  /\ dialog' = [dialog EXCEPT ![o].at = "created"]
  /\ Say(o, "done")
  /\ foreign' = [p \in Operators |-> IF p = o THEN {} ELSE foreign[p] \union {dialog[o].name}]
  /\ UNCHANGED <<listed, faults, shells>>

\* Its error is shown, and the form stays to be put right.
AddFails(o) ==
  /\ At(o, "add", "creating") /\ Fails(CanAdd(dialog[o].name))
  /\ dialog' = [dialog EXCEPT ![o].at = "form"]
  /\ Say(o, "failed")
  /\ UNCHANGED <<listed, shells, foreign>>

\* No password is asked for.
AddEnds(o) ==
  /\ At(o, "add", "created") /\ dialog[o].box = NoPassword
  /\ Shut(o)
  /\ UNCHANGED <<hostVars, listed, heard, faults, shells, foreign>>

\* Mutant of AddAsks: the name is read from its box again.
Bug_NameReadAgain(o) ==
  /\ At(o, "add", "created") /\ dialog[o].box # NoPassword
  /\ dialog' = [dialog EXCEPT ![o].at = "setting", ![o].asked = dialog[o].box, ![o].name = dialog[o].typed]
  /\ UNCHANGED <<hostVars, listed, heard, faults, shells, foreign>>

\* chpasswd is started with the password the box holds by now.
AddAsks(o) ==
  /\ At(o, "add", "created") /\ dialog[o].box # NoPassword
  /\ dialog' = [dialog EXCEPT ![o].at = "setting", ![o].asked = dialog[o].box]
  /\ UNCHANGED <<hostVars, listed, heard, faults, shells, foreign>>

\* It works or not; the dialog closes either way, and the list is drawn again.
AddSets(o) ==
  /\ At(o, "add", "setting")
  /\ LET n == dialog[o].name IN
       \/ CanChange(n) /\ Chpasswd(n, dialog[o].asked) /\ Say(o, "done") /\ Touch(o, n) /\ UNCHANGED faults
       \/ Fails(CanChange(n)) /\ Say(o, "failed") /\ UNCHANGED foreign
  /\ Shut(o)
  /\ UNCHANGED <<listed, shells>>

-----------------------------------------------------------------------------
(* The other dialogs *)

\* _password_dialog(): it closes only on success.
SetPassword(o) ==
  /\ At(o, "password", "form") /\ dialog[o].box # NoPassword
  /\ LET n == dialog[o].name IN
       \/ CanChange(n) /\ Chpasswd(n, dialog[o].box) /\ Say(o, "done") /\ Shut(o) /\ Touch(o, n) /\ UNCHANGED faults
       \/ Fails(CanChange(n)) /\ Say(o, "failed") /\ UNCHANGED <<dialog, foreign>>
  /\ UNCHANGED <<listed, shells>>

\* _groups_dialog().act(): a chip is removed, or a group picked that is not one; the
\* chips are what getent says after a command that worked.
Regroup(o, g) ==
  /\ At(o, "groups", "form")
  /\ LET n == dialog[o].name
         works == IF g \in dialog[o].chosen THEN CanLeave(n, g) ELSE CanJoin(n, g) IN
       \/ /\ works
          /\ IF g \in dialog[o].chosen \/ n \notin members[g] THEN Gpasswd(n, g) ELSE UNCHANGED hostVars
          /\ Say(o, "done") /\ Touch(o, n) /\ UNCHANGED faults
          /\ dialog' = [dialog EXCEPT ![o].chosen = {h \in Groups : n \in members'[h]}]
       \/ Fails(works) /\ Say(o, "failed") /\ UNCHANGED <<dialog, foreign>>
  /\ UNCHANGED <<listed, shells>>

\* _delete_dialog(): it closes only on success.
Delete(o) ==
  /\ At(o, "delete", "form")
  /\ LET n == dialog[o].name IN
       \/ /\ CanChange(n) /\ Userdel(n)
          /\ Say(o, "done") /\ Shut(o) /\ Touch(o, n) /\ UNCHANGED faults
       \/ Fails(CanChange(n)) /\ Say(o, "failed") /\ UNCHANGED <<dialog, foreign>>
  /\ UNCHANGED <<listed, shells>>

-----------------------------------------------------------------------------
\* The command line, ours or the host's own: one command, no dialog.
Shell(n) ==
  /\ shells < MaxShells /\ shells' = shells + 1
  /\ \/ CanAdd(n) /\ \E nologin \in BOOLEAN : Useradd(n, {}, nologin)
     \/ CanChange(n) /\ \E p \in Passwords : Chpasswd(n, p)
     \/ CanChange(n) /\ \E g \in Groups : Gpasswd(n, g)
     \/ CanChange(n) /\ Userdel(n)
  /\ foreign' = [p \in Operators |-> foreign[p] \union {n}]
  /\ UNCHANGED <<pageVars, faults>>

Operate(o) ==
  \/ DrawList(o) \/ CloseDialog(o) \/ TypeBox(o) \/ TypeName(o)
  \/ \E n \in Names, what \in {"add", "password", "groups", "delete"} : OpenDialog(o, what, n)
  \/ Create(o) \/ AddWorks(o) \/ AddFails(o) \/ AddEnds(o) \/ AddAsks(o) \/ AddSets(o)
  \/ SetPassword(o) \/ Delete(o)
  \/ \E g \in Groups : Pick(o, g) \/ Regroup(o, g)

AccountsNext == (\E o \in Operators : Operate(o)) \/ \E n \in Names : Shell(n)
AccountsSpec == AccountsInit /\ [][AccountsNext]_AccountsVars

-----------------------------------------------------------------------------
(* Properties *)

\* The type invariant.
AccountsTypeOK ==
  /\ passwd \in [Names -> Passwords \union {Locked, Absent}]
  /\ service \subseteq Accounted
  /\ members \in [Groups -> SUBSET Accounted]
  /\ listed \in [Operators -> SUBSET Names]
  /\ \A o \in Operators :
       dialog[o] = NoDialog \/ /\ {dialog[o].name, dialog[o].typed, dialog[o].pressed} \subseteq Names
                               /\ {dialog[o].asked, dialog[o].box} \subseteq Passwords \union {NoPassword}
                               /\ dialog[o].chosen \subseteq Groups
  /\ heard \in [Operators -> {"nothing", "done", "failed"}]
  /\ faults \in 0..MaxFaults /\ shells \in 0..MaxShells
  /\ foreign \in [Operators -> SUBSET Names]

\* A new account is two commands, and the boxes can be typed into between them.  However
\* they interleave with other people's commands, the dialog that created an account says
\* at its end what became of it: unless the last word was a failure, the account whose
\* name was in the box when Create was pressed has the password chpasswd was given, or is
\* locked when none was asked for; and no other account's password was set on the way.
AddIsWhole ==
  [][\A o \in Operators :
       dialog[o].what = "add" /\ dialog[o].at \in {"created", "setting"} /\ dialog'[o] = NoDialog =>
         /\ \A n \in Names \ {dialog[o].pressed} : passwd'[n] = passwd[n]
         /\ \/ heard'[o] = "failed"
            \/ dialog[o].pressed \in foreign'[o]
            \/ passwd'[dialog[o].pressed] = IF dialog[o].asked = NoPassword THEN Locked ELSE dialog[o].asked]_AccountsVars
=============================================================================
