--------------------------------- MODULE EnvFile ---------------------------------
(***************************************************************************)
(* A .env as the lines it is made of, patched by the settings form.        *)
(*                                                                         *)
(* scan() finds the assignments and the lines each occupies: a quoted      *)
(* value goes on until a line with a quote in it, swallowing what is       *)
(* between.  patch() walks them backwards, rewrites or removes the ones it *)
(* has a value for, and appends the keys the file did not mention.         *)
(*                                                                         *)
(* A value is a model value: the boring ones stand bare on a line, the     *)
(* `Quoted' ones in quotes, and `Long' is written over two lines.  The two *)
(* kinds of quote are one here; EnvValue tells them apart.                 *)
(***************************************************************************)
EXTENDS Naturals, Sequences

CONSTANTS
  Fields,           \* the keys the form declares, in its order
  Mine,             \* keys the user keeps in the file for themselves
  Texts,            \* what a key may be set to
  Quoted, Long,     \* those that need quotes, and the one with a line break
  Empty,            \* the empty value
  NoFile,           \* there is no .env
  MaxTyped          \* bound: lines a user types into the file

VARIABLES
  lines,    \* the file
  answers   \* what the form saved, if that is what happened last

EnvFileVars == <<lines, answers>>

Keyed  == {Fields[n] : n \in DOMAIN Fields}
Nobody == [k \in {} |-> Empty]

Line(kind, key, value) == [kind |-> kind, key |-> key, value |-> value]
Note        == Line("note", "", Empty)           \* a comment, a blank, anything else
Header      == Line("header", "", Empty)         \* the lines a new file starts with
Assign(k, v) == Line("assign", k, v)
Opening(k)  == Line("opens", k, Empty)           \* KEY='abc
Closing     == Line("closes", "", Empty)         \* def'

\* What a user may type on a line.
Typeable == {Note, Closing} \union {Assign(k, v) : k \in Keyed \union Mine, v \in Texts \ {Long}}
            \union {Opening(k) : k \in Keyed \union Mine}

AnyLine == Typeable \union {Header}

ASSUME EnvFileAssumption ==
  /\ Fields \in Seq(Keyed) /\ \A m, n \in DOMAIN Fields : Fields[m] = Fields[n] => m = n
  /\ Quoted \subseteq Texts /\ Long \in Quoted /\ Empty \in Texts \ Quoted
  /\ NoFile \notin Seq(AnyLine) /\ MaxTyped \in Nat

HasQuote(line) == line.kind \in {"opens", "closes"} \/ line.value \in Quoted

\* A key and its value as encode() writes them.
Written(k, v) == IF v = Long THEN <<Opening(k), Closing>> ELSE <<Assign(k, v)>>

-----------------------------------------------------------------------------
(* scan() *)

\* The line on which the quote opened on line i closes, if it does.
Closes(ls, i) ==
  LET quotes == {j \in (i + 1)..Len(ls) : HasQuote(ls[j])}
  IN IF quotes = {} THEN 0 ELSE CHOOSE j \in quotes : \A n \in quotes : j <= n

\* An assignment starts on line i.  A quote that never closes is none.
Assigns(ls, i) == ls[i].kind = "assign" \/ (ls[i].kind = "opens" /\ Closes(ls, i) # 0)

\* The last line of what starts on line i; the next is looked at in its own right.
End(ls, i) == IF Assigns(ls, i) /\ ls[i].kind = "opens" THEN Closes(ls, i) ELSE i

\* The lines assignments start on.
Scan(ls) ==
  LET From[i \in 1..(Len(ls) + 1)] ==
        IF i > Len(ls) THEN {}
        ELSE IF Assigns(ls, i) THEN {i} \union From[End(ls, i) + 1] ELSE From[End(ls, i) + 1]
  IN From[1]

\* The value of the assignment that starts on line i.
Meaning(ls, i) ==
  LET span == SubSeq(ls, i, End(ls, i))
  IN IF ls[i].kind = "assign" THEN ls[i].value
     ELSE IF span = Written(ls[i].key, Long) THEN Long ELSE span

\* values(): the last assignment of a key wins; compose takes a key that is not
\* there for an empty one.
Value(ls, k) ==
  LET starts == {i \in Scan(ls) : ls[i].key = k}
  IN IF starts = {} THEN Empty ELSE Meaning(ls, CHOOSE i \in starts : \A n \in starts : n <= i)

-----------------------------------------------------------------------------
(* patch() *)

\* lines[start:end] = new
Cut(ls, i, j, new) == SubSeq(ls, 1, i - 1) \o new \o SubSeq(ls, j + 1, Len(ls))

\* Mutant of PatchEntry: an earlier assignment of the same key is left where it is.
Bug_LeaveEarlier(ls, i, acc, updates) ==
  LET k == ls[i].key IN
  IF k \notin DOMAIN updates \/ k \in acc.seen THEN acc
  ELSE [lines |-> Cut(acc.lines, i, End(ls, i), IF updates[k] = Empty THEN <<>>
                                                ELSE Written(k, updates[k])),
        seen  |-> acc.seen \union {k}]

\* One assignment: not ours, a duplicate of one further down, cleared, or rewritten.
PatchEntry(ls, i, acc, updates) ==
  LET k == ls[i].key IN
  IF k \notin DOMAIN updates THEN acc
  ELSE [lines |-> Cut(acc.lines, i, End(ls, i), IF k \in acc.seen \/ updates[k] = Empty THEN <<>>
                                                ELSE Written(k, updates[k])),
        seen  |-> acc.seen \union {k}]

\* Backwards, so that a span cannot shift one that is still to come.
Walk(ls, updates) ==
  LET From[i \in 1..(Len(ls) + 1)] ==
        IF i > Len(ls) THEN [lines |-> ls, seen |-> {}]
        ELSE IF Assigns(ls, i) THEN PatchEntry(ls, i, From[End(ls, i) + 1], updates)
        ELSE From[End(ls, i) + 1]
  IN From[1]

\* The keys the file did not have, in the form's order.
Appended(seen, updates) ==
  LET From[n \in 1..(Len(Fields) + 1)] ==
        IF n > Len(Fields) THEN <<>>
        ELSE IF Fields[n] \in seen \/ updates[Fields[n]] = Empty THEN From[n + 1]
        ELSE Written(Fields[n], updates[Fields[n]]) \o From[n + 1]
  IN From[1]

PatchLines(ls, updates) ==
  LET walked == Walk(ls, updates) IN walked.lines \o Appended(walked.seen, updates)

\* StackSettings._rendered(): only a file that is being created gets the header.
Rendered(file, updates) ==
  LET text == PatchLines(IF file = NoFile THEN <<>> ELSE file, updates)
  IN IF file = NoFile /\ text # <<>> THEN <<Header>> \o text ELSE text

-----------------------------------------------------------------------------
EnvFileInit == lines = NoFile /\ answers = Nobody

\* The user at an editor.  Every file of few lines is typed this way.
TypeLine ==
  /\ \E line \in Typeable :
       LET now == IF lines = NoFile THEN <<>> ELSE lines IN
       Len(now) < MaxTyped /\ lines' = Append(now, line)
  /\ answers' = Nobody

\* The form: an answer for every key it declares.
SaveAnswers ==
  \E given \in [Keyed -> Texts] : lines' = Rendered(lines, given) /\ answers' = given

EnvFileNext == TypeLine \/ SaveAnswers
EnvFileSpec == EnvFileInit /\ [][EnvFileNext]_EnvFileVars

-----------------------------------------------------------------------------
(* Properties *)

\* The file is one of lines, or is not there.
EnvFileTypeOK ==
  /\ lines = NoFile \/ lines \in Seq(AnyLine)
  /\ answers = Nobody \/ answers \in [Keyed -> Texts]

FileOrNothing == IF lines = NoFile THEN <<>> ELSE lines

\* Every quote closes: a file with one that does not is refused by compose.
Closed(ls) ==
  \A i \in DOMAIN ls : ls[i].kind = "opens" => \E n \in Scan(ls) : i \in n..End(ls, n)

\* The lines that are no part of an assignment of a declared key.
Kept(ls) ==
  LET From[i \in 1..(Len(ls) + 1)] ==
        IF i > Len(ls) THEN <<>>
        ELSE IF Assigns(ls, i) /\ ls[i].key \in Keyed THEN From[End(ls, i) + 1]
        ELSE SubSeq(ls, i, End(ls, i)) \o From[End(ls, i) + 1]
  IN From[1]

\* What the form saved is what compose, and the form when it is opened again, reads
\* out of the file: duplicates, swallowed lines and cleared keys included.
AnswersReadBack ==
  [][ answers' # Nobody /\ Closed(FileOrNothing) =>
        Closed(lines') /\ \A k \in Keyed : Value(lines', k) = answers'[k] ]_EnvFileVars

\* Saving the same answers twice writes the same bytes twice: no second header, and
\* no gap that grows with every save.
SavedTwiceIsOnce ==
  [][ answers' # Nobody /\ Closed(FileOrNothing) => Rendered(lines', answers') = lines' ]_EnvFileVars

\* A save leaves every line that is not an assignment of a declared key where it was,
\* among the same others, whatever spans are rewritten, removed or appended around it.
OtherLinesKept ==
  [][ answers' # Nobody /\ Closed(FileOrNothing) =>
        \/ Kept(lines') = Kept(FileOrNothing)
        \/ lines = NoFile /\ Kept(lines') = <<Header>> ]_EnvFileVars

\* All three: a save changes what its answers say, once, and nothing else.
SaveIsExact == AnswersReadBack /\ SavedTwiceIsOnce /\ OtherLinesKept
=============================================================================
