-------------------------------- MODULE EnvValue --------------------------------
(***************************************************************************)
(* One value on its way into a .env and out of it again: encode(), and the *)
(* two readers, ours (scan()) and docker compose's.                        *)
(*                                                                         *)
(* A character is one the two tell apart from the others: "ff" is one that *)
(* ends a line for splitlines() alone.                                     *)
(***************************************************************************)
EXTENDS Naturals, Sequences

CONSTANTS
  Letters,      \* characters nobody minds, "n", "r" and "t" among them
  MaxChars      \* bound: the length of a value

Spaces == {" ", "tab", "nl", "cr", "ff"}
Apostrophe == "'"
DoubleQuote == "dq"
Backslash == "bs"
Marks == Spaces \union {"#", "$", Apostrophe, DoubleQuote, Backslash}
Chars == Letters \union Marks

ASSUME EnvValueAssumption ==
  {"n", "r", "t"} \subseteq Letters /\ Letters \intersect Marks = {} /\ MaxChars \in Nat

VARIABLE typed  \* the value a form has for a key

EnvValueVars == <<typed>>

\* What compose puts for an escaped character, and what encode() escapes it as.
Unescaped(c) ==
  CASE c = "n" -> <<"nl">> [] c = "r" -> <<"cr">> [] c = "t" -> <<"tab">>
    [] c \in {Backslash, DoubleQuote, Apostrophe, "$"} -> <<c>>
    [] OTHER -> <<Backslash, c>>

Has(text, c) == \E i \in DOMAIN text : text[i] = c

\* text.replace(c, with)
Replaced(text, c, with) ==
  LET Upto[n \in 0..Len(text)] ==
        IF n = 0 THEN <<>> ELSE Upto[n - 1] \o (IF text[n] = c THEN with ELSE <<text[n]>>)
  IN Upto[Len(text)]

\* Mutant of Escaped: the backslashes are doubled last, those just put there too.
Bug_BackslashLast(text) ==
  LET quotes  == Replaced(text, DoubleQuote, <<Backslash, DoubleQuote>>)
      dollars == Replaced(quotes, "$", <<Backslash, "$">>)
      lfs     == Replaced(dollars, "nl", <<Backslash, "n">>)
      crs     == Replaced(lfs, "cr", <<Backslash, "r">>)
  IN Replaced(crs, Backslash, <<Backslash, Backslash>>)

Escaped(text) ==
  LET slashes == Replaced(text, Backslash, <<Backslash, Backslash>>)
      quotes  == Replaced(slashes, DoubleQuote, <<Backslash, DoubleQuote>>)
      dollars == Replaced(quotes, "$", <<Backslash, "$">>)
      lfs     == Replaced(dollars, "nl", <<Backslash, "n">>)
  IN Replaced(lfs, "cr", <<Backslash, "r">>)

\* _BARE
Boring(text) == text \in Seq(Letters)

\* encode(): bare, else in single quotes, else in double quotes with escapes.
Encode(text) ==
  IF Boring(text) THEN text
  ELSE IF ~Has(text, Apostrophe) THEN <<Apostrophe>> \o text \o <<Apostrophe>>
  ELSE <<DoubleQuote>> \o Escaped(text) \o <<DoubleQuote>>

-----------------------------------------------------------------------------
(* The readers.  Only compose interpolates: a $ it finds is gone. *)

\* _read_quoted(), one character on: the quote closes the value, and a backslash in
\* double quotes waits for what it escapes.
ReadOn(was, c, quote, interpolates) ==
  IF was.closed THEN was
  ELSE IF was.escaping
  THEN [value |-> was.value \o Unescaped(c), escaping |-> FALSE, closed |-> FALSE]
  ELSE CASE c = quote -> [was EXCEPT !.closed = TRUE]
         [] quote = DoubleQuote /\ c = Backslash -> [was EXCEPT !.escaping = TRUE]
         [] quote = DoubleQuote /\ c = "$" /\ interpolates -> was
         [] OTHER -> [was EXCEPT !.value = Append(@, c)]

Opened == [value |-> <<>>, escaping |-> FALSE, closed |-> FALSE]

\* What has been read behind the opening quote, text.
Reading(text, quote, interpolates) ==
  LET Upto[n \in 0..Len(text)] ==
        IF n = 0 THEN Opened ELSE ReadOn(Upto[n - 1], text[n], quote, interpolates)
  IN Upto[Len(text)]

\* Without a closing quote the line is no assignment.
ReadQuoted(text, interpolates) ==
  LET end == Reading(Tail(text), Head(text), interpolates)
  IN IF end.closed THEN end.value ELSE <<"never closed">>

\* _strip_bare(): up to a # with a space, or nothing, before it; then trimmed.
StripBare(text, interpolates) ==
  LET Comment(i) == text[i] = "#" /\ (i = 1 \/ text[i - 1] \in Spaces)
      First(S) == CHOOSE i \in S : \A j \in S : i <= j
      Last(S)  == CHOOSE i \in S : \A j \in S : j <= i
      ends  == {i \in DOMAIN text : Comment(i) \/ text[i] = "nl"}
      cut   == IF ends = {} THEN text ELSE SubSeq(text, 1, First(ends) - 1)
      worth == {i \in DOMAIN cut : cut[i] \notin Spaces}
      kept  == IF worth = {} THEN <<>> ELSE SubSeq(cut, First(worth), Last(worth))
  IN IF interpolates THEN Replaced(kept, "$", <<>>) ELSE kept

ReadValue(text, interpolates) ==
  IF text # <<>> /\ Head(text) \in {Apostrophe, DoubleQuote}
  THEN ReadQuoted(text, interpolates) ELSE StripBare(text, interpolates)

\* read_text() makes newlines of carriage returns, of one with a newline behind it too;
\* splitlines() breaks at some characters more, and scan() joins the lines again.
AsLines(text) ==
  LET Upto[n \in 0..Len(text)] ==
        IF n = 0 THEN <<>>
        ELSE IF text[n] = "nl" /\ n > 1 /\ text[n - 1] = "cr" THEN Upto[n - 1]
        ELSE Append(Upto[n - 1], IF text[n] \in {"cr", "ff"} THEN "nl" ELSE text[n])
  IN Upto[Len(text)]

\* Compose reads the bytes.
WeRead(text)       == ReadValue(AsLines(text), FALSE)
ComposeReads(text) == ReadValue(text, TRUE)

-----------------------------------------------------------------------------
EnvValueInit == typed = <<>>
TypeChar     == Len(typed) < MaxChars /\ \E c \in Chars : typed' = Append(typed, c)
EnvValueNext == TypeChar
EnvValueSpec == EnvValueInit /\ [][EnvValueNext]_EnvValueVars

-----------------------------------------------------------------------------
(* Properties *)

\* Compose reads exactly the characters the form held, whatever they are.
ComposeReadsExactly == ComposeReads(Encode(typed)) = typed

\* So does the form when it is opened again -- but for the characters that end a line.
\* Only in double quotes are two of them written as escapes: in single quotes each comes
\* back as a newline, and the two of a CRLF as one.
FormReadsExactly ==
  WeRead(Encode(typed)) =
    IF Has(typed, Apostrophe) THEN Replaced(typed, "ff", <<"nl">>) ELSE AsLines(typed)

\* Both readers: a value that has been through the form and the file is what was typed.
ReadsBack == ComposeReadsExactly /\ FormReadsExactly
=============================================================================
