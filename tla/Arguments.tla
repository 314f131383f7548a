----------------------------- MODULE Arguments -----------------------------
(***************************************************************************)
(* parseArguments (src/util/util.cpp), which splits a line of the shell    *)
(* into arguments: its nested loops as steps over one position, for every  *)
(* line up to MaxLength, beside the definition they are to implement.      *)
(***************************************************************************)
EXTENDS Naturals, Sequences

CONSTANTS
  Letters,  \* characters without a meaning of their own
  MaxLength, \* bound on the length of a line
  MaxWord   \* bound on the length of a quoted word

Quotes == {"'", "\""}
Backslash == "\\"
Blank == " "
Chars == Letters \cup Quotes \cup {Blank, Backslash}

ASSUME ArgumentsAssumption ==
  /\ MaxLength \in Nat /\ MaxWord \in Nat
  /\ Letters \cap (Quotes \cup {Blank, Backslash}) = {}

VARIABLES
  line,      \* str
  pos,       \* the position, from 0
  buf,       \* the argument being read
  escaped,   \* a backslash came before
  delim,     \* the quote the argument began with, Blank for none
  arguments, \* what was read before
  at,        \* the loop it is in
  meant      \* history: two words the user put in quotes, if it is such a line

vars == <<line, pos, buf, escaped, delim, arguments, at, meant>>

\* A word in quotes, its quotes and backslashes escaped.
QuotedWord(w, q) ==
  LET text[i \in 0 .. Len(w)] ==
        IF i = 0 THEN <<q>>
        ELSE text[i - 1] \o (IF w[i] \in {Backslash, q} THEN <<Backslash, w[i]>> ELSE <<w[i]>>)
  IN Append(text[Len(w)], q)

\* Any short line, or one made of two quoted words.
SomeLine ==
  \/ /\ line \in UNION { [1 .. n -> Chars] : n \in 0 .. MaxLength }
     /\ meant = << >>
  \/ \E u, w \in UNION { [1 .. n -> Chars] : n \in 1 .. MaxWord }, q, r \in Quotes :
       /\ line = QuotedWord(u, q) \o QuotedWord(w, r)
       /\ meant = <<u, w>>

ArgumentsInit ==
  /\ SomeLine
  /\ pos = 0
  /\ buf = << >>
  /\ escaped = FALSE
  /\ delim = Blank
  /\ arguments = << >>
  /\ at = IF line = << >> THEN "returned" ELSE "skip"

More == pos < Len(line)
Char == line[pos + 1]

-----------------------------------------------------------------------------
(* readArgument, with skipWhitespaces inlined.                             *)

\* Mutant: the position is not advanced.
SkipNothing ==
  /\ at = "skip" /\ More /\ Char = Blank
  /\ UNCHANGED vars

SkipWhitespace ==
  /\ at = "skip" /\ More /\ Char = Blank
  /\ pos' = pos + 1
  /\ UNCHANGED <<line, buf, escaped, delim, arguments, at, meant>>

\* Nothing is left: the empty argument is not stored, and the position, one
\* behind the end, ends the loop of parseArguments.
SkipToEnd ==
  /\ at = "skip" /\ ~More
  /\ pos' = pos + 1
  /\ at' = "returned"
  /\ UNCHANGED <<line, buf, escaped, delim, arguments, meant>>

BeginQuoted ==
  /\ at = "skip" /\ More /\ Char \in Quotes
  /\ delim' = Char
  /\ pos' = pos + 1
  /\ at' = "read"
  /\ UNCHANGED <<line, buf, escaped, arguments, meant>>

BeginWord ==
  /\ at = "skip" /\ More /\ Char \notin Quotes \cup {Blank}
  /\ delim' = Blank
  /\ at' = "read"
  /\ UNCHANGED <<line, pos, buf, escaped, arguments, meant>>

-----------------------------------------------------------------------------
(* readEscaped.                                                            *)

Quoted == delim # Blank

Keep(c) ==
  /\ buf' = Append(buf, c)
  /\ pos' = pos + 1
  /\ escaped' = FALSE
  /\ UNCHANGED <<line, delim, arguments, at, meant>>

\* What follows a backslash inside quotes: itself or the quote.
ReadEscape ==
  /\ at = "read" /\ More /\ escaped
  /\ Char \in {Backslash, delim}
  /\ Keep(Char)

EscapeThrows ==
  /\ at = "read" /\ More /\ escaped
  /\ Char \notin {Backslash, delim}
  /\ at' = "thrown"
  /\ UNCHANGED <<line, pos, buf, escaped, delim, arguments, meant>>

ReadBackslash ==
  /\ at = "read" /\ More /\ ~escaped
  /\ Quoted /\ Char = Backslash
  /\ escaped' = TRUE
  /\ pos' = pos + 1
  /\ UNCHANGED <<line, buf, delim, arguments, at, meant>>

\* Mutant: any quote ends an argument in quotes.
EndsAtAnyQuote(c) == c \in Quotes \cup (IF Quoted THEN {} ELSE {Blank})

\* The characters that end an argument.
Ends(c) == IF Quoted THEN c = delim ELSE c \in Quotes \cup {Blank}

ReadChar ==
  /\ at = "read" /\ More /\ ~escaped
  /\ Char # Backslash \/ ~Quoted
  /\ ~Ends(Char)
  /\ Keep(Char)

\* Mutant: a quote that ends a word is skipped.
SkipsQuote == pos + 1

\* The position is behind the end of the argument; a quote that ends a word
\* begins the next one.
AfterArgument == IF More /\ ~Quoted /\ Char \in Quotes THEN pos ELSE pos + 1

\* Back in parseArguments: an empty argument is dropped.
EndArgument ==
  /\ at = "read"
  /\ More => ~escaped /\ Ends(Char)
  /\ arguments' = IF buf = << >> THEN arguments ELSE Append(arguments, buf)
  /\ buf' = << >>
  /\ escaped' = FALSE
  /\ pos' = AfterArgument
  /\ at' = IF pos' < Len(line) THEN "skip" ELSE "returned"
  /\ UNCHANGED <<line, delim, meant>>

Parse ==
  \/ SkipWhitespace \/ SkipToEnd \/ BeginQuoted \/ BeginWord
  \/ ReadEscape \/ EscapeThrows \/ ReadBackslash \/ ReadChar \/ EndArgument

ArgumentsSpec == ArgumentsInit /\ [][Parse]_vars /\ WF_vars(Parse)

-----------------------------------------------------------------------------
(* The definition: every character is read in a state that those before it *)
(* determine, and belongs to the argument that began last.                 *)

\* gap, word, or the quote it is in, the latter possibly after a backslash.
StateAfter(s, c) ==
  IF s.escaped
  THEN IF c \in {Backslash, s.quote} THEN [s EXCEPT !.escaped = FALSE]
       ELSE [s EXCEPT !.quote = "error"]
  ELSE IF s.quote \in Quotes
  THEN IF c = Backslash THEN [s EXCEPT !.escaped = TRUE]
       ELSE IF c = s.quote THEN [s EXCEPT !.quote = "gap"] ELSE s
  ELSE IF s.quote = "error" THEN s
  ELSE IF c \in Quotes THEN [s EXCEPT !.quote = c, !.nr = @ + 1]
  ELSE IF c = Blank THEN [s EXCEPT !.quote = "gap"]
  ELSE IF s.quote = "gap" THEN [s EXCEPT !.quote = "word", !.nr = @ + 1]
  ELSE s

StateAt(str) ==
  LET state[i \in 0 .. Len(str)] ==
        IF i = 0 THEN [quote |-> "gap", escaped |-> FALSE, nr |-> 0]
        ELSE StateAfter(state[i - 1], str[i])
  IN state

\* The i-th character is part of the k-th argument as it stands.
PartOf(state, str, k, i) ==
  LET s == state[i - 1] IN
  /\ state[i].nr = k
  /\ \/ s.escaped
     \/ str[i] \notin (IF s.quote \in Quotes THEN {Backslash, s.quote} ELSE Quotes \cup {Blank})

\* What the first characters of a line, one more each time, have of the k-th
\* argument.
Part(str, k) ==
  LET state == StateAt(str)
      part[i \in 0 .. Len(str)] ==
        IF i = 0 THEN << >>
        ELSE IF PartOf(state, str, k, i) THEN Append(part[i - 1], str[i]) ELSE part[i - 1]
  IN part

\* Those of the first arguments, one more each time, that are not empty as far
\* as the first i characters go.
NotEmpty(str, i) ==
  LET read[k \in Nat] ==
        IF k = 0 THEN << >>
        ELSE IF Part(str, k)[i] = << >> THEN read[k - 1]
        ELSE Append(read[k - 1], Part(str, k)[i])
  IN read

ArgumentsOf(str) == NotEmpty(str, Len(str))[StateAt(str)[Len(str)].nr]

-----------------------------------------------------------------------------
(* Properties.                                                             *)

\* What parseArguments returns is what the characters of the line say, and it
\* throws exactly where a backslash in quotes escapes something else.
ParsesAsDefined ==
  /\ at = "returned" => arguments = ArgumentsOf(line)
  /\ at \in {"returned", "thrown"} =>
       (at = "thrown" <=> StateAt(line)[Len(line)].quote = "error")

\* Any argument but the empty one can be given: two words, quoted and one
\* right behind the other, are read as they were meant.
QuotingWorks ==
  meant # << >> => at # "thrown" /\ (at = "returned" => arguments = meant)

\* The three nested loops end on every line: each of them leaves the position
\* where the next one gets on.
ParsingEnds == <>(at \in {"returned", "thrown"})
=============================================================================
