---------------------------- MODULE StringReader ----------------------------
(***************************************************************************)
(* StringReader cuts a program's text into lines, which the parser's lexer *)
(* gets one at a time.  The constructor cuts; a line is kept by where it   *)
(* begins and ends.  The lexer is not in the repository: it may call       *)
(* get_line at any time, also at the end.                                  *)
(***************************************************************************)
EXTENDS Integers, Sequences, FiniteSets

CONSTANTS
  Char,       \* the characters of programs
  Newline,    \* '\n'
  MaxLength   \* bound: the length of programs

ASSUME Bounds == Newline \in Char /\ MaxLength \in Nat

VARIABLES
  code,        \* the text
  m_code,      \* its lines so far
  last_pos,    \* where the next line begins
  m_line_pos,  \* the number of lines that get_line has returned
  phase,       \* "cutting" in the constructor, then "reading"
  line,        \* what get_line returned last
  text         \* all that it has returned

vars == <<code, m_code, last_pos, m_line_pos, phase, line, text>>

\* code.substr(from, to - from)
Line(from, to) == [from |-> from, to |-> to]
Chars(l)       == SubSeq(code, l.from + 1, l.to)

\* Mutant of Newlines: find_last_of.
LastNewlines(from) ==
  { i \in from + 1 .. Len(code) :
      code[i] = Newline /\ \A j \in i + 1 .. Len(code) : code[j] # Newline }

\* The end of the line that begins at "from", if a newline ends it:
\* find_first_of, and one more for the newline itself.
Newlines(from) ==
  { i \in from + 1 .. Len(code) :
      code[i] = Newline /\ \A j \in from + 1 .. i - 1 : code[j] # Newline }

-----------------------------------------------------------------------------
(* The constructor. *)

\* Mutant of CutAt: the newline is left out.
CutBefore(i) == m_code' = Append(m_code, Line(last_pos, i - 1)) /\ last_pos' = i

CutAt(i) == m_code' = Append(m_code, Line(last_pos, i)) /\ last_pos' = i

Cut ==
  /\ phase = "cutting"
  /\ \E i \in Newlines(last_pos) : CutAt(i)
  /\ UNCHANGED <<code, m_line_pos, phase, line, text>>

\* Mutant of CutRest: an empty rest is no line.
CutSomeRest ==
  /\ phase = "cutting" /\ \A j \in last_pos + 1 .. Len(code) : code[j] # Newline
  /\ m_code' = IF last_pos = Len(code) THEN m_code
               ELSE Append(m_code, Line(last_pos, Len(code)))
  /\ phase' = "reading"
  /\ UNCHANGED <<code, last_pos, m_line_pos, line, text>>

\* The rest, which is empty if the text ends with a newline.
CutRest ==
  /\ phase = "cutting" /\ \A j \in last_pos + 1 .. Len(code) : code[j] # Newline
  /\ m_code' = Append(m_code, Line(last_pos, Len(code)))
  /\ phase' = "reading"
  /\ UNCHANGED <<code, last_pos, m_line_pos, line, text>>

-----------------------------------------------------------------------------
(* The lexer's calls. *)

eof == m_line_pos = Len(m_code)

\* Mutant of Advanced: the line number counts calls.
AdvancedAlways == m_line_pos + 1
Advanced == IF eof THEN m_line_pos ELSE m_line_pos + 1

\* get_line
GetLine ==
  /\ phase = "reading"
  /\ line' = IF eof THEN << >> ELSE Chars(m_code[m_line_pos + 1])
  /\ m_line_pos' = Advanced
  /\ text' = text \o line'
  /\ UNCHANGED <<code, m_code, last_pos, phase>>

-----------------------------------------------------------------------------
Codes == UNION { [1 .. n -> Char] : n \in 0 .. MaxLength }

Init ==
  /\ code \in Codes
  /\ m_code = << >> /\ last_pos = 0 /\ m_line_pos = 0
  /\ phase = "cutting" /\ line = << >> /\ text = << >>

Next == Cut \/ CutRest \/ GetLine

Spec == Init /\ [][Next]_vars

-----------------------------------------------------------------------------
(* Properties. *)

\* The types of the reader's state: lines within the text, as many returned
\* as there are at most.
TypeOK ==
  /\ m_code \in Seq([from : 0 .. Len(code), to : 0 .. Len(code)])
  /\ last_pos \in 0 .. Len(code)
  /\ m_line_pos \in 0 .. Len(m_code)
  /\ phase \in {"cutting", "reading"}

\* The lexer sees the program, all of it and in order: what has been returned
\* is a beginning of the text, and at the end it is the whole text.
ReadsTheCode ==
  /\ text = SubSeq(code, 1, Len(text))
  /\ phase = "reading" /\ eof => text = code

\* A returned line is one line: a newline only at its end, and missing only
\* at the end of the text.
LinesAreLines ==
  /\ \A i \in DOMAIN line : line[i] = Newline => i = Len(line)
  /\ line # << >> /\ line[Len(line)] # Newline => text = code

\* Since get_line says "" at the end, no other line may be empty: a lexer that
\* takes "" for the end misses nothing.
EmptyLineIsTheEnd ==
  line = << >> /\ m_line_pos > 0 => text = code

\* get_line_number, which error messages quote, counts the newlines read, and
\* the last line.
LineNumberCounts ==
  m_line_pos = Cardinality({ i \in DOMAIN text : text[i] = Newline })
                 + IF phase = "reading" /\ eof THEN 1 ELSE 0

=============================================================================
