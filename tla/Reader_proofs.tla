--------------------------- MODULE Reader_proofs ---------------------------
(***************************************************************************)
(* The StringReader returns the program line by line, whatever the text.   *)
(*                                                                         *)
(* The argument: the lines tile the text, each beginning where the one     *)
(* before ends, so what has been returned is the text up to the end of the *)
(* last line returned.                                                     *)
(***************************************************************************)
EXTENDS StringReader, SequenceLemmas, FiniteSetTheorems

\* Where the first n of the lines c end.
End(c, n) == IF n = 0 THEN 0 ELSE c[n].to

Bounded ==
  /\ code \in Seq(Char) /\ phase \in {"cutting", "reading"}
  /\ m_code \in Seq([from : 0 .. Len(code), to : 0 .. Len(code)])
  /\ last_pos \in 0 .. Len(code)

\* Line i begins where the lines before it end, has no newline inside, and
\* ends with one unless it is the last.
Tiled ==
  \A i \in 1 .. Len(m_code) :
    /\ m_code[i].from = End(m_code, i - 1) /\ m_code[i].from <= m_code[i].to
    /\ \A j \in m_code[i].from + 1 .. m_code[i].to - 1 : code[j] # Newline
    /\ \/ m_code[i].from < m_code[i].to /\ code[m_code[i].to] = Newline
       \/ i = Len(m_code) /\ phase = "reading" /\ m_code[i].to = Len(code)

Cutting ==
  phase = "cutting" => /\ last_pos = End(m_code, Len(m_code)) /\ m_line_pos = 0
                       /\ line = << >> /\ text = << >>

Reading ==
  phase = "reading" => Len(m_code) > 0 /\ End(m_code, Len(m_code)) = Len(code)

Returned ==
  m_line_pos \in 0 .. Len(m_code) /\ text = SubSeq(code, 1, End(m_code, m_line_pos))

IInv ==
  Bounded /\ Tiled /\ Cutting /\ Reading /\ Returned /\ LinesAreLines /\ EmptyLineIsTheEnd

-----------------------------------------------------------------------------
\* A part of the text.
LEMMA Part ==
  ASSUME Bounded, NEW from \in Nat, NEW to \in 0 .. Len(code), from <= to
  PROVE  /\ SubSeq(code, from + 1, to) \in Seq(Char)
         /\ Len(SubSeq(code, from + 1, to)) = to - from
         /\ \A i \in 1 .. to - from : SubSeq(code, from + 1, to)[i] = code[from + i]
<1>1. \A i \in from + 1 .. to : code[i] \in Char
  BY DEF Bounded
<1>2. from + 1 \in Int /\ to \in Int
  BY DEF Bounded
<1>3. /\ SubSeq(code, from + 1, to) \in Seq(Char)
      /\ Len(SubSeq(code, from + 1, to)) = IF from + 1 <= to THEN to - (from + 1) + 1 ELSE 0
      /\ \A i \in 1 .. to - (from + 1) + 1 : SubSeq(code, from + 1, to)[i] = code[from + 1 + i - 1]
  BY <1>1, <1>2, SubSeqProperties
<1>4. Len(SubSeq(code, from + 1, to)) = to - from
  BY <1>2, <1>3
<1>5. ASSUME NEW i \in 1 .. to - from
      PROVE  SubSeq(code, from + 1, to)[i] = code[from + i]
  <2>1. i \in 1 .. to - (from + 1) + 1 /\ from + 1 + i - 1 = from + i
    BY <1>2
  <2>2. QED
    BY <1>3, <2>1
<1>6. QED
  BY <1>3, <1>4, <1>5

\* A beginning of the text and the part after it.
LEMMA Joined ==
  ASSUME Bounded, NEW from \in Nat, NEW to \in 0 .. Len(code), from <= to
  PROVE  SubSeq(code, 1, from) \o SubSeq(code, from + 1, to) = SubSeq(code, 1, to)
<1>1. 1 \in 1 .. Len(code) + 1 /\ from \in 1 - 1 .. Len(code) /\ to \in from .. Len(code)
  BY DEF Bounded
<1>2. QED
  BY <1>1, ConcatAdjacentSubSeq DEF Bounded

\* The lines end within the text.
LEMMA EndType ==
  ASSUME Bounded, NEW n \in 0 .. Len(m_code)
  PROVE  End(m_code, n) \in 0 .. Len(code) /\ Len(m_code) \in Nat /\ Len(code) \in Nat
<1>1. Len(m_code) \in Nat /\ Len(code) \in Nat
  BY LenProperties DEF Bounded
<1>2. CASE n = 0
  BY <1>1, <1>2 DEF End
<1>3. CASE n # 0
  <2>1. n \in 1 .. Len(m_code)
    BY <1>1, <1>3
  <2>2. m_code[n] \in [from : 0 .. Len(code), to : 0 .. Len(code)]
    BY <2>1, ElementOfSeq DEF Bounded
  <2>3. QED
    BY <1>1, <1>3, <2>2 DEF End
<1>4. QED
  BY <1>2, <1>3

-----------------------------------------------------------------------------
(* The steps. *)

\* One more line, after those that there are.
LEMMA LineAdded ==
  ASSUME Bounded, NEW from \in 0 .. Len(code), NEW to \in 0 .. Len(code),
         m_code' = Append(m_code, Line(from, to)), code' = code
  PROVE  /\ m_code' \in Seq([from : 0 .. Len(code), to : 0 .. Len(code)])
         /\ Len(m_code') = Len(m_code) + 1 /\ Len(m_code) \in Nat
         /\ \A i \in 1 .. Len(m_code) : m_code'[i] = m_code[i] /\ End(m_code', i) = End(m_code, i)
         /\ m_code'[Len(m_code) + 1] = Line(from, to)
         /\ End(m_code', Len(m_code) + 1) = to /\ End(m_code', 0) = 0
<1> DEFINE L == [from : 0 .. Len(code), to : 0 .. Len(code)]
<1>1. m_code \in Seq(L) /\ Line(from, to) \in L
  BY DEF Bounded, Line
<1> HIDE DEF L
<1>2. /\ m_code' \in Seq(L) /\ Len(m_code') = Len(m_code) + 1
      /\ \A i \in 1 .. Len(m_code) : m_code'[i] = m_code[i]
      /\ m_code'[Len(m_code) + 1] = Line(from, to)
  BY <1>1, AppendProperties
<1>3. Len(m_code) \in Nat /\ Line(from, to).to = to
  BY <1>1, LenProperties DEF Line
<1>4. \A i \in 1 .. Len(m_code) : End(m_code', i) = End(m_code, i)
  BY <1>2, <1>3 DEF End
<1>5. End(m_code', Len(m_code) + 1) = to /\ End(m_code', 0) = 0
  BY <1>2, <1>3 DEF End
<1>6. QED
  BY <1>2, <1>3, <1>4, <1>5 DEF L

\* The new line has no newline inside, and ends with one or with the text.
LEMMA CuttingKeeps ==
  ASSUME IInv, phase = "cutting", NEW to \in 0 .. Len(code), last_pos <= to,
         m_code' = Append(m_code, Line(last_pos, to)),
         \A j \in last_pos + 1 .. to - 1 : code[j] # Newline,
         \/ phase' = phase /\ last_pos' = to /\ last_pos < to /\ code[to] = Newline
         \/ phase' = "reading" /\ last_pos' = last_pos /\ to = Len(code),
         UNCHANGED <<code, m_line_pos, line, text>>
  PROVE  IInv'
<1>1. /\ Bounded /\ Tiled /\ last_pos = End(m_code, Len(m_code)) /\ m_line_pos = 0
      /\ line = << >> /\ text = << >> /\ last_pos \in 0 .. Len(code)
  BY DEF IInv, Cutting, Bounded
<1> DEFINE n == Len(m_code)
<1>2. /\ m_code' \in Seq([from : 0 .. Len(code), to : 0 .. Len(code)])
      /\ Len(m_code') = n + 1 /\ n \in Nat
      /\ \A i \in 1 .. n : m_code'[i] = m_code[i] /\ End(m_code', i) = End(m_code, i)
      /\ m_code'[n + 1] = Line(last_pos, to)
      /\ End(m_code', n + 1) = to /\ End(m_code', 0) = 0
  BY <1>1, LineAdded
<1>3. Bounded'
  BY <1>1, <1>2 DEF Bounded
<1>4. Tiled'
  <2> SUFFICES ASSUME NEW i \in 1 .. n + 1
               PROVE  /\ m_code'[i].from = End(m_code', i - 1)
                      /\ m_code'[i].from <= m_code'[i].to
                      /\ \A j \in m_code'[i].from + 1 .. m_code'[i].to - 1 : code[j] # Newline
                      /\ \/ m_code'[i].from < m_code'[i].to /\ code[m_code'[i].to] = Newline
                         \/ i = n + 1 /\ phase' = "reading" /\ m_code'[i].to = Len(code)
    BY <1>2 DEF Tiled
  <2>1. CASE i \in 1 .. n
    <3>1. m_code'[i] = m_code[i] /\ End(m_code', i - 1) = End(m_code, i - 1)
      <4>1. CASE i = 1
        BY <1>2, <2>1, <4>1 DEF End
      <4>2. CASE i # 1
        <5>1. i - 1 \in 1 .. n
          BY <1>2, <2>1, <4>2
        <5>2. QED
          BY <1>2, <2>1, <5>1
      <4>3. QED
        BY <4>1, <4>2
    <3>2. QED
      BY <1>1, <2>1, <3>1 DEF Tiled
  <2>2. CASE i = n + 1
    <3>1. m_code'[i] = Line(last_pos, to) /\ i - 1 = n
      BY <1>2, <2>2
    <3>2. Line(last_pos, to).from = last_pos /\ Line(last_pos, to).to = to
      BY DEF Line
    <3>3. End(m_code', n) = End(m_code, n)
      <4>1. n = 0 \/ n \in 1 .. n
        BY <1>2
      <4>2. QED
        BY <1>2, <4>1 DEF End
    <3>4. QED
      BY <1>1, <2>2, <3>1, <3>2, <3>3
  <2>3. QED
    BY <1>2, <2>1, <2>2
<1>5. Cutting'
  BY <1>1, <1>2 DEF Cutting
<1>6. Reading'
  BY <1>2 DEF Reading
<1>7. Returned'
  <2>1. m_line_pos' \in 0 .. Len(m_code')
    BY <1>1, <1>2
  <2>2. text' = SubSeq(code', 1, End(m_code', m_line_pos'))
    <3>1. text = SubSeq(code, 1, End(m_code, m_line_pos))
      BY DEF IInv, Returned
    <3>2. End(m_code, m_line_pos) = 0 /\ End(m_code', m_line_pos') = 0
      BY <1>1 DEF End
    <3>3. QED
      BY <3>1, <3>2
  <2>3. QED
    BY <2>1, <2>2 DEF Returned
<1>8. LinesAreLines' /\ EmptyLineIsTheEnd'
  BY <1>1 DEF LinesAreLines, EmptyLineIsTheEnd
<1>9. QED
  BY <1>3, <1>4, <1>5, <1>6, <1>7, <1>8 DEF IInv

LEMMA CutKeeps ==
  ASSUME IInv, Cut
  PROVE  IInv'
<1>1. PICK i \in Newlines(last_pos) : CutAt(i)
  BY DEF Cut
<1>2. last_pos \in 0 .. Len(code) /\ Len(code) \in Nat
  BY LenProperties DEF IInv, Bounded
<1>3. /\ i \in last_pos + 1 .. Len(code) /\ code[i] = Newline
      /\ \A j \in last_pos + 1 .. i - 1 : code[j] # Newline
  BY <1>1 DEF Newlines
<1>4. i \in 0 .. Len(code) /\ last_pos < i /\ last_pos <= i
  BY <1>2, <1>3
<1>5. QED
  BY <1>1, <1>3, <1>4, CuttingKeeps DEF Cut, CutAt

LEMMA CutRestKeeps ==
  ASSUME IInv, CutRest
  PROVE  IInv'
<1>1. last_pos \in 0 .. Len(code) /\ Len(code) \in Nat
  BY LenProperties DEF IInv, Bounded
<1>2. /\ Len(code) \in 0 .. Len(code) /\ last_pos <= Len(code)
      /\ \A j \in last_pos + 1 .. Len(code) - 1 : j \in last_pos + 1 .. Len(code)
  BY <1>1
<1>3. QED
  BY <1>2, CuttingKeeps DEF CutRest

LEMMA GetLineKeeps ==
  ASSUME IInv, GetLine
  PROVE  IInv'
<1> DEFINE n == Len(m_code)
           k == m_line_pos + 1
           l == m_code[k]
<1>1. /\ Bounded /\ Tiled /\ phase = "reading" /\ n > 0 /\ End(m_code, n) = Len(code)
      /\ m_line_pos \in 0 .. n /\ text = SubSeq(code, 1, End(m_code, m_line_pos))
      /\ n \in Nat /\ Len(code) \in Nat /\ code \in Seq(Char)
  BY LenProperties DEF IInv, Reading, Returned, GetLine, Bounded
<1>2. CASE eof
  <2>1. line' = << >> /\ m_line_pos' = m_line_pos /\ text' = text \o << >>
    BY <1>2 DEF GetLine, Advanced
  <2>2. text = code /\ text' = text
    <3>1. text = SubSeq(code, 1, Len(code))
      BY <1>1, <1>2 DEF eof
    <3>2. text = code
      BY <1>1, <3>1, SubSeqFull
    <3>3. QED
      BY <1>1, <2>1, <3>2, ConcatEmptySeq
  <2>3. LinesAreLines' /\ EmptyLineIsTheEnd'
    BY <2>1, <2>2 DEF LinesAreLines, EmptyLineIsTheEnd, GetLine
  <2>4. Bounded' /\ Tiled' /\ Cutting' /\ Reading' /\ Returned'
    BY <1>1, <2>1, <2>2 DEF Bounded, Tiled, Cutting, Reading, Returned, GetLine
  <2>5. QED
    BY <2>3, <2>4 DEF IInv
<1>3. CASE ~ eof
  <2>1. line' = Chars(l) /\ m_line_pos' = k /\ text' = text \o line'
    BY <1>3 DEF GetLine, Advanced
  <2>2. k \in 1 .. n /\ k - 1 = m_line_pos
    BY <1>1, <1>3 DEF eof
  <2>3. /\ l.from = End(m_code, m_line_pos) /\ l.from <= l.to
        /\ \A j \in l.from + 1 .. l.to - 1 : code[j] # Newline
        /\ \/ l.from < l.to /\ code[l.to] = Newline
           \/ k = n /\ l.to = Len(code)
    BY <1>1, <2>2 DEF Tiled
  <2>4. l.to = End(m_code, k) /\ l.to \in 0 .. Len(code) /\ l.from \in 0 .. Len(code)
    <3>1. l.to = End(m_code, k)
      BY <2>2 DEF End
    <3>2. End(m_code, k) \in 0 .. Len(code) /\ End(m_code, m_line_pos) \in 0 .. Len(code)
      BY <1>1, <2>2, EndType
    <3>3. QED
      BY <2>3, <3>1, <3>2
  <2> DEFINE f == l.from
             t == l.to
  <2>5. Chars(l) = SubSeq(code, f + 1, t)
    BY DEF Chars
  <2> HIDE DEF l, k, n
  <2>6. f \in Nat /\ t \in 0 .. Len(code) /\ f <= t
    BY <1>1, <2>3, <2>4
  <2> HIDE DEF f, t
  <2>7. text' = SubSeq(code, 1, t)
    <3>1. text = SubSeq(code, 1, f)
      BY <1>1, <2>3 DEF f
    <3>2. QED
      BY <1>1, <2>1, <2>5, <2>6, <3>1, Joined
  <2>8. /\ line' \in Seq(Char) /\ Len(line') = t - f
        /\ \A i \in 1 .. t - f : line'[i] = code[f + i]
    BY <1>1, <2>1, <2>5, <2>6, Part
  <2>9. t = Len(code) => text' = code
    BY <1>1, <2>7, SubSeqFull
  <2>10. LinesAreLines'
    <3>1. ASSUME NEW i \in DOMAIN line', line'[i] = Newline
          PROVE  i = Len(line')
      <4>1. i \in 1 .. t - f /\ code[f + i] = Newline
        BY <2>8, <3>1
      <4>2. f + i \notin f + 1 .. t - 1
        BY <2>3, <4>1 DEF f, t
      <4>3. QED
        BY <1>1, <2>6, <2>8, <4>1, <4>2
    <3>2. ASSUME line' # << >>, line'[Len(line')] # Newline
          PROVE  text' = code
      <4>1. Len(line') \in Nat \ {0}
        BY <2>8, <3>2, EmptySeq
      <4>2. t - f \in 1 .. t - f /\ f + (t - f) = t
        BY <1>1, <2>6, <2>8, <4>1
      <4>3. code[t] # Newline
        BY <2>8, <3>2, <4>2
      <4>4. QED
        BY <2>3, <2>9, <4>3 DEF t
    <3>3. QED
      BY <3>1, <3>2 DEF GetLine, LinesAreLines
  <2>11. EmptyLineIsTheEnd'
    <3>1. ASSUME line' = << >>
          PROVE  text' = code
      <4>1. Len(line') = 0
        BY <3>1
      <4>2. ~ (f < t)
        BY <1>1, <2>6, <2>8, <4>1
      <4>3. QED
        BY <2>3, <2>9, <4>2 DEF f, t
    <3>2. QED
      BY <3>1 DEF GetLine, EmptyLineIsTheEnd
  <2>12. Returned'
    <3>1. m_line_pos' \in 0 .. Len(m_code') /\ End(m_code', m_line_pos') = t
      BY <1>1, <2>1, <2>2, <2>4 DEF GetLine, n, t
    <3>2. text' = SubSeq(code', 1, t)
      BY <2>7 DEF GetLine
    <3>3. QED
      BY <3>1, <3>2 DEF Returned
  <2>13. Bounded' /\ Tiled' /\ Cutting' /\ Reading'
    BY <1>1 DEF Bounded, Tiled, Cutting, Reading, GetLine, n
  <2>14. QED
    BY <2>10, <2>11, <2>12, <2>13 DEF IInv
<1>4. QED
  BY <1>2, <1>3

-----------------------------------------------------------------------------
(* The theorems. *)

LEMMA InitHolds ==
  ASSUME Init
  PROVE  IInv
<1>1. code \in Seq(Char)
  BY DEF Init, Codes
<1>2. Len(code) \in Nat
  BY <1>1, LenProperties
<1>3. Bounded /\ Tiled /\ Cutting /\ Reading
  BY <1>1, <1>2 DEF Init, Bounded, Tiled, Cutting, Reading, End
<1>4. Returned
  <2>1. SubSeq(code, 1, 0) = << >>
    OBVIOUS
  <2>2. QED
    BY <2>1 DEF Init, Returned, End
<1>5. LinesAreLines /\ EmptyLineIsTheEnd
  BY DEF Init, LinesAreLines, EmptyLineIsTheEnd
<1>6. QED
  BY <1>3, <1>4, <1>5 DEF IInv

LEMMA NextKeeps ==
  ASSUME IInv, [Next]_vars
  PROVE  IInv'
<1>1. CASE UNCHANGED vars
  BY <1>1 DEF vars, IInv, Bounded, Tiled, Cutting, Reading, Returned, LinesAreLines,
              EmptyLineIsTheEnd
<1>2. QED
  BY <1>1, CutKeeps, CutRestKeeps, GetLineKeeps DEF Next

\* The lines stay within the text, and no more are returned than there are.
THEOREM ReaderTypeCorrect == Spec => []TypeOK
<1>1. Init => IInv
  BY InitHolds
<1>2. IInv /\ [Next]_vars => IInv'
  BY NextKeeps
<1>3. IInv => TypeOK
  BY DEF IInv, Bounded, Returned, TypeOK
<1>4. QED
  BY <1>1, <1>2, <1>3, PTL DEF Spec

\* The lexer sees the whole program, in order, whatever its characters.
THEOREM ReadsTheCodeCorrect == Spec => []ReadsTheCode
<1>1. Init => IInv
  BY InitHolds
<1>2. IInv /\ [Next]_vars => IInv'
  BY NextKeeps
<1>3. ASSUME IInv PROVE ReadsTheCode
  <2>1. /\ Bounded /\ End(m_code, m_line_pos) \in 0 .. Len(code)
        /\ text = SubSeq(code, 1, End(m_code, m_line_pos))
    BY <1>3, EndType DEF IInv, Returned
  <2> DEFINE e == End(m_code, m_line_pos)
  <2> HIDE DEF e
  <2>2. Len(code) \in Nat /\ code \in Seq(Char) /\ e \in 0 .. Len(code)
    BY <2>1, LenProperties DEF Bounded, e
  <2>3. Len(text) = e
    <3>1. Len(SubSeq(code, 0 + 1, e)) = e - 0
      BY <2>1, <2>2, Part
    <3>2. 0 + 1 = 1 /\ e - 0 = e
      BY <2>2
    <3>3. QED
      BY <2>1, <3>1, <3>2 DEF e
  <2>4. phase = "reading" /\ eof => text = code
    <3>1. phase = "reading" /\ eof => e = Len(code)
      BY <1>3 DEF IInv, Reading, eof, e
    <3>2. QED
      BY <2>1, <2>2, <3>1, SubSeqFull DEF e
  <2>5. QED
    BY <2>1, <2>3, <2>4 DEF ReadsTheCode, e
<1>4. QED
  BY <1>1, <1>2, <1>3, PTL DEF Spec

\* What get_line returns is one line.
THEOREM LinesAreLinesCorrect == Spec => []LinesAreLines
<1>1. Init => IInv
  BY InitHolds
<1>2. IInv /\ [Next]_vars => IInv'
  BY NextKeeps
<1>3. IInv => LinesAreLines
  BY DEF IInv
<1>4. QED
  BY <1>1, <1>2, <1>3, PTL DEF Spec

\* The empty string means the end, and nothing else.
THEOREM EmptyLineIsTheEndCorrect == Spec => []EmptyLineIsTheEnd
<1>1. Init => IInv
  BY InitHolds
<1>2. IInv /\ [Next]_vars => IInv'
  BY NextKeeps
<1>3. IInv => EmptyLineIsTheEnd
  BY DEF IInv
<1>4. QED
  BY <1>1, <1>2, <1>3, PTL DEF Spec

-----------------------------------------------------------------------------
(* The number of the line. *)

\* The last line has no newline, not even at its end.
Rest ==
  phase = "reading" => \A j \in m_code[Len(m_code)].from + 1 .. Len(code) : code[j] # Newline

NewlinesIn(s) == { i \in DOMAIN s : s[i] = Newline }

\* A piece of text after another one adds its newlines.
LEMMA NewlinesAdded ==
  ASSUME NEW s \in Seq(Char), NEW n \in 0 .. Len(s), NEW m \in n .. Len(s),
         \A j \in n + 1 .. m - 1 : s[j] # Newline
  PROVE  /\ IsFiniteSet(NewlinesIn(SubSeq(s, 1, n)))
         /\ NewlinesIn(SubSeq(s, 1, m)) =
              NewlinesIn(SubSeq(s, 1, n)) \cup (IF n < m /\ s[m] = Newline THEN {m} ELSE {})
         /\ m > n => m \notin NewlinesIn(SubSeq(s, 1, n))
<1>1. Len(s) \in Nat /\ n \in Nat /\ m \in Nat /\ n <= m /\ m <= Len(s)
  BY LenProperties
<1>2. ASSUME NEW k \in 0 .. Len(s)
      PROVE  DOMAIN SubSeq(s, 1, k) = 1 .. k /\ \A i \in 1 .. k : SubSeq(s, 1, k)[i] = s[i]
  <2>1. 1 \in Int /\ k \in Int /\ \A i \in 1 .. k : s[i] \in Char
    BY <1>1, ElementOfSeq
  <2>2. /\ SubSeq(s, 1, k) \in Seq(Char)
        /\ Len(SubSeq(s, 1, k)) = IF 1 <= k THEN k - 1 + 1 ELSE 0
        /\ \A i \in 1 .. k - 1 + 1 : SubSeq(s, 1, k)[i] = s[1 + i - 1]
    BY <2>1, SubSeqProperties
  <2>3. Len(SubSeq(s, 1, k)) = k
    BY <1>1, <2>2
  <2>4. ASSUME NEW i \in 1 .. k PROVE SubSeq(s, 1, k)[i] = s[i]
    <3>1. k - 1 + 1 = k /\ 1 + i - 1 = i
      BY <1>1
    <3>2. QED
      BY <2>2, <3>1
  <2>5. QED
    BY <2>2, <2>3, <2>4, LenProperties
<1>3. NewlinesIn(SubSeq(s, 1, n)) = { i \in 1 .. n : s[i] = Newline }
  BY <1>1, <1>2 DEF NewlinesIn
<1>4. NewlinesIn(SubSeq(s, 1, m)) = { i \in 1 .. m : s[i] = Newline }
  BY <1>1, <1>2 DEF NewlinesIn
<1>5. IsFiniteSet({ i \in 1 .. n : s[i] = Newline })
  <2>1. IsFiniteSet(1 .. n)
    BY <1>1, FS_Interval
  <2>2. QED
    BY <2>1, FS_Subset
<1>6. { i \in 1 .. m : s[i] = Newline } =
        { i \in 1 .. n : s[i] = Newline } \cup (IF n < m /\ s[m] = Newline THEN {m} ELSE {})
  <2>1. \A i \in 1 .. m : i \in 1 .. n \/ i \in n + 1 .. m - 1 \/ (i = m /\ n < m)
    BY <1>1
  <2>2. \A i \in 1 .. n : i \in 1 .. m
    BY <1>1
  <2>3. n < m => m \in 1 .. m
    BY <1>1
  <2>4. QED
    BY <2>1, <2>2, <2>3
<1>7. m > n => m \notin { i \in 1 .. n : s[i] = Newline }
  BY <1>1
<1>8. IsFiniteSet(NewlinesIn(SubSeq(s, 1, n)))
  BY <1>3, <1>5
<1>9. NewlinesIn(SubSeq(s, 1, m)) =
        NewlinesIn(SubSeq(s, 1, n)) \cup (IF n < m /\ s[m] = Newline THEN {m} ELSE {})
  BY <1>3, <1>4, <1>6, Zenon
<1>10. QED
  BY <1>3, <1>7, <1>8, <1>9

\* The last line is cut where there is no newline left.
LEMMA RestKeeps ==
  ASSUME IInv, Rest, [Next]_vars
  PROVE  Rest'
<1>1. CASE Cut
  BY <1>1 DEF Cut, Rest
<1>2. CASE CutRest
  <2>1. Bounded /\ last_pos \in 0 .. Len(code) /\ Len(code) \in Nat
    BY LenProperties DEF IInv, Bounded
  <2>2. Len(code) \in 0 .. Len(code)
    BY <2>1
  <2>3. /\ Len(m_code') = Len(m_code) + 1
        /\ m_code'[Len(m_code) + 1] = Line(last_pos, Len(code))
    BY <1>2, <2>1, <2>2, LineAdded DEF CutRest
  <2>4. QED
    BY <1>2, <2>3 DEF CutRest, Rest, Line
<1>3. CASE GetLine
  BY <1>3 DEF GetLine, Rest
<1>4. CASE UNCHANGED vars
  BY <1>4 DEF vars, Rest
<1>5. QED
  BY <1>1, <1>2, <1>3, <1>4 DEF Next

\* A line adds one newline, but the last line adds none.
LEMMA GetLineCounts ==
  ASSUME IInv, Rest, LineNumberCounts, GetLine
  PROVE  LineNumberCounts'
<1> DEFINE n == Len(m_code)
           k == m_line_pos + 1
           f == End(m_code, m_line_pos)
           t == End(m_code, k)
<1>1. /\ Bounded /\ Tiled /\ phase = "reading" /\ n > 0 /\ n \in Nat
      /\ m_line_pos \in 0 .. n /\ text = SubSeq(code, 1, f)
      /\ Len(code) \in Nat /\ code \in Seq(Char) /\ phase' = "reading"
  BY LenProperties DEF IInv, Returned, GetLine, Bounded, Reading
<1>2. CASE eof
  <2>1. m_line_pos' = m_line_pos /\ text' = text \o << >> /\ m_code' = m_code
    BY <1>2 DEF GetLine, Advanced
  <2>2. text \in Seq(Char)
    <3>1. f \in 0 .. Len(code)
      BY <1>1, EndType
    <3>2. QED
      BY <1>1, <3>1, Prefix
  <2>3. text' = text
    BY <2>1, <2>2, ConcatEmptySeq
  <2>4. QED
    BY <1>1, <2>1, <2>3 DEF LineNumberCounts, eof
<1>3. CASE ~ eof
  <2>1. k \in 1 .. n /\ m_line_pos' = k /\ m_code' = m_code /\ k - 1 = m_line_pos
    BY <1>1, <1>3 DEF GetLine, Advanced, eof
  <2>2. f \in 0 .. Len(code) /\ t \in 0 .. Len(code)
    BY <1>1, <2>1, EndType
  <2>3. /\ m_code[k].from = f /\ m_code[k].to = t /\ f <= t
        /\ \A j \in f + 1 .. t - 1 : code[j] # Newline
        /\ (f < t /\ code[t] = Newline) \/ (k = n /\ t = Len(code))
    BY <1>1, <2>1 DEF Tiled, End
  <2>4. IInv'
    BY GetLineKeeps
  <2>5. text' = SubSeq(code, 1, t)
    BY <2>1, <2>4 DEF IInv, Returned, GetLine
  <2> HIDE DEF f, t
  <2>6. t \in f .. Len(code)
    BY <1>1, <2>2, <2>3
  <2> DEFINE Old == NewlinesIn(text)
             New == NewlinesIn(text')
  <2>7. /\ IsFiniteSet(Old)
        /\ New = Old \cup (IF f < t /\ code[t] = Newline THEN {t} ELSE {})
        /\ t > f => t \notin Old
    BY <1>1, <2>2, <2>3, <2>5, <2>6, NewlinesAdded
  <2>8. m_line_pos = Cardinality(Old) /\ Cardinality(Old) \in Nat
    <3>1. m_line_pos = Cardinality(Old) + 0
      BY <1>3 DEF LineNumberCounts, NewlinesIn
    <3>2. Cardinality(Old) \in Nat
      BY <2>7, FS_CardinalityType
    <3>3. QED
      BY <3>1, <3>2
  <2> HIDE DEF Old, New
  <2>9. CASE k = n
    <3>1. \A j \in f + 1 .. Len(code) : code[j] # Newline
      BY <1>1, <2>3, <2>9 DEF Rest
    <3>2. New = Old
      BY <1>1, <2>2, <2>7, <3>1
    <3>3. eof'
      BY <2>1, <2>9 DEF eof
    <3>4. QED
      BY <1>1, <2>1, <2>8, <3>2, <3>3 DEF LineNumberCounts, NewlinesIn, Old, New
  <2>10. CASE k # n
    <3>1. New = Old \cup {t} /\ t \notin Old
      BY <2>2, <2>3, <2>7, <2>10
    <3>2. Cardinality(New) = Cardinality(Old) + 1
      BY <2>7, <3>1, FS_AddElement
    <3>3. ~ eof'
      BY <2>1, <2>10 DEF eof
    <3>4. m_line_pos' = Cardinality(New) + 0
      BY <1>1, <2>1, <2>8, <3>2
    <3>5. QED
      BY <3>3, <3>4 DEF LineNumberCounts, NewlinesIn, New
  <2>11. QED
    BY <2>9, <2>10
<1>4. QED
  BY <1>2, <1>3

\* While the text is cut nothing is counted.
LEMMA NextCounts ==
  ASSUME IInv, Rest, LineNumberCounts, [Next]_vars
  PROVE  LineNumberCounts'
<1>1. CASE Cut
  BY <1>1 DEF Cut, LineNumberCounts, IInv, Cutting
<1>2. CASE CutRest
  <2>1. /\ Bounded /\ m_line_pos = 0 /\ Len(m_code) \in Nat
        /\ last_pos \in 0 .. Len(code) /\ Len(code) \in Nat /\ phase = "cutting"
    BY <1>2, LenProperties DEF IInv, Cutting, Bounded, CutRest
  <2>2. Len(code) \in 0 .. Len(code)
    BY <2>1
  <2>3. Len(m_code') = Len(m_code) + 1
    BY <1>2, <2>1, <2>2, LineAdded DEF CutRest
  <2>4. ~ eof'
    BY <1>2, <2>1, <2>3 DEF eof, CutRest
  <2>5. QED
    BY <1>2, <2>1, <2>4 DEF LineNumberCounts, CutRest
<1>3. CASE GetLine
  BY <1>3, GetLineCounts
<1>4. CASE UNCHANGED vars
  BY <1>4 DEF vars, LineNumberCounts, eof
<1>5. QED
  BY <1>1, <1>2, <1>3, <1>4 DEF Next

\* get_line_number counts the newlines that have been read, and the last line.
THEOREM LineNumberCountsCorrect == Spec => []LineNumberCounts
<1>1. Init => IInv /\ Rest /\ LineNumberCounts
  <2>1. ASSUME Init PROVE Rest /\ LineNumberCounts
    <3>1. { i \in DOMAIN text : text[i] = Newline } = {}
      BY <2>1 DEF Init
    <3>2. QED
      BY <2>1, <3>1, FS_EmptySet DEF Init, Rest, LineNumberCounts
  <2>2. QED
    BY <2>1, InitHolds
<1>2. IInv /\ Rest /\ LineNumberCounts /\ [Next]_vars => (IInv /\ Rest /\ LineNumberCounts)'
  BY NextKeeps, RestKeeps, NextCounts
<1>3. QED
  BY <1>1, <1>2, PTL DEF Spec

=============================================================================
