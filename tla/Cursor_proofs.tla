--------------------------- MODULE Cursor_proofs ---------------------------
(***************************************************************************)
(* Proofs about the interpreter's cursor, of programs that are laid out    *)
(* the way module Layout says (Compiler_proofs shows that of the compiled  *)
(* ones): that it is always on what the next step reads, at the            *)
(* end of a node that ends without a jump, and behind the program after    *)
(* execute(); and that a return in the global scope is final.              *)
(*                                                                         *)
(* The inductive invariant says of each activation that the steps it has   *)
(* left lead, field by field, from the cursor (or from the start of the    *)
(* child that it waits for) to the end of its node.  After a break, a      *)
(* continue or a return that is not so, and the proof has to say why the   *)
(* cursor is still on a node: what is left is then a list's statements, of *)
(* which one is skipped too few.                                           *)
(***************************************************************************)
EXTENDS Loops_proofs, Layout

-----------------------------------------------------------------------------
(* Steps along the fields. *)

(***************************************************************************)
(* The proofs need only that the cuts exist, not how module Layout         *)
(* computes them: a row of uncounted steps, any one step, and any steps    *)
(* from the field p up to the field q.                                     *)
(***************************************************************************)
Crosses(c, n, steps, p, q) ==
  \E at : RowCuts(c, n, steps, at) /\ at[1] = p /\ at[Len(steps) + 1] = q

Reaches(c, n, step, p, q) ==
  IF step \in DOMAIN Repeats
  THEN Has(c, "u32", p) /\ Crosses(c, n, Counted(c, step, p), p + 1, q)
  ELSE Legible(c, n, step, p) /\ q = StopsAt(c, n, step, p)

Leads(c, n, steps, p, q) ==
  \E at \in [1 .. Len(steps) + 1 -> Nat] :
    /\ at[1] = p /\ at[Len(steps) + 1] = q
    /\ \A i \in 1 .. Len(steps) : Reaches(c, n, steps[i], at[i], at[i + 1])

\* A well laid out node leads its handler's steps to its end.
LEMMA AlongLeads ==
  ASSUME NEW c, NEW n, NEW S, NEW steps \in Seq(S), NEW p, NEW q, Along(c, n, steps, p, q)
  PROVE  Leads(c, n, steps, p, q)
<1>1. PICK at : Fits(c, n, steps, at) /\ at[1] = p /\ at[Len(steps) + 1] = q
  BY DEF Along
<1>2. ASSUME NEW step, NEW a, NEW b, Passes(c, n, step, a, b)
      PROVE  Reaches(c, n, step, a, b)
  <2>1. \A s, e : Row(c, n, s, a + 1, e) => Crosses(c, n, s, a + 1, e)
    BY DEF Row, Crosses
  <2> QED
    BY <1>2, <2>1 DEF Passes, Reaches
<1>3. DOMAIN steps = 1 .. Len(steps)
  BY LenProperties
<1> QED
  BY <1>1, <1>2, <1>3 DEF Fits, Leads

\* A row of uncounted steps.
LEMMA CrossesLeads ==
  ASSUME NEW c, NEW n, NEW S, S \cap DOMAIN Repeats = {}, NEW steps \in Seq(S),
         NEW p, NEW q, Crosses(c, n, steps, p, q)
  PROVE  Leads(c, n, steps, p, q)
<1>1. PICK at : RowCuts(c, n, steps, at) /\ at[1] = p /\ at[Len(steps) + 1] = q
  BY DEF Crosses
<1>2. DOMAIN steps = 1 .. Len(steps) /\ \A i \in 1 .. Len(steps) : steps[i] \notin DOMAIN Repeats
  BY LenProperties, ElementOfSeq
<1>3. \A i \in 1 .. Len(steps) : Reaches(c, n, steps[i], at[i], at[i + 1])
  BY <1>1, <1>2 DEF RowCuts, Reaches
<1>4. at \in [1 .. Len(steps) + 1 -> Nat]
  BY <1>1 DEF RowCuts
<1> QED
  BY <1>1, <1>3, <1>4 DEF Leads

\* No steps, no fields.
LEMMA LeadsNowhere ==
  ASSUME NEW c, NEW n, NEW p \in Nat, NEW q
  PROVE  Leads(c, n, << >>, p, q) <=> p = q
<1>1. Len(<< >>) = 0 /\ 1 .. 0 = {} /\ 1 .. 0 + 1 = {1}
  OBVIOUS
<1>2. p = q => Leads(c, n, << >>, p, q)
  <2> DEFINE at == [i \in 1 .. 1 |-> p]
  <2>1. at \in [1 .. 0 + 1 -> Nat] /\ at[1] = p /\ at[0 + 1] = p
    OBVIOUS
  <2> HIDE DEF at
  <2> QED
    BY <1>1, <2>1 DEF Leads
<1>3. Leads(c, n, << >>, p, q) => p = q
  BY <1>1 DEF Leads
<1> QED
  BY <1>2, <1>3

\* The first step, and the others.
LEMMA LeadsOn ==
  ASSUME NEW c, NEW n, NEW S, NEW steps \in Seq(S), steps # << >>, NEW p, NEW q,
         Leads(c, n, steps, p, q)
  PROVE  /\ p \in Nat /\ q \in Nat
         /\ \E m \in Nat : Reaches(c, n, Head(steps), p, m) /\ Leads(c, n, Tail(steps), m, q)
<1>1. PICK at \in [1 .. Len(steps) + 1 -> Nat] :
        /\ at[1] = p /\ at[Len(steps) + 1] = q
        /\ \A i \in 1 .. Len(steps) : Reaches(c, n, steps[i], at[i], at[i + 1])
  BY DEF Leads
<1>2. /\ Len(steps) \in Nat \ {0} /\ Len(Tail(steps)) = Len(steps) - 1
      /\ \A i \in 1 .. Len(steps) - 1 : Tail(steps)[i] = steps[i + 1]
      /\ Head(steps) = steps[1]
  BY HeadTailProperties, EmptySeq
<1> DEFINE l == Len(steps)
           cut == [i \in 1 .. (l - 1) + 1 |-> at[i + 1]]
<1>3. /\ cut \in [1 .. (l - 1) + 1 -> Nat] /\ cut[1] = at[2] /\ cut[(l - 1) + 1] = q
      /\ at[2] \in Nat
      /\ \A i \in 1 .. l - 1 : cut[i] = at[i + 1] /\ cut[i + 1] = at[i + 2]
  BY <1>1, <1>2, SMTT(40)
<1>4. \A i \in 1 .. l - 1 : Reaches(c, n, Tail(steps)[i], cut[i], cut[i + 1])
  <2> TAKE i \in 1 .. l - 1
  <2>1. i + 1 \in 1 .. l /\ (i + 1) + 1 = i + 2
    BY <1>2
  <2> HIDE DEF cut, l
  <2>2. Reaches(c, n, steps[i + 1], at[i + 1], at[i + 2])
    BY <1>1, <2>1 DEF l
  <2> QED
    BY <1>2, <1>3, <2>2 DEF l
<1> HIDE DEF cut
<1>5. Leads(c, n, Tail(steps), at[2], q)
  BY <1>2, <1>3, <1>4 DEF Leads
<1>6. Reaches(c, n, Head(steps), p, at[2])
  <2>1. 1 \in 1 .. Len(steps) /\ 1 + 1 = 2
    BY <1>2
  <2> QED
    BY <1>1, <1>2, <2>1
<1>7. p \in Nat /\ q \in Nat
  BY <1>1, <1>2
<1> QED
  BY <1>3, <1>5, <1>6, <1>7

\* Two sequences of steps, one after the other.
LEMMA LeadsJoin ==
  ASSUME NEW c, NEW n, NEW S, NEW s \in Seq(S), NEW t \in Seq(S), NEW p, NEW m, NEW q,
         Leads(c, n, s, p, m), Leads(c, n, t, m, q)
  PROVE  Leads(c, n, s \o t, p, q)
<1>1. PICK at \in [1 .. Len(s) + 1 -> Nat] :
        /\ at[1] = p /\ at[Len(s) + 1] = m
        /\ \A i \in 1 .. Len(s) : Reaches(c, n, s[i], at[i], at[i + 1])
  BY DEF Leads
<1>2. PICK to \in [1 .. Len(t) + 1 -> Nat] :
        /\ to[1] = m /\ to[Len(t) + 1] = q
        /\ \A i \in 1 .. Len(t) : Reaches(c, n, t[i], to[i], to[i + 1])
  BY DEF Leads
<1>3. /\ Len(s) \in Nat /\ Len(t) \in Nat /\ Len(s \o t) = Len(s) + Len(t)
      /\ \A i \in 1 .. Len(s) + Len(t) :
           (s \o t)[i] = IF i <= Len(s) THEN s[i] ELSE t[i - Len(s)]
  BY ConcatProperties, LenProperties
<1> DEFINE k == Len(s)
           l == Len(t)
           cut == [i \in 1 .. (k + l) + 1 |-> IF i <= k THEN at[i] ELSE to[i - k]]
<1> HIDE DEF k, l
<1>4. k \in Nat /\ l \in Nat
  BY <1>3 DEF k, l
<1>5. /\ at \in [1 .. k + 1 -> Nat] /\ to \in [1 .. l + 1 -> Nat]
      /\ at[1] = p /\ at[k + 1] = m /\ to[1] = m /\ to[l + 1] = q
  BY <1>1, <1>2 DEF k, l
<1>6. /\ cut \in [1 .. (k + l) + 1 -> Nat]
      /\ \A i \in 1 .. (k + l) + 1 : cut[i] = IF i <= k THEN at[i] ELSE to[i - k]
  BY <1>4, <1>5
<1> HIDE DEF cut
<1>7. cut[1] = p
  <2>1. 1 \in 1 .. (k + l) + 1
    BY <1>4
  <2>2. CASE k = 0
    <3>1. cut[1] = to[1] /\ at[1] = at[k + 1]
      BY <1>4, <1>6, <2>1, <2>2
    <3> QED
      BY <1>5, <3>1
  <2>3. CASE k # 0
    <3>1. 1 <= k
      BY <1>4, <2>3
    <3> QED
      BY <1>5, <1>6, <2>1, <3>1
  <2> QED
    BY <2>2, <2>3
<1>8. cut[(k + l) + 1] = q
  <2>1. /\ (k + l) + 1 \in 1 .. (k + l) + 1
        /\ ~ ((k + l) + 1 <= k) /\ ((k + l) + 1) - k = l + 1
    BY <1>4
  <2> QED
    BY <1>5, <1>6, <2>1
<1>9. ASSUME NEW i \in 1 .. k + l
      PROVE  Reaches(c, n, (s \o t)[i], cut[i], cut[i + 1])
  <2>1. i \in 1 .. (k + l) + 1 /\ i + 1 \in 1 .. (k + l) + 1
    BY <1>4
  <2>2. CASE i <= k
    <3>1. i \in 1 .. k /\ cut[i] = at[i] /\ (s \o t)[i] = s[i]
      BY <1>3, <1>4, <1>6, <2>1, <2>2 DEF k, l
    <3>2. cut[i + 1] = at[i + 1]
      <4>1. CASE i < k
        BY <1>4, <1>6, <2>1, <4>1
      <4>2. CASE i = k
        <5>1. (k + 1) - k = 1 /\ ~ (k + 1 <= k)
          BY <1>4
        <5> QED
          BY <1>5, <1>6, <2>1, <4>2, <5>1
      <4> QED
        BY <1>4, <2>2, <4>1, <4>2
    <3> QED
      BY <1>1, <3>1, <3>2 DEF k
  <2>3. CASE ~ (i <= k)
    <3>1. i - k \in 1 .. l /\ cut[i] = to[i - k] /\ (s \o t)[i] = t[i - k]
      BY <1>3, <1>4, <1>6, <2>1, <2>3 DEF k, l
    <3>2. cut[i + 1] = to[(i - k) + 1]
      <4>1. ~ (i + 1 <= k) /\ (i + 1) - k = (i - k) + 1
        BY <1>4, <2>3
      <4> QED
        BY <1>6, <2>1, <4>1
    <3> QED
      BY <1>2, <3>1, <3>2 DEF l
  <2> QED
    BY <2>2, <2>3
<1>10. Len(s \o t) = k + l
  BY <1>3 DEF k, l
<1> QED
  BY <1>6, <1>7, <1>8, <1>9, <1>10 DEF Leads

\* One step.
LEMMA LeadsOnce ==
  ASSUME NEW c, NEW n, NEW step, NEW p \in Nat, NEW q \in Nat, Reaches(c, n, step, p, q)
  PROVE  Leads(c, n, <<step>>, p, q)
<1> DEFINE at == [i \in 1 .. 1 + 1 |-> IF i = 1 THEN p ELSE q]
<1>1. at \in [1 .. 1 + 1 -> Nat] /\ at[1] = p /\ at[1 + 1] = q
  OBVIOUS
<1> HIDE DEF at
<1>2. Len(<<step>>) = 1 /\ <<step>>[1] = step /\ \A i \in 1 .. 1 : i = 1
  OBVIOUS
<1> QED
  BY <1>1, <1>2 DEF Leads

\* The only step.
LEMMA LeadsOnly ==
  ASSUME NEW c, NEW n, NEW step, NEW p, NEW q, Leads(c, n, <<step>>, p, q)
  PROVE  Reaches(c, n, step, p, q) /\ p \in Nat /\ q \in Nat
<1>1. Len(<<step>>) = 1 /\ <<step>>[1] = step /\ 1 \in 1 .. 1 /\ 1 + 1 = 2 /\ 2 \in 1 .. 1 + 1
  OBVIOUS
<1> QED
  BY <1>1 DEF Leads

\* Two steps.
LEMMA LeadsTwice ==
  ASSUME NEW c, NEW n, NEW a, NEW b, NEW p \in Nat, NEW m \in Nat, NEW q \in Nat,
         Reaches(c, n, a, p, m), Reaches(c, n, b, m, q)
  PROVE  Leads(c, n, <<a, b>>, p, q)
<1> DEFINE at == [i \in 1 .. 2 + 1 |-> IF i = 1 THEN p ELSE IF i = 2 THEN m ELSE q]
<1>1. at \in [1 .. 2 + 1 -> Nat] /\ at[1] = p /\ at[2] = m /\ at[2 + 1] = q
  OBVIOUS
<1> HIDE DEF at
<1>2. Len(<<a, b>>) = 2 /\ <<a, b>>[1] = a /\ <<a, b>>[2] = b
  OBVIOUS
<1>3. ASSUME NEW i \in 1 .. 2
      PROVE  Reaches(c, n, <<a, b>>[i], at[i], at[i + 1])
  <2>1. CASE i = 1
    <3>1. i + 1 = 2
      BY <2>1
    <3> QED
      BY <1>1, <1>2, <2>1, <3>1
  <2>2. CASE i = 2
    BY <1>1, <1>2, <2>2
  <2> QED
    BY <2>1, <2>2
<1> QED
  BY <1>1, <1>2, <1>3 DEF Leads

-----------------------------------------------------------------------------
(* Where steps stop. *)

\* Nodes end at fields.
LEMMA NodeEndType ==
  ASSUME NEW c, IsCode(c), NEW p \in Nat
  PROVE  NodeEnd(c, p) \in Nat
BY DEF NodeEnd, IsCode, IsField

\* Steps stop at fields.
LEMMA StopsAtType ==
  ASSUME NEW c, IsCode(c), NEW n, NEW step, NEW p \in Nat
  PROVE  StopsAt(c, n, step, p) \in Nat
<1>1. NodeEnd(c, p) \in Nat
  BY NodeEndType
<1>2. NodeEnd(c, NodeEnd(c, p)) \in Nat
  BY <1>1, NodeEndType
<1> QED
  BY <1>1, <1>2 DEF StopsAt

\* One case for each kind of step.
LEMMA Stops ==
  ASSUME NEW c, NEW n, NEW step, NEW p
  PROVE  /\ step \in NodeSteps => StopsAt(c, n, step, p) = NodeEnd(c, p)
         /\ step \in FieldSteps => StopsAt(c, n, step, p) = p + 1
         /\ step = "alias" => StopsAt(c, n, step, p) = p + 2
         /\ step = "choose" => StopsAt(c, n, step, p) = IF c[n].val = "If" THEN NodeEnd(c, p)
                                                       ELSE NodeEnd(c, NodeEnd(c, p))
         /\ step \notin NodeSteps \cup FieldSteps \cup {"alias", "choose"}
              => StopsAt(c, n, step, p) = p
<1>1. /\ NodeSteps \cap FieldSteps = {}
      /\ "alias" \notin NodeSteps \cup FieldSteps /\ "choose" \notin NodeSteps \cup FieldSteps
      /\ "alias" # "choose"
  BY DEF NodeSteps, FieldSteps, Dropped
<1> QED
  BY <1>1 DEF StopsAt

\* The steps that are part of a counted one are not counted themselves.
Uncounted == Steps \ DOMAIN Repeats

\* The steps that read a count.
LEMMA CountsNames ==
  DOMAIN Repeats =
    { "stmts", "targets", "args", "elements", "entries", "comparisons",
      "conditions", "skips", "skippedEntries", "skippedComparisons" }
BY DEF Repeats

\* What they repeat reads none.
LEMMA RepeatsUncounted ==
  ASSUME NEW step \in DOMAIN Repeats
  PROVE  Repeats[step] \in Seq(Uncounted)
<1>1. { "stmt", "target", "expr", "append", "name", "insert", "op",
        "compare", "decide", "skip", "dropOp" } \subseteq Uncounted
  BY CountsNames DEF Uncounted, Steps, ChildSteps, Dropped
<1>2. \A a, b, d \in Uncounted :
        <<a>> \in Seq(Uncounted) /\ <<a, b>> \in Seq(Uncounted) /\ <<a, b, d>> \in Seq(Uncounted)
  OBVIOUS
<1>3. /\ Repeats["stmts"] \in Seq(Uncounted) /\ Repeats["targets"] \in Seq(Uncounted)
      /\ Repeats["args"] \in Seq(Uncounted) /\ Repeats["elements"] \in Seq(Uncounted)
      /\ Repeats["entries"] \in Seq(Uncounted)
  BY <1>1, <1>2 DEF Repeats
<1>4. /\ Repeats["comparisons"] \in Seq(Uncounted) /\ Repeats["conditions"] \in Seq(Uncounted)
      /\ Repeats["skips"] \in Seq(Uncounted) /\ Repeats["skippedEntries"] \in Seq(Uncounted)
      /\ Repeats["skippedComparisons"] \in Seq(Uncounted)
  BY <1>1, <1>2 DEF Repeats, SkipComparison
<1> QED
  BY <1>3, <1>4, CountsNames

\* What a counted step unfolds to.
LEMMA CountedType ==
  ASSUME NEW c, IsCode(c), NEW step \in DOMAIN Repeats, NEW p, Has(c, "u32", p)
  PROVE  /\ Counted(c, step, p) \in Seq(Uncounted)
         /\ \A S : Repeats[step] \in Seq(S) => Counted(c, step, p) \in Seq(S)
<1>1. c[p].val \in Int
  BY DEF Has, IsCode, IsField
<1> QED
  BY <1>1, RepeatsUncounted, TimesType DEF Counted

\* A counted step and the row that it unfolds to.
LEMMA CountLeads ==
  ASSUME NEW c, IsCode(c), NEW n, NEW step \in DOMAIN Repeats, NEW p, NEW q,
         Reaches(c, n, step, p, q)
  PROVE  Has(c, "u32", p) /\ Leads(c, n, Counted(c, step, p), p + 1, q)
<1>1. Has(c, "u32", p) /\ Crosses(c, n, Counted(c, step, p), p + 1, q)
  BY DEF Reaches
<1>2. Counted(c, step, p) \in Seq(Uncounted) /\ Uncounted \cap DOMAIN Repeats = {}
  BY <1>1, CountedType DEF Uncounted
<1> QED
  BY <1>1, <1>2, CrossesLeads

\* The others.
LEMMA StepReaches ==
  ASSUME NEW c, NEW n, NEW step, step \notin DOMAIN Repeats, NEW p, NEW q
  PROVE  Reaches(c, n, step, p, q) <=> Legible(c, n, step, p) /\ q = StopsAt(c, n, step, p)
BY DEF Reaches

-----------------------------------------------------------------------------
(* Skipping is the same in whatever node it happens. *)

\* One step of skip_next.
LEMMA SkipReaches ==
  ASSUME NEW c, IsCode(c), NEW n, NEW m, NEW step \in SkipSteps, NEW p, NEW q,
         Reaches(c, n, step, p, q)
  PROVE  Reaches(c, m, step, p, q)
<1>1. SkipSteps = { "skip", "skips", "skippedEntries", "skippedComparisons", "dropNames",
                    "dropString", "dropInteger", "dropOp" }
  BY DEF SkipSteps, Dropped
<1>2. ASSUME NEW s \in { "skip", "dropNames", "dropString", "dropInteger", "dropOp" }, NEW a
      PROVE  /\ Legible(c, n, s, a) <=> Legible(c, m, s, a)
             /\ StopsAt(c, n, s, a) = StopsAt(c, m, s, a)
  <2>1. s \notin {"alias", "expr", "test", "stmt", "branch", "choose", "while", "next", "body", "again"}
    OBVIOUS
  <2> QED
    BY <2>1 DEF Legible, StopsAt
<1>3. CASE step \in { "skip", "dropNames", "dropString", "dropInteger", "dropOp" }
  <2>1. step \notin DOMAIN Repeats
    BY <1>3, CountsNames
  <2> QED
    BY <1>2, <1>3, <2>1, StepReaches
<1>4. CASE step \in { "skips", "skippedEntries", "skippedComparisons" }
  <2> DEFINE steps == Counted(c, step, p)
  <2>1. step \in DOMAIN Repeats
    BY <1>4, CountsNames
  <2>2. Has(c, "u32", p) /\ Crosses(c, n, steps, p + 1, q)
    BY <2>1 DEF Reaches
  <2>3. Repeats[step] \in Seq({ "skip", "dropOp" })
    <3>1. \A a, b \in { "skip", "dropOp" } :
            <<a>> \in Seq({ "skip", "dropOp" }) /\ <<a, b>> \in Seq({ "skip", "dropOp" })
      OBVIOUS
    <3>2. "skip" \in { "skip", "dropOp" } /\ "dropOp" \in { "skip", "dropOp" }
      OBVIOUS
    <3> QED
      BY <1>4, <3>1, <3>2, SMTT(40) DEF Repeats, SkipComparison
  <2>4. steps \in Seq({ "skip", "dropOp" })
    BY <2>1, <2>2, <2>3, CountedType
  <2> HIDE DEF steps
  <2>5. \A i \in DOMAIN steps : steps[i] \in { "skip", "dropNames", "dropString", "dropInteger", "dropOp" }
    <3>1. \A i \in 1 .. Len(steps) : steps[i] \in { "skip", "dropOp" }
      BY <2>4, ElementOfSeq
    <3> QED
      BY <2>4, <3>1, LenProperties
  <2>6. \A at : RowCuts(c, n, steps, at) => RowCuts(c, m, steps, at)
    BY <1>2, <2>5 DEF RowCuts
  <2>7. Crosses(c, m, steps, p + 1, q)
    BY <2>2, <2>6 DEF Crosses
  <2> QED
    BY <2>1, <2>2, <2>7 DEF Reaches, steps
<1> QED
  BY <1>1, <1>3, <1>4

\* Several of them.
LEMMA SkipLeads ==
  ASSUME NEW c, IsCode(c), NEW n, NEW m, NEW steps \in Seq(SkipSteps), NEW p, NEW q,
         Leads(c, n, steps, p, q)
  PROVE  Leads(c, m, steps, p, q)
<1>1. \A i \in 1 .. Len(steps) : steps[i] \in SkipSteps
  BY ElementOfSeq
<1> QED
  BY <1>1, SkipReaches DEF Leads

\* skip_next's cases consist of such steps.
LEMMA SkipperSteps ==
  ASSUME NEW type \in DOMAIN Skipper
  PROVE  Skipper[type] \in Seq(SkipSteps)
<1>1. { "dropString", "dropNames", "skip", "skips", "skippedComparisons",
        "dropInteger", "skippedEntries", "dropOp" } \subseteq SkipSteps
  BY DEF SkipSteps, Dropped
<1>2. \A a, b, d \in SkipSteps :
        /\ << >> \in Seq(SkipSteps) /\ <<a>> \in Seq(SkipSteps)
        /\ <<a, b>> \in Seq(SkipSteps) /\ <<a, b, d>> \in Seq(SkipSteps)
  OBVIOUS
<1>3. DOMAIN Skipper =
        { "Name", "ForLoop", "Assign", "StatementList", "Index", "Return",
          "String", "Compare", "Integer", "Call", "IfElse", "List",
          "Tuple", "Dictionary", "UnaryOp", "BoolOp", "AugmentedAssign",
          "BinaryOp", "If", "Attribute", "Subscript", "Break", "Continue" }
  BY DEF Skipper
<1>4. /\ Skipper["Name"] \in Seq(SkipSteps) /\ Skipper["ForLoop"] \in Seq(SkipSteps)
      /\ Skipper["Assign"] \in Seq(SkipSteps) /\ Skipper["StatementList"] \in Seq(SkipSteps)
      /\ Skipper["Index"] \in Seq(SkipSteps) /\ Skipper["Return"] \in Seq(SkipSteps)
      /\ Skipper["String"] \in Seq(SkipSteps) /\ Skipper["Compare"] \in Seq(SkipSteps)
  BY <1>1, <1>2 DEF Skipper
<1>5. /\ Skipper["Integer"] \in Seq(SkipSteps)
      /\ Skipper["Call"] \in Seq(SkipSteps) /\ Skipper["IfElse"] \in Seq(SkipSteps)
      /\ Skipper["List"] \in Seq(SkipSteps) /\ Skipper["Tuple"] \in Seq(SkipSteps)
      /\ Skipper["Dictionary"] \in Seq(SkipSteps) /\ Skipper["UnaryOp"] \in Seq(SkipSteps)
      /\ Skipper["BoolOp"] \in Seq(SkipSteps)
  BY <1>1, <1>2 DEF Skipper
<1>6. /\ Skipper["AugmentedAssign"] \in Seq(SkipSteps) /\ Skipper["BinaryOp"] \in Seq(SkipSteps)
      /\ Skipper["If"] \in Seq(SkipSteps) /\ Skipper["Attribute"] \in Seq(SkipSteps)
      /\ Skipper["Subscript"] \in Seq(SkipSteps) /\ Skipper["Break"] \in Seq(SkipSteps)
      /\ Skipper["Continue"] \in Seq(SkipSteps)
  BY <1>1, <1>2 DEF Skipper
<1> QED
  BY <1>3, <1>4, <1>5, <1>6

-----------------------------------------------------------------------------
(* What a well-formed program says of its nodes. *)

\* A node's handler ends where the node ends, ...
LEMMA HandlerLeads ==
  ASSUME NEW c, WellFormed(c), NEW p, Has(c, "node", p), c[p].val \in DOMAIN Handler
  PROVE  Leads(c, p, Handler[c[p].val], p + 1, NodeEnd(c, p))
<1>1. Along(c, p, Handler[c[p].val], p + 1, NodeEnd(c, p))
  BY DEF WellFormed, LaidOut, Has
<1>2. Handler[c[p].val] \in Seq(Steps)
  BY HandlerType
<1> QED
  BY <1>1, <1>2, AlongLeads

\* ... and so does skip_next.
LEMMA SkipperLeads ==
  ASSUME NEW c, IsCode(c), WellFormed(c), NEW p, Has(c, "node", p),
         c[p].val \in DOMAIN Skipper, NEW n
  PROVE  Leads(c, n, Skipper[c[p].val], p + 1, NodeEnd(c, p))
<1>1. Along(c, p, Skipper[c[p].val], p + 1, NodeEnd(c, p))
  BY DEF WellFormed, LaidOut, Has
<1>2. Skipper[c[p].val] \in Seq(SkipSteps)
  BY SkipperSteps
<1>3. Leads(c, p, Skipper[c[p].val], p + 1, NodeEnd(c, p))
  BY <1>1, <1>2, AlongLeads
<1> QED
  BY <1>2, <1>3, SkipLeads

\* A name is a node of two fields, a pair of names one of six.
LEMMA NameEnds ==
  ASSUME NEW c, IsCode(c), WellFormed(c), NEW p \in Nat, Has(c, "node", p),
         c[p].val \in {"Name", "String"}
  PROVE  NodeEnd(c, p) = p + 2
<1>1. c[p].val \in DOMAIN Skipper /\ Skipper[c[p].val] = <<"dropString">>
  BY DEF Skipper
<1>2. Leads(c, p, <<"dropString">>, p + 1, NodeEnd(c, p))
  BY <1>1, SkipperLeads
<1>3. Reaches(c, p, "dropString", p + 1, NodeEnd(c, p))
  BY <1>2, LeadsOnly
<1>4. NodeEnd(c, p) = p + 1 + 1
  <2>1. "dropString" \notin DOMAIN Repeats
    BY CountsNames
  <2>2. "dropString" \in FieldSteps
    BY DEF FieldSteps, Dropped
  <2> QED
    <3>1. NodeEnd(c, p) = StopsAt(c, p, "dropString", p + 1)
      BY <1>3, <2>1, StepReaches
    <3>2. \A step \in FieldSteps : StopsAt(c, p, step, p + 1) = (p + 1) + 1
      <4> DEFINE r == p + 1
      <4> HIDE DEF r
      <4>1. \A step \in FieldSteps : StopsAt(c, p, step, r) = r + 1
        BY Stops
      <4> QED
        BY <4>1 DEF r
    <3> QED
      BY <2>2, <3>1, <3>2
<1> QED
  BY <1>4

\* A pair of names is a node of six fields.
LEMMA PairEnds ==
  ASSUME NEW c, IsCode(c), WellFormed(c), NEW p \in Nat, NodeAt(c, "Tuple", p),
         Has(c, "u32", p + 1), c[p + 1].val = 2,
         \A q \in {p + 2, p + 4} : Has(c, "node", q) /\ c[q].val \in {"Name", "String"}
  PROVE  NodeEnd(c, p) = p + 6
<1>1. c[p].val \in DOMAIN Skipper /\ Skipper[c[p].val] = <<"skips">> /\ Has(c, "node", p)
  BY DEF Skipper, NodeAt
<1>2. Leads(c, p, <<"skips">>, p + 1, NodeEnd(c, p))
  BY <1>1, SkipperLeads
<1> DEFINE m == NodeEnd(c, p)
<1>4. Reaches(c, p, "skips", p + 1, m)
  BY <1>2, LeadsOnly
<1> HIDE DEF m
<1>6. Crosses(c, p, Counted(c, "skips", p + 1), p + 1 + 1, m)
  BY <1>4, CountsNames DEF Reaches
<1>7. Counted(c, "skips", p + 1) = Times(2, <<"skip">>)
  BY DEF Counted, Repeats
<1>8. Len(Times(2, <<"skip">>)) = 2 /\ \A i \in 1 .. 2 : i \in DOMAIN Times(2, <<"skip">>)
                                                         /\ Times(2, <<"skip">>)[i] = "skip"
  BY DEF Times
<1>9. PICK at : /\ RowCuts(c, p, Times(2, <<"skip">>), at)
                /\ at[1] = p + 1 + 1 /\ at[2 + 1] = m
  BY <1>6, <1>7, <1>8 DEF Crosses
<1>10. at[2] = NodeEnd(c, at[1]) /\ at[2 + 1] = NodeEnd(c, at[2])
  <2>1. \A q : StopsAt(c, p, "skip", q) = NodeEnd(c, q)
    BY Stops DEF NodeSteps
  <2>2. \A i \in 1 .. 2 : at[i + 1] = StopsAt(c, p, "skip", at[i])
    BY <1>8, <1>9 DEF RowCuts
  <2>3. 1 \in 1 .. 2 /\ 2 \in 1 .. 2 /\ 1 + 1 = 2
    OBVIOUS
  <2> QED
    BY <2>1, <2>2, <2>3
<1>11. NodeEnd(c, p + 2) = p + 4
  <2>1. p + 2 \in Nat /\ (p + 2) + 2 = p + 4
    OBVIOUS
  <2> QED
    BY <2>1, NameEnds
<1>12. NodeEnd(c, p + 4) = p + 6
  <2>1. p + 4 \in Nat /\ (p + 4) + 2 = p + 6
    OBVIOUS
  <2> QED
    BY <2>1, NameEnds
<1>13. p + 1 + 1 = p + 2
  OBVIOUS
<1> QED
  BY <1>9, <1>10, <1>11, <1>12, <1>13 DEF m

-----------------------------------------------------------------------------
(* The order of the steps that are left. *)

(***************************************************************************)
(* Steps on which the order of the others depends come at the end: the     *)
(* rest of a statement list, of a loop, of a conditional or of a chain of  *)
(* conditions, of which Decisions(k) still has k operands to look at.      *)
(***************************************************************************)
Keyed ==
  { "stmts", "stmt", "branch", "choose", "while", "next", "body", "again",
    "break", "continue", "terminate", "conditions", "decide" }

Simple == Steps \ Keyed

Decisions(k) ==
  [i \in 1 .. 2 * k |-> IF i = 2 * k THEN "undecided"
                        ELSE IF i % 2 = 1 THEN "decide" ELSE "expr"]

Alone ==
  { "stmts", "branch", "choose", "while", "next", "again", "break", "continue", "terminate" }

Closing ==
  Seq({"stmt"}) \cup { <<step>> : step \in Alone } \cup
  { <<"branch", "skip">>, <<"body", "again">>, <<"conditions", "undecided">> } \cup
  { Decisions(k) : k \in Nat \ {0} }

Formed(t) == \E a \in Seq(Simple), z \in Closing : t = a \o z

\* Conditions that are left, and those after the first of them.
LEMMA DecisionsType ==
  ASSUME NEW k \in Nat \ {0}
  PROVE  /\ Decisions(k) \in Seq({"decide", "expr", "undecided"})
         /\ Len(Decisions(k)) = 2 * k /\ Decisions(k) # << >>
         /\ Head(Decisions(k)) = "decide"
<1>1. 2 * k \in Nat /\ 1 \in 1 .. 2 * k /\ 1 # 2 * k /\ 1 % 2 = 1
  OBVIOUS
<1>2. Decisions(k) \in [1 .. 2 * k -> {"decide", "expr", "undecided"}]
  BY DEF Decisions
<1>3. Decisions(k) \in Seq({"decide", "expr", "undecided"}) /\ Len(Decisions(k)) = 2 * k
  BY <1>1, <1>2
<1>4. Decisions(k)[1] = "decide"
  BY <1>1 DEF Decisions
<1>5. Decisions(k) # << >>
  BY <1>1, <1>3
<1> QED
  BY <1>3, <1>4, <1>5

\* Their steps, all of them.
LEMMA ClosingType ==
  ASSUME NEW z \in Closing
  PROVE  z \in Seq(Steps)
<1>1. {"stmt"} \subseteq Steps /\ Alone \subseteq Steps
      /\ {"skip", "body", "conditions", "undecided", "decide", "expr"} \subseteq Steps
  BY CountsNames DEF Steps, ChildSteps, Alone
<1>2. \A s \in Seq({"stmt"}) : s \in Seq(Steps)
  BY <1>1, SeqMonotonic
<1>3. \A k \in Nat \ {0} : Decisions(k) \in Seq(Steps)
  BY <1>1, DecisionsType, SeqMonotonic
<1>4. \A a, b \in Steps : <<a>> \in Seq(Steps) /\ <<a, b>> \in Seq(Steps)
  OBVIOUS
<1>5. \A a \in Alone : <<a>> \in Seq(Steps)
  BY <1>1, <1>4
<1>6. <<"branch", "skip">> \in Seq(Steps)
  BY <1>1, <1>4 DEF Alone
<1>7. <<"body", "again">> \in Seq(Steps)
  BY <1>1, <1>4 DEF Alone
<1>8. <<"conditions", "undecided">> \in Seq(Steps)
  BY <1>1, <1>4
<1> QED
  BY <1>2, <1>3, <1>5, <1>6, <1>7, <1>8 DEF Closing

\* A formed sequence is a sequence of steps.
LEMMA FormedType ==
  ASSUME NEW t, Formed(t)
  PROVE  t \in Seq(Steps)
<1>1. PICK a \in Seq(Simple), z \in Closing : t = a \o z
  BY DEF Formed
<1>2. a \in Seq(Steps) /\ z \in Seq(Steps)
  BY <1>1, ClosingType, SeqMonotonic DEF Simple
<1> QED
  BY <1>1, <1>2, ConcatProperties

\* Simple steps alone, or the end alone.
LEMMA FormedParts ==
  /\ \A a \in Seq(Simple) : Formed(a)
  /\ \A z \in Closing : Formed(z)
<1>1. << >> \in Closing /\ << >> \in Seq(Simple)
  BY EmptySeq DEF Closing
<1>2. \A a \in Seq(Simple) : a \o << >> = a
  BY ConcatEmptySeq
<1>3. \A z \in Closing : << >> \o z = z
  BY ClosingType, ConcatEmptySeq
<1> QED
  BY <1>1, <1>2, <1>3 DEF Formed

\* Simple steps before others.
LEMMA FormedThen ==
  ASSUME NEW t, Formed(t), NEW s \in Seq(Simple)
  PROVE  Formed(s \o t)
<1>1. PICK a \in Seq(Simple), z \in Closing : t = a \o z
  BY DEF Formed
<1>2. s \o a \in Seq(Simple)
  BY ConcatProperties
<1>3. a \in Seq(Steps) /\ z \in Seq(Steps) /\ s \in Seq(Steps)
  BY <1>1, ClosingType, SeqMonotonic DEF Simple
<1>4. (s \o a) \o z = s \o (a \o z)
  BY <1>3, ConcatAssociative
<1> QED
  BY <1>1, <1>2, <1>4 DEF Formed

\* Where the first step is keyed, all of them are the end.
LEMMA FormedKeyed ==
  ASSUME NEW t, Formed(t), t # << >>, Head(t) \in Keyed
  PROVE  t \in Closing
<1>1. PICK a \in Seq(Simple), z \in Closing : t = a \o z
  BY DEF Formed
<1>2. CASE a = << >>
  BY <1>1, <1>2, ClosingType, ConcatEmptySeq
<1>3. CASE a # << >>
  <2>1. a \in Seq(Steps) /\ z \in Seq(Steps)
    BY <1>1, ClosingType, SeqMonotonic DEF Simple
  <2>2. Len(a) \in Nat \ {0} /\ Len(z) \in Nat
    BY <1>3, <2>1, EmptySeq, LenProperties
  <2>3. 1 \in 1 .. Len(a) + Len(z) /\ 1 <= Len(a) /\ 1 \in 1 .. Len(a)
    BY <2>2
  <2>4. t[1] = a[1]
    BY <1>1, <2>1, <2>3, ConcatProperties
  <2>5. a[1] \in Simple
    BY <2>3, ElementOfSeq
  <2>6. Head(t) = t[1]
    BY FormedType, HeadTailProperties
  <2> QED
    BY <2>4, <2>5, <2>6 DEF Simple
<1> QED
  BY <1>2, <1>3

\* The end, if there is one, begins with a keyed step.
LEMMA ClosingHead ==
  ASSUME NEW z \in Closing, z # << >>
  PROVE  Head(z) \in Keyed
<1>1. CASE z \in Seq({"stmt"})
  BY <1>1, HeadTailProperties DEF Keyed
<1>2. CASE \E step \in Alone : z = <<step>>
  <2>1. \A step \in Alone : step \in Keyed
    BY DEF Alone, Keyed
  <2> QED
    BY <1>2, <2>1
<1>3. CASE z = <<"branch", "skip">>
  BY <1>3 DEF Keyed
<1>4. CASE z = <<"body", "again">>
  BY <1>4 DEF Keyed
<1>5. CASE z = <<"conditions", "undecided">>
  BY <1>5 DEF Keyed
<1>6. CASE \E k \in Nat \ {0} : z = Decisions(k)
  BY <1>6, DecisionsType DEF Keyed
<1> QED
  BY <1>1, <1>2, <1>3, <1>4, <1>5, <1>6 DEF Closing

\* The first step goes, the others stay.
LEMMA TailConcat ==
  ASSUME NEW S, NEW a \in Seq(S), a # << >>, NEW z \in Seq(S)
  PROVE  Tail(a \o z) = Tail(a) \o z
<1> DEFINE k == Len(a)
           l == Len(z)
           t == a \o z
<1>1. /\ k \in Nat \ {0} /\ l \in Nat /\ t \in Seq(S) /\ Len(t) = k + l
      /\ \A i \in 1 .. k + l : t[i] = IF i <= k THEN a[i] ELSE z[i - k]
  BY EmptySeq, LenProperties, ConcatProperties
<1>2. t # << >>
  BY <1>1, EmptySeq
<1>3. /\ Tail(t) \in Seq(S) /\ Len(Tail(t)) = k + l - 1
      /\ \A i \in 1 .. k + l - 1 : Tail(t)[i] = t[i + 1]
  BY <1>1, <1>2, HeadTailProperties
<1>4. /\ Tail(a) \in Seq(S) /\ Len(Tail(a)) = k - 1
      /\ \A i \in 1 .. k - 1 : Tail(a)[i] = a[i + 1]
  BY HeadTailProperties
<1> DEFINE u == Tail(a) \o z
<1>5. /\ u \in Seq(S) /\ Len(u) = k - 1 + l
      /\ \A i \in 1 .. k - 1 + l : u[i] = IF i <= k - 1 THEN Tail(a)[i] ELSE z[i - (k - 1)]
  BY <1>4, ConcatProperties
<1> HIDE DEF k, l, t, u
<1>6. ASSUME NEW i \in 1 .. k + l - 1
      PROVE  Tail(t)[i] = u[i]
  <2>1. i \in 1 .. k - 1 + l /\ i + 1 \in 1 .. k + l /\ (i <= k - 1 <=> i + 1 <= k)
        /\ i - (k - 1) = (i + 1) - k
    BY <1>1
  <2>2. CASE i <= k - 1
    <3>1. i \in 1 .. k - 1
      BY <1>1, <2>2
    <3>2. t[i + 1] = a[i + 1] /\ u[i] = Tail(a)[i]
      BY <1>1, <1>5, <2>1, <2>2
    <3> QED
      BY <1>3, <1>4, <3>1, <3>2
  <2>3. CASE ~ (i <= k - 1)
    <3>1. t[i + 1] = z[(i + 1) - k] /\ u[i] = z[i - (k - 1)]
      BY <1>1, <1>5, <2>1, <2>3
    <3> QED
      BY <1>3, <2>1, <3>1
  <2> QED
    BY <2>2, <2>3
<1>7. Len(Tail(t)) = Len(u) /\ Len(Tail(t)) = k + l - 1
  BY <1>1, <1>3, <1>5
<1>8. Tail(t) = u
  BY <1>3, <1>5, <1>6, <1>7, SeqEqual
<1> QED
  BY <1>8 DEF t, u

\* The first of several conditions goes.
LEMMA DecisionsTail ==
  ASSUME NEW k \in Nat \ {0}
  PROVE  Tail(Decisions(k)) = IF k = 1 THEN <<"undecided">> ELSE <<"expr">> \o Decisions(k - 1)
<1> DEFINE W == {"decide", "expr", "undecided"}
           t == Decisions(k)
<1>1. t \in Seq(W) /\ Len(t) = 2 * k /\ t # << >>
  BY DecisionsType
<1>2. /\ Tail(t) \in Seq(W) /\ Len(Tail(t)) = 2 * k - 1
      /\ \A i \in 1 .. 2 * k - 1 : Tail(t)[i] = t[i + 1]
  BY <1>1, HeadTailProperties
<1>3. \A i \in 1 .. 2 * k : t[i] = IF i = 2 * k THEN "undecided"
                                  ELSE IF i % 2 = 1 THEN "decide" ELSE "expr"
  BY DEF Decisions
<1> HIDE DEF t
<1>4. CASE k = 1
  <2>1. Len(Tail(t)) = 1 /\ Tail(t)[1] = "undecided"
    <3>1. 1 \in 1 .. 2 * k - 1 /\ 1 + 1 \in 1 .. 2 * k /\ 1 + 1 = 2 * k /\ 2 * k - 1 = 1
      BY <1>4
    <3>2. Tail(t)[1] = t[1 + 1] /\ t[1 + 1] = "undecided"
      BY <1>2, <1>3, <3>1
    <3> QED
      BY <1>2, <3>1, <3>2
  <2>2. <<"undecided">> \in Seq(W) /\ Len(<<"undecided">>) = 1 /\ <<"undecided">>[1] = "undecided"
    OBVIOUS
  <2>3. \A i \in 1 .. 1 : i = 1
    OBVIOUS
  <2> HIDE DEF W
  <2>4. Tail(t) = <<"undecided">>
    BY <1>2, <2>1, <2>2, <2>3, SeqEqual
  <2> QED
    BY <1>4, <2>4 DEF t
<1>5. CASE k # 1
  <2> DEFINE v == Decisions(k - 1)
             u == <<"expr">> \o v
  <2>1. k - 1 \in Nat \ {0} /\ 2 * (k - 1) = 2 * k - 2 /\ 2 * k - 2 \in Nat
    BY <1>5
  <2>2. v \in Seq(W) /\ Len(v) = 2 * k - 2
    BY <2>1, DecisionsType
  <2>3. \A i \in 1 .. 2 * k - 2 : v[i] = IF i = 2 * k - 2 THEN "undecided"
                                         ELSE IF i % 2 = 1 THEN "decide" ELSE "expr"
    BY <2>1 DEF Decisions
  <2>4. <<"expr">> \in Seq(W) /\ Len(<<"expr">>) = 1 /\ <<"expr">>[1] = "expr"
    OBVIOUS
  <2> HIDE DEF v
  <2>5. /\ u \in Seq(W) /\ Len(u) = 1 + (2 * k - 2)
        /\ \A i \in 1 .. 1 + (2 * k - 2) : u[i] = IF i <= 1 THEN <<"expr">>[i] ELSE v[i - 1]
    BY <2>2, <2>4, ConcatProperties
  <2> HIDE DEF u
  <2>6. ASSUME NEW i \in 1 .. 2 * k - 1
        PROVE  Tail(t)[i] = u[i]
    <3>1. Tail(t)[i] = t[i + 1] /\ i + 1 \in 1 .. 2 * k /\ i \in 1 .. 1 + (2 * k - 2)
      BY <1>2, <2>1
    <3>2. CASE i = 1
      <4>1. i + 1 = 2 /\ 2 # 2 * k /\ 2 % 2 = 0 /\ i <= 1
        BY <1>5, <3>2
      <4>2. t[i + 1] = "expr"
        BY <1>3, <3>1, <4>1
      <4>3. u[i] = <<"expr">>[i]
        BY <2>5, <3>1, <4>1
      <4> QED
        BY <2>4, <3>1, <3>2, <4>2, <4>3
    <3>3. CASE i # 1
      <4>1. i - 1 \in 1 .. 2 * k - 2 /\ ~ (i <= 1) /\ (i - 1 = 2 * k - 2 <=> i + 1 = 2 * k)
            /\ (i - 1) % 2 = (i + 1) % 2
        BY <2>1, <3>3
      <4>2. u[i] = v[i - 1]
        BY <2>5, <3>1, <4>1
      <4> QED
        BY <1>3, <2>3, <3>1, <4>1, <4>2
    <3> QED
      BY <3>2, <3>3
  <2>7. Len(Tail(t)) = Len(u) /\ Len(u) = 2 * k - 1
    BY <1>2, <2>1, <2>5
  <2>8. Tail(t) = u
    BY <1>2, <2>5, <2>6, <2>7, SeqEqual
  <2> QED
    BY <1>5, <2>8 DEF t, u, v
<1> QED
  BY <1>4, <1>5

\* A step that is done leaves the others in order.
LEMMA FormedTail ==
  ASSUME NEW t, Formed(t), t # << >>
  PROVE  Formed(Tail(t))
<1>1. PICK a \in Seq(Simple), z \in Closing : t = a \o z
  BY DEF Formed
<1>2. a \in Seq(Steps) /\ z \in Seq(Steps)
  BY <1>1, ClosingType, SeqMonotonic DEF Simple
<1>3. CASE a # << >>
  <2>1. Tail(t) = Tail(a) \o z
    BY <1>1, <1>2, <1>3, TailConcat
  <2>2. Tail(a) \in Seq(Simple)
    BY <1>3, HeadTailProperties
  <2> QED
    BY <1>1, <2>1, <2>2 DEF Formed
<1>4. CASE a = << >>
  <2>1. t = z
    BY <1>1, <1>2, <1>4, ConcatEmptySeq
  <2>2. {"skip", "undecided", "expr"} \subseteq Simple
    BY CountsNames DEF Simple, Steps, ChildSteps, Keyed
  <2>3. \A b \in Simple : Formed(<<b>>)
    <3>1. \A b \in Simple : <<b>> \in Seq(Simple)
      OBVIOUS
    <3> QED
      BY <3>1, FormedParts
  <2>4. CASE z \in Seq({"stmt"})
    <3>1. Tail(t) \in Seq({"stmt"})
      BY <2>1, <2>4, HeadTailProperties
    <3> QED
      BY <3>1, FormedParts DEF Closing
  <2>5. CASE \E step \in Alone : z = <<step>>
    <3>1. Tail(t) = << >>
      BY <2>1, <2>5
    <3>2. << >> \in Seq(Simple)
      BY EmptySeq
    <3> QED
      BY <3>1, <3>2, FormedParts
  <2>6. CASE z = <<"branch", "skip">>
    <3>1. Tail(t) = <<"skip">>
      BY <2>1, <2>6
    <3> QED
      BY <2>2, <2>3, <3>1
  <2>7. CASE z = <<"body", "again">>
    <3>1. Tail(t) = <<"again">>
      BY <2>1, <2>7
    <3>2. <<"again">> \in Closing
      BY DEF Closing, Alone
    <3> QED
      BY <3>1, <3>2, FormedParts
  <2>8. CASE z = <<"conditions", "undecided">>
    <3>1. Tail(t) = <<"undecided">>
      BY <2>1, <2>8
    <3> QED
      BY <2>2, <2>3, <3>1
  <2>9. CASE \E k \in Nat \ {0} : z = Decisions(k)
    <3>1. PICK k \in Nat \ {0} : t = Decisions(k)
      BY <2>1, <2>9
    <3>2. CASE k = 1
      BY <2>2, <2>3, <3>1, <3>2, DecisionsTail
    <3>3. CASE k # 1
      <4>1. k - 1 \in Nat \ {0}
        BY <3>3
      <4>2. Formed(Decisions(k - 1))
        BY <4>1, FormedParts DEF Closing
      <4>3. <<"expr">> \in Seq(Simple)
        BY <2>2
      <4> QED
        BY <3>1, <3>3, <4>2, <4>3, DecisionsTail, FormedThen
    <3> QED
      BY <3>2, <3>3
  <2> QED
    BY <1>1, <2>4, <2>5, <2>6, <2>7, <2>8, <2>9 DEF Closing
<1> QED
  BY <1>3, <1>4

\* What is left of a sequence whose first step is keyed.
LEMMA KeyedShape ==
  ASSUME NEW t, Formed(t), t # << >>
  PROVE  /\ Head(t) = "stmt" => t \in Seq({"stmt"})
         /\ Head(t) = "branch" => t \in { <<"branch">>, <<"branch", "skip">> }
         /\ Head(t) \in Alone \ {"branch"} => t = <<Head(t)>>
         /\ Head(t) = "body" => t = <<"body", "again">>
         /\ Head(t) = "conditions" => t = <<"conditions", "undecided">>
         /\ Head(t) = "decide" => \E k \in Nat \ {0} : t = Decisions(k)
<1>1. CASE Head(t) \notin Keyed
  BY <1>1 DEF Keyed, Alone
<1>2. CASE Head(t) \in Keyed
  <2>1. t \in Closing
    BY <1>2, FormedKeyed
  <2>2. CASE t \in Seq({"stmt"})
    <3>1. Head(t) = "stmt"
      BY <2>2, HeadTailProperties
    <3> QED
      BY <2>2, <3>1 DEF Alone
  <2>3. CASE \E step \in Alone : t = <<step>>
    <3>1. PICK step \in Alone : t = <<step>>
      BY <2>3
    <3>2. Head(t) = step /\ t = <<Head(t)>>
      BY <3>1
    <3> QED
      BY <3>1, <3>2 DEF Alone
  <2>4. CASE t = <<"branch", "skip">>
    <3>1. Head(t) = "branch"
      BY <2>4
    <3> QED
      BY <2>4, <3>1
  <2>5. CASE t = <<"body", "again">>
    <3>1. Head(t) = "body"
      BY <2>5
    <3> QED
      BY <2>5, <3>1 DEF Alone
  <2>6. CASE t = <<"conditions", "undecided">>
    <3>1. Head(t) = "conditions"
      BY <2>6
    <3> QED
      BY <2>6, <3>1 DEF Alone
  <2>7. CASE \E k \in Nat \ {0} : t = Decisions(k)
    <3>1. Head(t) = "decide"
      BY <2>7, DecisionsType
    <3> QED
      BY <2>7, <3>1 DEF Alone
  <2> QED
    BY <2>1, <2>2, <2>3, <2>4, <2>5, <2>6, <2>7 DEF Closing
<1> QED
  BY <1>1, <1>2

-----------------------------------------------------------------------------
(* Which steps an activation may have left. *)

Jumping == { "Break", "Continue" }
Listing == { "TopLevel", "Break", "Continue" }

StatementSteps ==
  { "test", "branch", "stmt", "stmts", "body", "again", "break", "continue",
    "choose", "while", "next", "terminate" }

(***************************************************************************)
(* Expressions run no statements, only a Break breaks, only a statement    *)
(* list has a loop's own loop_state, an activation that a jump has ended   *)
(* only skips what is left of a list, and so does a loop whose body has    *)
(* ended with a break.                                                     *)
(***************************************************************************)
Words(node, ls, body) ==
  { s \in Steps :
      /\ node \in ExpressionTypes => s \notin StatementSteps
      /\ s = "break" => node = "Break"
      /\ ls \in Listing => s \in {"stmts", "stmt"} \cup SkipSteps
      /\ body = "Break" => s \in {"again"} \cup SkipSteps }

Orderly(f) == Formed(f.todo) /\ f.todo \in Seq(Words(f.node, f.ls, f.body))

\* Skipping is always among them.
LEMMA SkipWords ==
  /\ SkipSteps \subseteq Simple
  /\ \A node, ls, body : SkipSteps \subseteq Words(node, ls, body)
<1>1. SkipSteps = { "skip", "skips", "skippedEntries", "skippedComparisons", "dropNames",
                    "dropString", "dropInteger", "dropOp" }
  BY DEF SkipSteps, Dropped
<1>2. SkipSteps \subseteq Steps
  BY <1>1, CountsNames DEF Steps, Dropped
<1>3. SkipSteps \cap Keyed = {} /\ SkipSteps \cap StatementSteps = {} /\ "break" \notin SkipSteps
  BY <1>1 DEF Keyed, StatementSteps
<1>4. \A node, ls, body : SkipSteps \subseteq Words(node, ls, body)
  BY <1>2, <1>3 DEF Words
<1> QED
  BY <1>2, <1>3, <1>4 DEF Simple

\* Short sequences in two parts.
LEMMA Splits ==
  /\ \A a, b : <<a, b>> = <<a>> \o <<b>>
  /\ \A a, b, d : <<a, b, d>> = <<a>> \o <<b, d>>
  /\ \A a, b, d, e : <<a, b, d, e>> = <<a, b, d>> \o <<e>>
<1>1. ASSUME NEW a, NEW b
      PROVE  <<a, b>> = <<a>> \o <<b>>
  <2> DEFINE S == {a, b}
             s == <<a, b>>
             t == <<a>> \o <<b>>
  <2>1. /\ <<a>> \in Seq(S) /\ <<b>> \in Seq(S) /\ s \in Seq(S)
        /\ Len(<<a>>) = 1 /\ Len(<<b>>) = 1 /\ Len(s) = 2
    OBVIOUS
  <2>2. /\ t \in Seq(S) /\ Len(t) = 1 + 1
        /\ \A i \in 1 .. 1 + 1 : t[i] = IF i <= 1 THEN <<a>>[i] ELSE <<b>>[i - 1]
    BY <2>1, ConcatProperties
  <2>3. \A i \in 1 .. 2 : t[i] = s[i]
    BY <2>2
  <2>4. Len(s) = Len(t)
    BY <2>1, <2>2
  <2> HIDE DEF s, t, S
  <2>5. s = t
    BY <2>1, <2>2, <2>3, <2>4, SeqEqual
  <2> QED
    BY <2>5 DEF s, t
<1>2. ASSUME NEW a, NEW b, NEW d
      PROVE  <<a, b, d>> = <<a>> \o <<b, d>>
  <2>1. /\ <<a>> \in Seq({a, b, d}) /\ <<b, d>> \in Seq({a, b, d}) /\ <<a, b, d>> \in Seq({a, b, d})
        /\ Len(<<a>>) = 1 /\ Len(<<b, d>>) = 2 /\ Len(<<a, b, d>>) = 3
    OBVIOUS
  <2>2. /\ <<a>> \o <<b, d>> \in Seq({a, b, d}) /\ Len(<<a>> \o <<b, d>>) = 1 + 2
        /\ \A i \in 1 .. 1 + 2 : (<<a>> \o <<b, d>>)[i] = IF i <= 1 THEN <<a>>[i] ELSE <<b, d>>[i - 1]
    BY <2>1, ConcatProperties
  <2>3. \A i \in 1 .. 3 : (<<a>> \o <<b, d>>)[i] = <<a, b, d>>[i]
    BY <2>2
  <2> QED
    BY <2>1, <2>2, <2>3, SeqEqual
<1>3. ASSUME NEW a, NEW b, NEW d, NEW e
      PROVE  <<a, b, d, e>> = <<a, b, d>> \o <<e>>
  <2>1. /\ <<a, b, d>> \in Seq({a, b, d, e}) /\ <<e>> \in Seq({a, b, d, e})
        /\ <<a, b, d, e>> \in Seq({a, b, d, e})
        /\ Len(<<a, b, d>>) = 3 /\ Len(<<e>>) = 1 /\ Len(<<a, b, d, e>>) = 4
    OBVIOUS
  <2>2. /\ <<a, b, d>> \o <<e>> \in Seq({a, b, d, e}) /\ Len(<<a, b, d>> \o <<e>>) = 3 + 1
        /\ \A i \in 1 .. 3 + 1 :
             (<<a, b, d>> \o <<e>>)[i] = IF i <= 3 THEN <<a, b, d>>[i] ELSE <<e>>[i - 3]
    BY <2>1, ConcatProperties
  <2>3. \A i \in 1 .. 4 : (<<a, b, d>> \o <<e>>)[i] = <<a, b, d, e>>[i]
    BY <2>2
  <2> QED
    BY <2>1, <2>2, <2>3, SeqEqual
<1> QED
  BY <1>1, <1>2, <1>3

\* A handler's steps are in order, ...
LEMMA HandlerFormed ==
  ASSUME NEW type \in DOMAIN Handler
  PROVE  Formed(Handler[type])
<1>1. \A a \in Simple : <<a>> \in Seq(Simple)
  OBVIOUS
<1>2. \A a, b \in Simple : <<a, b>> \in Seq(Simple)
  OBVIOUS
<1>3. \A a, b, d \in Simple : <<a, b, d>> \in Seq(Simple)
  OBVIOUS
<1>4. \A a, b, d, e, g \in Simple : <<a, b, d, e>> \in Seq(Simple) /\ <<a, b, d, e, g>> \in Seq(Simple)
  OBVIOUS
<1>5. { "name", "expr", "load", "member", "bind", "alias", "attribute", "lookup",
        "targets", "op", "unary", "undecided", "binary", "list", "elements",
        "string", "comparisons", "integer", "callable", "args", "call", "test",
        "dictionary", "entries", "subscript", "names", "iterate", "fetch", "augment" } \subseteq Simple
  BY CountsNames DEF Simple, Steps, ChildSteps, Keyed
<1>6. \A type_ \in { "Alias", "Name", "String", "Index", "Integer" } :
        Handler[type_] \in Seq(Simple)
  BY <1>1, <1>5, SMTT(40) DEF Handler
<1>7. /\ Handler["Assign"] \in Seq(Simple)
      /\ Handler["List"] \in Seq(Simple) /\ Handler["Compare"] \in Seq(Simple)
      /\ Handler["Dictionary"] \in Seq(Simple)
  BY <1>2, <1>5 DEF Handler
<1>8. /\ Handler["Import"] \in Seq(Simple) /\ Handler["Attribute"] \in Seq(Simple)
      /\ Handler["UnaryOp"] \in Seq(Simple) /\ Handler["Subscript"] \in Seq(Simple)
  BY <1>3, <1>5 DEF Handler
<1>9. /\ Handler["ImportFrom"] \in Seq(Simple) /\ Handler["BinaryOp"] \in Seq(Simple)
      /\ Handler["Call"] \in Seq(Simple) /\ Handler["AugmentedAssign"] \in Seq(Simple)
  BY <1>4, <1>5 DEF Handler
<1>10. \A a \in Simple, b \in Alone : Formed(<<a, b>>)
  <2> TAKE a \in Simple, b \in Alone
  <2>1. <<a, b>> = <<a>> \o <<b>>
    BY Splits
  <2> QED
    BY <1>1, <2>1 DEF Formed, Closing
<1>11. \A a, b, d \in Simple, e \in Alone : Formed(<<a, b, d, e>>)
  <2> TAKE a, b, d \in Simple, e \in Alone
  <2>1. <<a, b, d, e>> = <<a, b, d>> \o <<e>>
    BY Splits
  <2> QED
    BY <1>3, <2>1 DEF Formed, Closing
<1>12. Formed(<<"op", "conditions", "undecided">>)
  <2>1. <<"op", "conditions", "undecided">> = <<"op">> \o <<"conditions", "undecided">>
    BY Splits
  <2> QED
    BY <1>1, <1>5, <2>1 DEF Formed, Closing
<1>13. \A a \in Alone : Formed(<<a>>)
  BY FormedParts DEF Closing
<1>14. { "stmts", "choose", "while", "next", "break", "continue", "terminate" } \subseteq Alone
  BY DEF Alone
<1>15. \A type_ \in { "Continue", "Break", "StatementList" } : Formed(Handler[type_])
  BY <1>13, <1>14 DEF Handler
<1>16. \A type_ \in { "If", "IfElse", "WhileLoop", "Return" } : Formed(Handler[type_])
  BY <1>5, <1>10, <1>14 DEF Handler
<1>17. Formed(Handler["ForLoop"]) /\ Formed(Handler["BoolOp"])
  BY <1>5, <1>11, <1>12, <1>14 DEF Handler
<1>18. DOMAIN Handler =
        { "ImportFrom", "Import", "Alias", "Attribute", "Name", "Continue",
          "Break", "Assign", "StatementList", "UnaryOp", "BoolOp", "BinaryOp",
          "Return", "List", "String", "Compare", "Index", "Integer", "Call",
          "If", "IfElse", "Dictionary", "Subscript", "WhileLoop", "ForLoop",
          "AugmentedAssign" }
  BY DEF Handler
<1> QED
  BY <1>6, <1>7, <1>8, <1>9, <1>15, <1>16, <1>17, <1>18, FormedParts

\* Some steps are words of every expression, others of every statement.
LEMMA FreeWords ==
  ASSUME NEW node, NEW ls, ls \notin Listing, NEW body, body # "Break"
  PROVE  /\ Steps \ StatementSteps \subseteq Words(node, ls, body)
         /\ node \notin ExpressionTypes => Steps \ {"break"} \subseteq Words(node, ls, body)
BY DEF Words, StatementSteps

\* Sequences of up to five steps.
LEMMA ShortSeqs ==
  ASSUME NEW S
  PROVE  /\ << >> \in Seq(S) /\ \A a \in S : <<a>> \in Seq(S)
         /\ \A a, b \in S : <<a, b>> \in Seq(S)
         /\ \A a, b, d \in S : <<a, b, d>> \in Seq(S)
         /\ \A a, b, d, e \in S : <<a, b, d, e>> \in Seq(S)
         /\ \A a, b, d, e, g \in S : <<a, b, d, e, g>> \in Seq(S)
  OBVIOUS

\* ... and are words of its node.
LEMMA HandlerWords ==
  ASSUME NEW type \in DOMAIN Handler, NEW ls, ls \in Listing => type = "StatementList"
  PROVE  Handler[type] \in Seq(Words(type, ls, "TopLevel"))
<1> DEFINE W == Words(type, ls, "TopLevel")
           Plainest == Steps \ StatementSteps
<1>1. CASE ls \in Listing
  <2>1. type = "StatementList" /\ type \notin ExpressionTypes
    BY <1>1 DEF ExpressionTypes
  <2>2. "stmts" \in W
    BY <2>1, CountsNames DEF Words, Steps
  <2>3. Handler[type] = <<"stmts">>
    BY <2>1 DEF Handler
  <2> HIDE DEF W
  <2> QED
    BY <2>2, <2>3, ShortSeqs DEF W
<1>2. CASE ls \notin Listing
  <2>1. Plainest \subseteq W /\ (type \notin ExpressionTypes => Steps \ {"break"} \subseteq W)
    BY <1>2, FreeWords
  <2>2. { "name", "expr", "load", "member", "bind", "alias", "attribute", "lookup",
          "op", "unary", "undecided", "binary", "list", "elements", "conditions",
          "string", "comparisons", "integer", "callable", "args", "call",
          "dictionary", "entries", "subscript" } \subseteq Plainest
    BY CountsNames DEF Steps, ChildSteps, StatementSteps
  <2>3. { "name", "expr", "load", "member", "bind", "targets", "terminate", "stmts", "continue",
          "test", "choose", "names", "iterate", "next", "while", "op", "fetch", "augment" }
          \subseteq Steps \ {"break"}
    BY CountsNames DEF Steps, ChildSteps
  <2>4. CASE type \in { "Alias", "Name", "String", "Index", "Integer" }
    <3>1. /\ Handler["Alias"] \in Seq(Plainest) /\ Handler["Name"] \in Seq(Plainest)
          /\ Handler["String"] \in Seq(Plainest) /\ Handler["Index"] \in Seq(Plainest)
          /\ Handler["Integer"] \in Seq(Plainest)
      BY <2>2, ShortSeqs DEF Handler
    <3>2. Handler[type] \in Seq(Plainest)
      BY <2>4, <3>1
    <3> QED
      BY <2>1, <3>2, SeqMonotonic
  <2>5. CASE type \in { "List", "Compare", "Dictionary" }
    <3>1. /\ Handler["List"] \in Seq(Plainest) /\ Handler["Compare"] \in Seq(Plainest)
          /\ Handler["Dictionary"] \in Seq(Plainest)
      BY <2>2, ShortSeqs DEF Handler
    <3>2. Handler[type] \in Seq(Plainest)
      BY <2>5, <3>1
    <3> QED
      BY <2>1, <3>2, SeqMonotonic
  <2>6. CASE type \in { "Attribute", "UnaryOp", "Subscript", "BoolOp" }
    <3>1. /\ Handler["Attribute"] \in Seq(Plainest) /\ Handler["UnaryOp"] \in Seq(Plainest)
          /\ Handler["Subscript"] \in Seq(Plainest) /\ Handler["BoolOp"] \in Seq(Plainest)
      BY <2>2, ShortSeqs DEF Handler
    <3>2. Handler[type] \in Seq(Plainest)
      BY <2>6, <3>1
    <3> QED
      BY <2>1, <3>2, SeqMonotonic
  <2>7. CASE type \in { "BinaryOp", "Call" }
    <3>1. /\ Handler["BinaryOp"] \in Seq(Plainest) /\ Handler["Call"] \in Seq(Plainest)
      BY <2>2, ShortSeqs DEF Handler
    <3>2. Handler[type] \in Seq(Plainest)
      BY <2>7, <3>1
    <3> QED
      BY <2>1, <3>2, SeqMonotonic
  <2>8. CASE type = "Break"
    <3>1. "break" \in W
      BY <1>2, <2>8 DEF Words, ExpressionTypes, Steps
    <3>2. Handler[type] = <<"break">>
      BY <2>8 DEF Handler
    <3> HIDE DEF W
    <3> QED
      BY <3>1, <3>2, ShortSeqs DEF W
  <2> DEFINE Others == Steps \ {"break"}
  <2>9. CASE type \in { "Continue", "StatementList", "Assign", "Return", "If", "IfElse", "WhileLoop" }
    <3>1. type \notin ExpressionTypes
      BY <2>9 DEF ExpressionTypes
    <3>2. /\ Handler["Continue"] \in Seq(Others) /\ Handler["StatementList"] \in Seq(Others)
          /\ Handler["Assign"] \in Seq(Others) /\ Handler["Return"] \in Seq(Others)
          /\ Handler["If"] \in Seq(Others) /\ Handler["IfElse"] \in Seq(Others)
          /\ Handler["WhileLoop"] \in Seq(Others)
      BY <2>3, ShortSeqs DEF Handler
    <3>3. Handler[type] \in Seq(Others)
      BY <2>9, <3>2
    <3> QED
      BY <2>1, <3>1, <3>3, SeqMonotonic
  <2>10. CASE type \in { "ImportFrom", "Import", "ForLoop", "AugmentedAssign" }
    <3>1. type \notin ExpressionTypes
      BY <2>10 DEF ExpressionTypes
    <3>2. /\ Handler["ImportFrom"] \in Seq(Others) /\ Handler["Import"] \in Seq(Others)
          /\ Handler["ForLoop"] \in Seq(Others) /\ Handler["AugmentedAssign"] \in Seq(Others)
      BY <2>3, ShortSeqs DEF Handler
    <3>3. Handler[type] \in Seq(Others)
      BY <2>10, <3>2
    <3> QED
      BY <2>1, <3>1, <3>3, SeqMonotonic
  <2>11. DOMAIN Handler =
        { "ImportFrom", "Import", "Alias", "Attribute", "Name", "Continue",
          "Break", "Assign", "StatementList", "UnaryOp", "BoolOp", "BinaryOp",
          "Return", "List", "String", "Compare", "Index", "Integer", "Call",
          "If", "IfElse", "Dictionary", "Subscript", "WhileLoop", "ForLoop",
          "AugmentedAssign" }
    BY DEF Handler
  <2> HIDE DEF W, Plainest, Others
  <2>12. \/ type \in { "Alias", "Name", "String", "Index", "Integer" }
         \/ type \in { "List", "Compare", "Dictionary" }
         \/ type \in { "Attribute", "UnaryOp", "Subscript", "BoolOp" }
         \/ type \in { "BinaryOp", "Call" } \/ type = "Break"
         \/ type \in { "Continue", "StatementList", "Assign", "Return", "If", "IfElse", "WhileLoop" }
         \/ type \in { "ImportFrom", "Import", "ForLoop", "AugmentedAssign" }
    BY <2>11
  <2> QED
    BY <2>4, <2>5, <2>6, <2>7, <2>8, <2>9, <2>10, <2>12 DEF W
<1> QED
  BY <1>1, <1>2

\* What a counted step unfolds to are words wherever the step is one.
LEMMA RepeatsWords ==
  ASSUME NEW node, NEW ls, NEW body, NEW step \in DOMAIN Repeats, step \in Words(node, ls, body)
  PROVE  Repeats[step] \in Seq(Words(node, ls, body))
<1> DEFINE W == Words(node, ls, body)
<1>1. CASE step \in { "skips", "skippedEntries", "skippedComparisons" }
  <2>1. "skip" \in W /\ "dropOp" \in W
    <3>1. "skip" \in SkipSteps /\ "dropOp" \in SkipSteps
      BY DEF SkipSteps, Dropped
    <3> QED
      BY <3>1, SkipWords
  <2> HIDE DEF W
  <2>2. /\ Repeats["skips"] \in Seq(W) /\ Repeats["skippedEntries"] \in Seq(W)
        /\ Repeats["skippedComparisons"] \in Seq(W)
    BY <2>1, ShortSeqs DEF Repeats, SkipComparison
  <2> QED
    BY <1>1, <2>2 DEF W
<1>2. CASE step = "stmts"
  <2>1. "stmt" \in W
    BY <1>2 DEF Words, StatementSteps, Steps, ChildSteps, SkipSteps, Dropped
  <2>2. Repeats[step] = <<"stmt">>
    BY <1>2 DEF Repeats
  <2> HIDE DEF W
  <2> QED
    BY <2>1, <2>2, ShortSeqs DEF W
<1>3. CASE step \in { "targets", "args", "elements", "entries", "comparisons", "conditions" }
  <2>1. ls \notin Listing /\ body # "Break"
    BY <1>3 DEF Words, SkipSteps, Dropped
  <2>2. { "target", "expr", "append", "name", "insert", "op", "compare", "decide" }
          \subseteq Steps \ StatementSteps
    BY DEF Steps, ChildSteps, StatementSteps
  <2>3. { "target", "expr", "append", "name", "insert", "op", "compare", "decide" } \subseteq W
    BY <2>1, <2>2, FreeWords
  <2> HIDE DEF W
  <2>4. /\ Repeats["targets"] \in Seq(W) /\ Repeats["args"] \in Seq(W)
        /\ Repeats["elements"] \in Seq(W) /\ Repeats["entries"] \in Seq(W)
    BY <2>3, ShortSeqs DEF Repeats
  <2>5. Repeats["comparisons"] \in Seq(W) /\ Repeats["conditions"] \in Seq(W)
    BY <2>3, ShortSeqs DEF Repeats
  <2> QED
    BY <1>3, <2>4, <2>5 DEF W
<1> QED
  BY <1>1, <1>2, <1>3, CountsNames

\* The operands of and/or: one to evaluate, then conditions that are left.
LEMMA ConditionsUnfold ==
  ASSUME NEW n \in Nat
  PROVE  Times(n, <<"expr", "decide">>) \o <<"undecided">> =
           IF n = 0 THEN <<"undecided">> ELSE <<"expr">> \o Decisions(n)
<1> DEFINE W == {"decide", "expr", "undecided"}
           pair == <<"expr", "decide">>
           s == Times(n, pair)
           t == s \o <<"undecided">>
<1>1. pair \in Seq(W) /\ Len(pair) = 2 /\ pair[1] = "expr" /\ pair[2] = "decide"
  OBVIOUS
<1>2. /\ <<"undecided">> \in Seq(W) /\ Len(<<"undecided">>) = 1 /\ <<"undecided">>[1] = "undecided"
      /\ <<"expr">> \in Seq(W) /\ Len(<<"expr">>) = 1 /\ <<"expr">>[1] = "expr"
  OBVIOUS
<1> HIDE DEF pair
<1>3. s \in Seq(W) /\ n \in Int
  BY <1>1, TimesType
<1>4. Len(s) = 2 * n /\ \A i \in 1 .. 2 * n : s[i] = IF i % 2 = 1 THEN "expr" ELSE "decide"
  <2>1. s = [i \in 1 .. n * 2 |-> pair[((i - 1) % 2) + 1]]
    BY <1>1 DEF Times
  <2>2. n * 2 = 2 * n /\ 2 * n \in Nat
    OBVIOUS
  <2>3. ASSUME NEW i \in 1 .. 2 * n
        PROVE  pair[((i - 1) % 2) + 1] = IF i % 2 = 1 THEN "expr" ELSE "decide"
    <3>1. i % 2 = 1 => ((i - 1) % 2) + 1 = 1
      OBVIOUS
    <3>2. i % 2 # 1 => ((i - 1) % 2) + 1 = 2
      OBVIOUS
    <3> QED
      BY <1>1, <3>1, <3>2
  <2>4. DOMAIN s = 1 .. 2 * n
    BY <2>1, <2>2
  <2>5. Len(s) = 2 * n
    BY <1>3, <2>2, <2>4
  <2>6. \A i \in 1 .. 2 * n : s[i] = pair[((i - 1) % 2) + 1]
    BY <2>1, <2>2
  <2> QED
    BY <2>3, <2>5, <2>6
<1> HIDE DEF s
<1>5. /\ t \in Seq(W) /\ Len(t) = 2 * n + 1
      /\ \A i \in 1 .. 2 * n + 1 : t[i] = IF i <= 2 * n THEN s[i] ELSE <<"undecided">>[i - 2 * n]
  BY <1>2, <1>3, <1>4, ConcatProperties
<1> HIDE DEF t
<1>6. t[2 * n + 1] = "undecided"
  <2>1. 2 * n + 1 \in 1 .. 2 * n + 1 /\ ~ (2 * n + 1 <= 2 * n) /\ (2 * n + 1) - 2 * n = 1
    OBVIOUS
  <2> QED
    BY <1>2, <1>5, <2>1
<1>7. CASE n = 0
  <2>1. Len(t) = 1 /\ t[1] = "undecided"
    BY <1>5, <1>6, <1>7
  <2>2. \A i \in 1 .. 1 : i = 1
    OBVIOUS
  <2> HIDE DEF W
  <2>3. t = <<"undecided">>
    BY <1>2, <1>5, <2>1, <2>2, SeqEqual
  <2> QED
    BY <1>7, <2>3 DEF t, s, pair
<1>8. CASE n # 0
  <2> DEFINE v == Decisions(n)
             u == <<"expr">> \o v
  <2>1. v \in Seq(W) /\ Len(v) = 2 * n /\ n \in Nat \ {0}
    BY <1>8, DecisionsType
  <2>2. \A i \in 1 .. 2 * n : v[i] = IF i = 2 * n THEN "undecided"
                                     ELSE IF i % 2 = 1 THEN "decide" ELSE "expr"
    BY DEF Decisions
  <2> HIDE DEF v
  <2>3. /\ u \in Seq(W) /\ Len(u) = 1 + 2 * n
        /\ \A i \in 1 .. 1 + 2 * n : u[i] = IF i <= 1 THEN <<"expr">>[i] ELSE v[i - 1]
    BY <1>2, <2>1, ConcatProperties
  <2> HIDE DEF u
  <2>4. ASSUME NEW i \in 1 .. 2 * n + 1
        PROVE  t[i] = u[i]
    <3>1. i \in 1 .. 1 + 2 * n
      OBVIOUS
    <3>2. CASE i = 1
      <4>1. i <= 2 * n /\ i \in 1 .. 2 * n /\ i % 2 = 1 /\ i <= 1
        BY <2>1, <3>2
      <4>2. t[i] = "expr"
        BY <1>4, <1>5, <4>1
      <4>3. u[i] = <<"expr">>[i]
        BY <2>3, <3>1, <4>1
      <4> QED
        BY <1>2, <3>2, <4>2, <4>3
    <3>3. CASE i # 1 /\ i # 2 * n + 1
      <4>1. /\ i <= 2 * n /\ i \in 1 .. 2 * n /\ ~ (i <= 1)
            /\ i - 1 \in 1 .. 2 * n /\ i - 1 # 2 * n
            /\ (i % 2 = 1 <=> (i - 1) % 2 # 1)
        BY <3>3
      <4>2. t[i] = IF i % 2 = 1 THEN "expr" ELSE "decide"
        BY <1>4, <1>5, <4>1
      <4>3. u[i] = IF (i - 1) % 2 = 1 THEN "decide" ELSE "expr"
        BY <2>2, <2>3, <3>1, <4>1
      <4> QED
        BY <4>1, <4>2, <4>3
    <3>4. CASE i = 2 * n + 1
      <4>1. i - 1 = 2 * n /\ i - 1 \in 1 .. 2 * n /\ ~ (i <= 1)
        BY <2>1, <3>4
      <4>2. u[i] = "undecided"
        BY <2>2, <2>3, <3>1, <4>1
      <4> QED
        BY <1>6, <3>4, <4>2
    <3> QED
      BY <3>2, <3>3, <3>4
  <2>5. Len(t) = Len(u) /\ Len(t) = 2 * n + 1
    BY <1>5, <2>3
  <2> HIDE DEF W
  <2>6. t = u
    BY <1>5, <2>3, <2>4, <2>5, SeqEqual
  <2> QED
    BY <1>8, <2>6 DEF t, s, pair, u, v
<1> QED
  BY <1>7, <1>8

\* A counted step unfolds in order.
LEMMA CountFormed ==
  ASSUME NEW t, Formed(t), t # << >>, NEW step \in DOMAIN Repeats, Head(t) = step, NEW n \in Nat
  PROVE  Formed(Times(n, Repeats[step]) \o Tail(t))
<1>1. n \in Int /\ Formed(Tail(t))
  BY FormedTail
<1>2. CASE step = "stmts"
  <2>1. t = <<"stmts">>
    BY <1>2, KeyedShape DEF Alone
  <2>2. Tail(t) = << >>
    BY <2>1
  <2>3. Repeats[step] \in Seq({"stmt"})
    BY <1>2 DEF Repeats
  <2>4. Times(n, Repeats[step]) \in Seq({"stmt"})
    BY <1>1, <2>3, TimesType
  <2>5. Times(n, Repeats[step]) \o << >> = Times(n, Repeats[step])
    BY <2>4, ConcatEmptySeq
  <2>6. Times(n, Repeats[step]) \in Closing
    BY <2>4 DEF Closing
  <2> QED
    BY <2>2, <2>5, <2>6, FormedParts
<1>3. CASE step = "conditions"
  <2>1. t = <<"conditions", "undecided">>
    BY <1>3, KeyedShape
  <2>2. Tail(t) = <<"undecided">> /\ Repeats[step] = <<"expr", "decide">>
    BY <1>3, <2>1 DEF Repeats
  <2>3. "undecided" \in Simple /\ "expr" \in Simple
    BY CountsNames DEF Simple, Steps, ChildSteps, Keyed
  <2>4. <<"undecided">> \in Seq(Simple) /\ <<"expr">> \in Seq(Simple)
    BY <2>3, ShortSeqs
  <2>5. CASE n = 0
    <3>1. Times(n, Repeats[step]) \o Tail(t) = <<"undecided">>
      BY <2>2, <2>5, ConditionsUnfold
    <3> QED
      BY <2>4, <3>1, FormedParts
  <2>6. CASE n # 0
    <3>1. Times(n, Repeats[step]) \o Tail(t) = <<"expr">> \o Decisions(n)
      BY <2>2, <2>6, ConditionsUnfold
    <3>2. Formed(Decisions(n))
      BY <2>6, FormedParts DEF Closing
    <3> QED
      BY <2>4, <3>1, <3>2, FormedThen
  <2> QED
    BY <2>5, <2>6
<1>4. CASE step \notin {"stmts", "conditions"}
  <2>1. { "target", "expr", "append", "name", "insert", "op", "compare", "skip", "dropOp" }
          \subseteq Simple
    BY CountsNames DEF Simple, Steps, ChildSteps, Dropped, Keyed
  <2>2. /\ Repeats["targets"] \in Seq(Simple) /\ Repeats["args"] \in Seq(Simple)
        /\ Repeats["elements"] \in Seq(Simple) /\ Repeats["entries"] \in Seq(Simple)
    BY <2>1, ShortSeqs DEF Repeats
  <2>3. /\ Repeats["comparisons"] \in Seq(Simple) /\ Repeats["skips"] \in Seq(Simple)
        /\ Repeats["skippedEntries"] \in Seq(Simple)
        /\ Repeats["skippedComparisons"] \in Seq(Simple)
    BY <2>1, ShortSeqs DEF Repeats, SkipComparison
  <2>4. Repeats[step] \in Seq(Simple)
    BY <1>4, <2>2, <2>3, CountsNames
  <2>5. Times(n, Repeats[step]) \in Seq(Simple)
    BY <1>1, <2>4, TimesType
  <2> QED
    BY <1>1, <2>5, FormedThen
<1> QED
  BY <1>2, <1>3, <1>4

-----------------------------------------------------------------------------
(* Ways to the end of a node. *)

\* The steps that read nothing leave the cursor alone.
LEMMA DecisionStops ==
  ASSUME NEW c, NEW n, NEW p, NEW q
  PROVE  /\ \A step \in {"decide", "decided", "undecided"} :
              Reaches(c, n, step, p, q) <=> q = p
         /\ Reaches(c, n, "skip", p, q) <=> Has(c, "node", p) /\ q = NodeEnd(c, p)
         /\ Reaches(c, n, "expr", p, q) => Reaches(c, n, "skip", p, q)
         /\ Reaches(c, n, "branch", p, q) => Reaches(c, n, "skip", p, q)
         /\ Reaches(c, n, "stmt", p, q) => Reaches(c, n, "skip", p, q)
<1>1. {"decide", "decided", "undecided", "skip", "expr", "branch", "stmt"} \cap DOMAIN Repeats = {}
  BY CountsNames
<1>2. \A step \in {"decide", "decided", "undecided"} :
        /\ FieldRead(step) = "any" /\ step \notin NodeSteps \cup FieldSteps \cup {"alias", "choose"}
        /\ step \notin {"alias", "expr", "test", "stmt", "branch", "choose", "while", "next", "body", "again"}
  BY CountsNames DEF FieldRead, NodeSteps, FieldSteps, Dropped, ChildSteps
<1>3. \A step \in {"skip", "expr", "branch", "stmt"} :
        FieldRead(step) = "node" /\ step \in NodeSteps
  <2>1. \A step \in {"skip", "expr", "branch", "stmt"} :
          /\ step \notin DOMAIN Repeats /\ step \notin DOMAIN Dropped
          /\ step \notin {"op", "lookup", "string", "alias", "integer"}
    BY CountsNames DEF Dropped
  <2>2. \A step \in {"skip", "expr", "branch", "stmt"} :
          step \in ChildSteps \cup {"skip", "name", "names", "dropNames", "fetch", "target"}
    BY DEF ChildSteps
  <2>3. \A step \in {"skip", "expr", "branch", "stmt"} : FieldRead(step) = "node"
    BY <2>1, <2>2 DEF FieldRead
  <2> QED
    BY <2>3 DEF NodeSteps
<1>4. \A step \in {"decide", "decided", "undecided"} :
        Legible(c, n, step, p) /\ StopsAt(c, n, step, p) = p
  <2> TAKE step \in {"decide", "decided", "undecided"}
  <2>1. StopsAt(c, n, step, p) = p
    <3>1. step \notin NodeSteps \cup FieldSteps \cup {"alias", "choose"}
      BY <1>2
    <3> QED
      BY <3>1, Stops
  <2>2. Legible(c, n, step, p)
    BY <1>2 DEF Legible
  <2> QED
    BY <2>1, <2>2
<1>5. \A step \in {"skip", "expr", "branch", "stmt"} :
        /\ StopsAt(c, n, step, p) = NodeEnd(c, p)
        /\ Legible(c, n, step, p) => Has(c, "node", p)
  <2>1. \A step \in {"skip", "expr", "branch", "stmt"} : StopsAt(c, n, step, p) = NodeEnd(c, p)
    BY <1>3, Stops
  <2>2. \A step \in {"skip", "expr", "branch", "stmt"} : Legible(c, n, step, p) => Has(c, "node", p)
    BY <1>3 DEF Legible
  <2> QED
    BY <2>1, <2>2
<1>6. Legible(c, n, "skip", p) <=> Has(c, "node", p)
  BY <1>3 DEF Legible
<1> QED
  BY <1>1, <1>4, <1>5, <1>6, StepReaches

\* Where a chain of conditions is decided, what is left of it is skipped.
LEMMA DecidedLeads ==
  ASSUME NEW c, NEW n, NEW k \in Nat \ {0}, NEW p, NEW q, Leads(c, n, Decisions(k), p, q)
  PROVE  Leads(c, n, Times(k - 1, <<"skip">>) \o <<"decided">>, p, q)
<1> DEFINE s == Times(k - 1, <<"skip">>)
           t == s \o <<"decided">>
           W == {"skip", "decided"}
<1>1. PICK at \in [1 .. 2 * k + 1 -> Nat] :
        /\ at[1] = p /\ at[2 * k + 1] = q
        /\ \A i \in 1 .. 2 * k : Reaches(c, n, Decisions(k)[i], at[i], at[i + 1])
  BY DecisionsType DEF Leads
<1>2. k - 1 \in Nat /\ k - 1 \in Int /\ k - 1 + 1 = k
  OBVIOUS
<1>3. <<"skip">> \in Seq(W) /\ Len(<<"skip">>) = 1 /\ <<"skip">>[1] = "skip"
      /\ <<"decided">> \in Seq(W) /\ Len(<<"decided">>) = 1 /\ <<"decided">>[1] = "decided"
  OBVIOUS
<1>4. s \in Seq(W) /\ Len(s) = k - 1 /\ \A i \in 1 .. k - 1 : s[i] = "skip"
  <2> DEFINE one == <<"skip">>
  <2>1. Len(one) = 1 /\ one[1] = "skip" /\ one \in Seq(W)
    BY <1>3
  <2> HIDE DEF one
  <2>2. Times(k - 1, one) = [i \in 1 .. (k - 1) * 1 |-> one[((i - 1) % 1) + 1]]
    BY <2>1 DEF Times
  <2>3. (k - 1) * 1 = k - 1 /\ \A i \in 1 .. k - 1 : ((i - 1) % 1) + 1 = 1
    BY <1>2
  <2>4. Times(k - 1, one) \in Seq(W)
    BY <1>2, <2>1, TimesType
  <2>5. DOMAIN Times(k - 1, one) = 1 .. k - 1
    BY <2>2, <2>3
  <2>6. Len(Times(k - 1, one)) = k - 1
    BY <1>2, <2>4, <2>5
  <2>7. \A i \in 1 .. k - 1 : Times(k - 1, one)[i] = "skip"
    BY <2>1, <2>2, <2>3
  <2> QED
    BY <2>4, <2>6, <2>7 DEF one
<1> HIDE DEF s
<1>5. /\ t \in Seq(W) /\ Len(t) = k
      /\ \A i \in 1 .. k : t[i] = IF i <= k - 1 THEN s[i] ELSE <<"decided">>[i - (k - 1)]
  BY <1>2, <1>3, <1>4, ConcatProperties
<1> HIDE DEF t
<1>6. t[k] = "decided" /\ \A i \in 1 .. k - 1 : t[i] = "skip"
  <2>1. k \in 1 .. k /\ ~ (k <= k - 1) /\ k - (k - 1) = 1
    OBVIOUS
  <2>2. \A i \in 1 .. k - 1 : i \in 1 .. k /\ i <= k - 1
    OBVIOUS
  <2> QED
    BY <1>3, <1>4, <1>5, <2>1, <2>2
<1>7. \A i \in 1 .. 2 * k : Decisions(k)[i] = IF i = 2 * k THEN "undecided"
                                              ELSE IF i % 2 = 1 THEN "decide" ELSE "expr"
  BY DEF Decisions
<1>8. \A i \in 1 .. k : at[2 * i] = at[2 * i - 1] /\ at[2 * i] \in Nat
  <2> TAKE i \in 1 .. k
  <2>1. /\ 2 * i - 1 \in 1 .. 2 * k /\ 2 * i - 1 # 2 * k /\ (2 * i - 1) % 2 = 1
        /\ (2 * i - 1) + 1 = 2 * i /\ 2 * i \in 1 .. 2 * k + 1
    OBVIOUS
  <2>2. Decisions(k)[2 * i - 1] = "decide"
    BY <1>7, <2>1
  <2>3. Reaches(c, n, "decide", at[2 * i - 1], at[2 * i])
    <3> DEFINE j == 2 * i - 1
    <3>1. j \in 1 .. 2 * k /\ j + 1 = 2 * i
      BY <2>1
    <3> HIDE DEF j
    <3>2. Reaches(c, n, Decisions(k)[j], at[j], at[j + 1])
      BY <1>1, <3>1
    <3> QED
      BY <2>2, <3>1, <3>2 DEF j
  <2> QED
    BY <1>1, <2>1, <2>3, DecisionStops
<1> DEFINE to == [i \in 1 .. k + 1 |-> IF i = k + 1 THEN q ELSE at[2 * i]]
<1>9. q \in Nat
  <2>1. 2 * k + 1 \in 1 .. 2 * k + 1
    OBVIOUS
  <2> QED
    BY <1>1, <2>1
<1>10. to \in [1 .. k + 1 -> Nat]
  BY <1>8, <1>9
<1>11. to[k + 1] = q /\ \A i \in 1 .. k : to[i] = at[2 * i]
  OBVIOUS
<1> HIDE DEF to
<1>12. to[1] = p
  <2>1. 1 \in 1 .. k /\ 2 * 1 = 2 /\ 2 * 1 - 1 = 1
    OBVIOUS
  <2>2. at[2 * 1] = at[2 * 1 - 1]
    BY <1>8, <2>1
  <2>3. to[1] = at[2 * 1]
    BY <1>11, <2>1
  <2> QED
    BY <1>1, <2>1, <2>2, <2>3
<1>13. ASSUME NEW i \in 1 .. k
       PROVE  Reaches(c, n, t[i], to[i], to[i + 1])
  <2>1. CASE i = k
    <3>1. Decisions(k)[2 * k] = "undecided" /\ 2 * k \in 1 .. 2 * k
      BY <1>7
    <3>2. Reaches(c, n, "undecided", at[2 * k], at[2 * k + 1])
      BY <1>1, <3>1
    <3>3. q = at[2 * k]
      BY <1>1, <3>2, DecisionStops
    <3>4. to[i] = at[2 * k] /\ to[i + 1] = q
      BY <1>11, <2>1
    <3> QED
      BY <1>6, <2>1, <3>3, <3>4, DecisionStops
  <2>2. CASE i # k
    <3>1. /\ 2 * i \in 1 .. 2 * k /\ 2 * i # 2 * k /\ (2 * i) % 2 # 1
          /\ i + 1 \in 1 .. k /\ 2 * (i + 1) - 1 = 2 * i + 1 /\ i \in 1 .. k - 1
      BY <2>2
    <3>2. Decisions(k)[2 * i] = "expr"
      BY <1>7, <3>1
    <3>3. Reaches(c, n, "expr", at[2 * i], at[2 * i + 1])
      BY <1>1, <3>1, <3>2
    <3>4. Reaches(c, n, "skip", at[2 * i], at[2 * i + 1])
      BY <3>3, DecisionStops
    <3>5. at[2 * (i + 1)] = at[2 * i + 1]
      BY <1>8, <3>1
    <3>6. to[i] = at[2 * i] /\ to[i + 1] = at[2 * (i + 1)] /\ t[i] = "skip"
      BY <1>6, <1>11, <3>1
    <3> QED
      BY <3>4, <3>5, <3>6
  <2> QED
    BY <2>1, <2>2
<1>14. Leads(c, n, t, p, q)
  BY <1>5, <1>10, <1>11, <1>12, <1>13 DEF Leads
<1> QED
  BY <1>14 DEF t, s

\* Where a statement of a list starts, there is a way for one fewer.
LEMMA LagLeads ==
  ASSUME NEW c, NEW n, NEW t \in Seq({"stmt"}), t # << >>, NEW p, NEW q, Leads(c, n, t, p, q)
  PROVE  \E r : Leads(c, n, Tail(t), p, r)
<1>1. PICK at \in [1 .. Len(t) + 1 -> Nat] :
        /\ at[1] = p
        /\ \A i \in 1 .. Len(t) : Reaches(c, n, t[i], at[i], at[i + 1])
  BY DEF Leads
<1> DEFINE l == Len(t)
           u == Tail(t)
<1>2. /\ l \in Nat \ {0} /\ Len(u) = l - 1
      /\ u \in Seq({"stmt"})
  BY EmptySeq, HeadTailProperties
<1>3. (\A i \in 1 .. l : t[i] = "stmt") /\ (\A i \in 1 .. l - 1 : u[i] = "stmt")
  BY <1>2, ElementOfSeq
<1> HIDE DEF l, u
<1> DEFINE to == [i \in 1 .. (l - 1) + 1 |-> at[i]]
<1>4. /\ to \in [1 .. (l - 1) + 1 -> Nat] /\ to[1] = p
      /\ \A i \in 1 .. l - 1 : to[i] = at[i] /\ to[i + 1] = at[i + 1] /\ i \in 1 .. l
  BY <1>1, <1>2 DEF l
<1> HIDE DEF to
<1>5. \A i \in 1 .. l - 1 : Reaches(c, n, u[i], to[i], to[i + 1])
  BY <1>1, <1>3, <1>4 DEF l
<1>6. Leads(c, n, u, p, to[(l - 1) + 1])
  BY <1>2, <1>4, <1>5 DEF Leads
<1> QED
  BY <1>6 DEF u

-----------------------------------------------------------------------------
(* The activations of a program that is laid out well. *)

\* What an activation is ...
Sound(c, f) ==
  /\ NodeAt(c, f.node, f.start)
  /\ Orderly(f)
  /\ f.node \in ExpressionTypes => f.ls \in {"None", "Normal"}
  /\ f.ls = "TopLevel" => f.node = "StatementList"
  /\ f.ls = "Break" => ~ InWhile(c, f.start)
  /\ f.body \notin {"None", "Normal"}
  /\ f.body = "Break" => f.node # "WhileLoop"

\* The steps that run a statement.
Opening == { "stmt", "branch", "body" }

\* ... and what the activation f is to the one g that it waits for: g's node is
\* the next of f's.
Link(c, f, g) ==
  /\ Leads(c, f.start, f.todo, g.start, NodeEnd(c, f.start))
  /\ g.ls = "TopLevel" => Head(f.todo) = "body"
  /\ Head(f.todo) = "body" => g.ls \notin {"None", "Normal"}
  /\ g.node \notin ExpressionTypes => Head(f.todo) \in Opening /\ f.node \notin ExpressionTypes

\* The steps that are left lead from the cursor p to the end of the node, or,
\* after a jump, to some field: then the cursor goes back to the start.
Rests(c, f, p) ==
  \E q : Leads(c, f.start, f.todo, p, q) /\ (f.ls \notin Jumping => q = NodeEnd(c, f.start))

\* No expression waits for a statement, at whatever distance.
Opened(st) ==
  \A i, j \in DOMAIN st :
    i < j /\ st[j].node \notin ExpressionTypes => Head(st[i].todo) \in Opening

Linked(c, st) ==
  /\ \A i \in DOMAIN st : Sound(c, st[i])
  /\ \A i \in DOMAIN st : i + 1 \in DOMAIN st => Link(c, st[i], st[i + 1])
  /\ st # << >> => st[1].start = 1
  /\ Opened(st)

CursorInv ==
  /\ WellFormed(code)
  /\ outcome = "idle" => pos = 1
  /\ Linked(code, stack)
  /\ stack # << >> => Rests(code, Top, pos)

\* A frame with the frames around it exchanged.
LEMMA LinkedFront ==
  ASSUME NEW c, NEW S, NEW st \in Seq(S), st # << >>, Linked(c, st)
  PROVE  /\ Linked(c, Front(st)) /\ Sound(c, Last(st))
         /\ Front(st) = << >> => Last(st).start = 1
         /\ Front(st) # << >> => Link(c, Last(Front(st)), Last(st))
<1>1. /\ Front(st) \in Seq(S) /\ Len(Front(st)) = Len(st) - 1
      /\ \A i \in 1 .. Len(st) - 1 : Front(st)[i] = st[i]
      /\ Last(st) = st[Len(st)] /\ Len(st) \in Nat \ {0}
  BY Ends, EmptySeq, LenProperties DEF Last
<1>2. DOMAIN st = 1 .. Len(st) /\ DOMAIN Front(st) = 1 .. Len(st) - 1
  BY <1>1, LenProperties
<1> DEFINE l == Len(st)
           fr == Front(st)
<1>3. l \in 1 .. l /\ l \in Nat /\ \A i \in 1 .. l - 1 : i \in 1 .. l
  BY <1>1
<1>4. \A i \in 1 .. l - 1 : i + 1 \in 1 .. l - 1 => i + 1 \in 1 .. l
  BY <1>1
<1> HIDE DEF l, fr
<1>5. \A i \in DOMAIN fr : Sound(c, fr[i])
  BY <1>1, <1>2, <1>3 DEF Linked, fr, l
<1>6. \A i \in DOMAIN fr : i + 1 \in DOMAIN fr => Link(c, fr[i], fr[i + 1])
  BY <1>1, <1>2, <1>3, <1>4 DEF Linked, fr, l
<1>7. fr # << >> => fr[1].start = 1
  <2>1. fr # << >> => 1 \in 1 .. l - 1
    BY <1>1, <1>3, EmptySeq DEF fr, l
  <2> QED
    BY <1>1, <2>1 DEF Linked, fr, l
<1>8. Sound(c, Last(st))
  BY <1>1, <1>2, <1>3 DEF Linked, l
<1>9. fr = << >> => Last(st).start = 1
  <2>1. fr = << >> => Len(fr) = 0
    OBVIOUS
  <2>2. fr = << >> => l = 1
    BY <1>1, <2>1 DEF fr, l
  <2> QED
    BY <1>1, <2>2 DEF Linked, l
<1>10. fr # << >> => Link(c, Last(fr), Last(st))
  <2> HAVE fr # << >>
  <2>1. Last(fr) = fr[Len(fr)] /\ Len(fr) = l - 1 /\ Len(fr) # 0
    BY <1>1, EmptySeq DEF Last, fr, l
  <2>2. l - 1 \in 1 .. l - 1 /\ (l - 1) + 1 = l /\ l - 1 \in 1 .. l
    BY <1>3, <2>1
  <2>3. Last(fr) = st[l - 1]
    BY <1>1, <2>1, <2>2 DEF fr, l
  <2>4. Link(c, st[l - 1], st[(l - 1) + 1])
    BY <1>2, <1>3, <2>2 DEF Linked, l
  <2> QED
    BY <1>1, <2>2, <2>3, <2>4 DEF l
<1>11. Opened(fr)
  BY <1>1, <1>2, <1>3 DEF Linked, Opened, fr, l
<1> QED
  BY <1>5, <1>6, <1>7, <1>8, <1>9, <1>10, <1>11 DEF Linked, fr

\* One more frame.
LEMMA LinkedAppend ==
  ASSUME NEW c, NEW S, NEW st \in Seq(S), Linked(c, st), NEW g \in S, Sound(c, g),
         st = << >> => g.start = 1,
         st # << >> => Link(c, Last(st), g)
  PROVE  Linked(c, Append(st, g)) /\ Last(Append(st, g)) = g
<1> DEFINE l == Len(st)
           up == Append(st, g)
<1>1. /\ l \in Nat /\ up \in Seq(S) /\ Len(up) = l + 1
      /\ \A i \in 1 .. l : up[i] = st[i]
      /\ up[l + 1] = g
  BY AppendProperties, LenProperties
<1>2. DOMAIN up = 1 .. l + 1 /\ DOMAIN st = 1 .. l
  BY <1>1, LenProperties
<1>3. Last(up) = g
  BY <1>1 DEF Last
<1>4. st # << >> => l # 0 /\ Last(st) = st[l]
  BY EmptySeq DEF Last
<1>5. st = << >> => l = 0
  BY EmptySeq
<1> HIDE DEF l, up
<1>6. \A i \in 1 .. l + 1 : Sound(c, up[i])
  <2> TAKE i \in 1 .. l + 1
  <2>1. CASE i = l + 1
    BY <1>1, <2>1
  <2>2. CASE i # l + 1
    <3>1. i \in 1 .. l
      BY <1>1, <2>2
    <3> QED
      BY <1>1, <1>2, <3>1 DEF Linked
  <2> QED
    BY <2>1, <2>2
<1>7. \A i \in 1 .. l + 1 : i + 1 \in 1 .. l + 1 => Link(c, up[i], up[i + 1])
  <2> TAKE i \in 1 .. l + 1
  <2> HAVE i + 1 \in 1 .. l + 1
  <2>1. i \in 1 .. l
    BY <1>1
  <2>2. CASE i = l
    <3>1. st # << >>
      BY <1>1, <1>5, <2>1
    <3> QED
      BY <1>1, <1>4, <2>1, <2>2, <3>1
  <2>3. CASE i # l
    <3>1. i + 1 \in 1 .. l
      BY <1>1, <2>1, <2>3
    <3> QED
      BY <1>1, <1>2, <2>1, <3>1 DEF Linked
  <2> QED
    BY <2>2, <2>3
<1>8. up[1].start = 1
  <2>1. CASE st = << >>
    BY <1>1, <1>5, <2>1
  <2>2. CASE st # << >>
    <3>1. 1 \in 1 .. l
      BY <1>1, <1>4, <2>2
    <3> QED
      BY <1>1, <2>2, <3>1 DEF Linked
  <2> QED
    BY <2>1, <2>2
<1>9. Opened(up)
  <2> SUFFICES ASSUME NEW i \in 1 .. l + 1, NEW j \in 1 .. l + 1, i < j,
                      up[j].node \notin ExpressionTypes
               PROVE  Head(up[i].todo) \in Opening
    BY <1>2 DEF Opened
  <2>1. i \in 1 .. l /\ up[i] = st[i] /\ st # << >>
    BY <1>1, <1>5
  <2>2. CASE j # l + 1
    <3>1. j \in 1 .. l
      BY <1>1, <2>2
    <3> QED
      BY <1>1, <1>2, <2>1, <3>1 DEF Linked, Opened
  <2>3. CASE j = l + 1
    <3>1. Head(st[l].todo) \in Opening /\ st[l].node \notin ExpressionTypes
      BY <1>1, <1>4, <2>1, <2>3 DEF Link
    <3>2. CASE i = l
      BY <2>1, <3>1, <3>2
    <3>3. CASE i # l
      <4>1. l \in 1 .. l /\ i < l
        BY <1>1, <2>1, <3>3
      <4> QED
        BY <1>2, <2>1, <3>1, <4>1 DEF Linked, Opened
    <3> QED
      BY <3>2, <3>3
  <2> QED
    BY <2>2, <2>3
<1>10. Linked(c, up)
  BY <1>2, <1>6, <1>7, <1>8, <1>9 DEF Linked
<1> QED
  BY <1>3, <1>10 DEF up

\* Another innermost frame.
LEMMA LinkedReplace ==
  ASSUME NEW c, NEW S, NEW st \in Seq(S), st # << >>, Linked(c, st), NEW f \in S, Sound(c, f),
         f.start = Last(st).start,
         f.ls = "TopLevel" => Last(st).ls = "TopLevel",
         Last(st).ls \notin {"None", "Normal"} => f.ls \notin {"None", "Normal"}
  PROVE  Linked(c, Append(Front(st), f)) /\ Last(Append(Front(st), f)) = f
<1>1. Front(st) \in Seq(S)
  BY Ends
<1>2. /\ Linked(c, Front(st))
      /\ Front(st) = << >> => Last(st).start = 1
      /\ Front(st) # << >> => Link(c, Last(Front(st)), Last(st))
  BY LinkedFront
<1>3. f.node = Last(st).node
  BY LinkedFront DEF Sound, NodeAt
<1>4. Front(st) # << >> => Link(c, Last(Front(st)), f)
  BY <1>2, <1>3 DEF Link
<1> QED
  BY <1>1, <1>2, <1>4, LinkedAppend

-----------------------------------------------------------------------------
(* One step. *)

\* The step at hand can be made where the cursor is, and leaves a way from
\* where it stops.
LEMMA RestsOn ==
  ASSUME NEW c, IsCode(c), NEW f, Sound(c, f), f.todo # << >>, NEW p, Rests(c, f, p)
  PROVE  /\ p \in Nat
         /\ Head(f.todo) \in Words(f.node, f.ls, f.body) /\ Head(f.todo) \in Steps
         /\ Formed(Tail(f.todo)) /\ Tail(f.todo) \in Seq(Words(f.node, f.ls, f.body))
         /\ \E m, q \in Nat :
              /\ Reaches(c, f.start, Head(f.todo), p, m)
              /\ Leads(c, f.start, Tail(f.todo), m, q)
              /\ f.ls \notin Jumping => q = NodeEnd(c, f.start)
<1> DEFINE t == f.todo
           W == Words(f.node, f.ls, f.body)
<1>1. Formed(t) /\ t \in Seq(W) /\ t # << >> /\ W \subseteq Steps
  BY DEF Sound, Orderly, Words
<1>2. PICK q : Leads(c, f.start, t, p, q) /\ (f.ls \notin Jumping => q = NodeEnd(c, f.start))
  BY DEF Rests
<1> HIDE DEF t, W
<1>3. /\ p \in Nat /\ q \in Nat
      /\ \E m \in Nat : Reaches(c, f.start, Head(t), p, m) /\ Leads(c, f.start, Tail(t), m, q)
  BY <1>1, <1>2, LeadsOn
<1>4. Head(t) \in W /\ Tail(t) \in Seq(W)
  BY <1>1, HeadTailProperties
<1>5. Formed(Tail(t))
  BY <1>1, FormedTail
<1> QED
  BY <1>1, <1>2, <1>3, <1>4, <1>5 DEF t, W

\* A frame like the innermost one, but for what it still has to do, the
\* pointers it holds and the names it has read.
Passed(f) ==
  /\ DOMAIN f = DOMAIN Top
  /\ f.node = Top.node /\ f.start = Top.start /\ f.ls = Top.ls /\ f.body = Top.body
  /\ f.todo = Tail(Top.todo)

\* The constructors of frames make such frames.
LEMMA PassedFrames ==
  ASSUME TypeOK, stack # << >>
  PROVE  /\ \A n : Passed(Done(n))
         /\ \A f : Passed(f) => \A p : Passed(Push(f, p))
         /\ \A f : Passed(f) => \A s : Passed(Reading(f, s))
<1>1. DOMAIN Top = {"node", "start", "ls", "body", "todo", "vals", "rd"}
  BY TopType DEF Frame
<1> QED
  BY <1>1 DEF Passed, Done, Push, Reading

\* A step that replaces the innermost frame.
LEMMA ReplacedCursor ==
  ASSUME TypeOK, CursorInv, stack # << >>, outcome' # "idle", code' = code,
         NEW f, stack' = Append(Front(stack), f),
         f.start = Top.start, f.ls = "TopLevel" => Top.ls = "TopLevel",
         Top.ls \notin {"None", "Normal"} => f.ls \notin {"None", "Normal"},
         Sound(code, f), Rests(code, f, pos')
  PROVE  CursorInv'
<1>1. stack \in Seq(Frame \cup {f})
  BY SeqMonotonic DEF TypeOK
<1>2. Linked(code, stack') /\ Last(stack') = f
  BY <1>1, LinkedReplace DEF CursorInv, Top
<1> QED
  BY <1>2 DEF CursorInv, Top

\* The innermost activation.
LEMMA TopSound ==
  ASSUME TypeOK, CursorInv, stack # << >>
  PROVE  /\ IsCode(code) /\ WellFormed(code)
         /\ Top \in Frame /\ Sound(code, Top) /\ Rests(code, Top, pos) /\ pos \in Nat
         /\ NodeAt(code, Top.node, Top.start)
<1>1. Sound(code, Top)
  BY LinkedFront DEF TypeOK, CursorInv, Top
<1> QED
  BY <1>1, TopType DEF TypeOK, CursorInv, Sound

\* The step at hand can be made where the cursor is.
LEMMA TopLegible ==
  ASSUME TypeOK, CursorInv, NEW step, NEW n, At(step, n)
  PROVE  /\ step \in Words(Top.node, Top.ls, Top.body) /\ step \in Steps
         /\ step \notin DOMAIN Repeats => Legible(code, Top.start, step, pos)
<1>1. stack # << >> /\ Top.todo # << >> /\ Head(Top.todo) = step
  BY DEF At
<1>2. IsCode(code) /\ Sound(code, Top) /\ Rests(code, Top, pos)
  BY <1>1, TopSound
<1>3. /\ step \in Words(Top.node, Top.ls, Top.body) /\ step \in Steps
      /\ \E m : Reaches(code, Top.start, step, pos, m)
  BY <1>1, <1>2, RestsOn
<1> QED
  BY <1>3, StepReaches

\* A step without a result, or with one, or an exception.
Passing(p) ==
  /\ code' = code
  /\ \/ stack' = << >>
     \/ pos' = p /\ \E f : Passed(f) /\ stack' = Append(Front(stack), f)

\* Resume, Step, Yield and Fail make such steps.
LEMMA PassingSteps ==
  ASSUME TypeOK, stack # << >>
  PROVE  /\ \A f, p, h : Passed(f) /\ Resume(f, p, h) => Passing(p)
         /\ \A f, p : Passed(f) /\ Step(f, p) => Passing(p)
         /\ \A msg, p : Fail(msg) => Passing(p)
         /\ \A r, f, p : Passed(f) /\ Yield(r, f, p) => Passing(p)
<1>1. \A f, p, h : Passed(f) /\ Resume(f, p, h) => Passing(p)
  BY DEF Passing, Resume
<1>2. \A msg, p : Fail(msg) => Passing(p)
  BY DEF Passing, Fail
<1>3. ASSUME NEW r, NEW f, NEW p, Passed(f), Yield(r, f, p)
      PROVE  Passing(p)
  <2>1. \A q : Passed(Push(f, q))
    BY <1>3, PassedFrames
  <2> QED
    BY <1>1, <1>2, <1>3, <2>1 DEF Yield
<1> QED
  BY <1>1, <1>2, <1>3 DEF Step

\* An end of execute().
LEMMA EndedCursor ==
  ASSUME CursorInv, outcome' # "idle", code' = code, stack' = << >>
  PROVE  CursorInv'
<1>1. Linked(code, << >>)
  BY DEF Linked, Opened
<1> QED
  BY <1>1 DEF CursorInv

\* A step is passed once the cursor is where it stops.
LEMMA PassedCursor ==
  ASSUME TypeOK, CursorInv, NEW step, step \notin DOMAIN Repeats, NEW n, At(step, n),
         outcome' # "idle", Passing(StopsAt(code, Top.start, step, pos))
  PROVE  CursorInv'
<1>1. stack # << >> /\ Top.todo # << >> /\ Head(Top.todo) = step
  BY DEF At
<1>2. IsCode(code) /\ Sound(code, Top) /\ Rests(code, Top, pos)
  BY <1>1, TopSound
<1>3. /\ Formed(Tail(Top.todo)) /\ Tail(Top.todo) \in Seq(Words(Top.node, Top.ls, Top.body))
      /\ \E m, q \in Nat :
           /\ Reaches(code, Top.start, step, pos, m)
           /\ Leads(code, Top.start, Tail(Top.todo), m, q)
           /\ Top.ls \notin Jumping => q = NodeEnd(code, Top.start)
  BY <1>1, <1>2, RestsOn
<1>4. ASSUME NEW f, Passed(f), stack' = Append(Front(stack), f),
             pos' = StopsAt(code, Top.start, step, pos)
      PROVE  CursorInv'
  <2>1. Sound(code, f)
    BY <1>2, <1>3, <1>4 DEF Passed, Sound, Orderly
  <2>2. Rests(code, f, pos')
    BY <1>3, <1>4, StepReaches DEF Passed, Rests
  <2> QED
    BY <1>1, <1>4, <2>1, <2>2, ReplacedCursor DEF Passed, Passing
<1> QED
  BY <1>4, EndedCursor DEF Passing

-----------------------------------------------------------------------------
(* Actions that pass one step. *)

\* The steps that leave the cursor alone.
Standing ==
  { "list", "dictionary", "append", "insert", "unary", "binary", "compare", "subscript",
    "attribute", "decide", "decided", "undecided", "callable", "call", "augment", "load",
    "member", "bind", "iterate", "terminate" }

\* They are passed when the cursor has not moved.
LEMMA StandingCursor ==
  ASSUME TypeOK, CursorInv, outcome' # "idle",
         NEW step \in Standing, NEW n, At(step, n), Passing(pos)
  PROVE  CursorInv'
<1>1. /\ step \notin NodeSteps \cup FieldSteps \cup {"alias", "choose"}
      /\ step \notin DOMAIN Repeats
  BY CountsNames DEF Standing, NodeSteps, FieldSteps, Dropped
<1>2. StopsAt(code, Top.start, step, pos) = pos
  BY <1>1, Stops
<1> QED
  BY <1>1, <1>2, PassedCursor

\* The steps that read one field of their own.
LEMMA FieldCursor ==
  ASSUME TypeOK, CursorInv, outcome' # "idle",
         NEW step \in FieldSteps, NEW n, At(step, n), Passing(pos + 1)
  PROVE  CursorInv'
<1>1. step \notin DOMAIN Repeats
  BY CountsNames DEF FieldSteps, Dropped
<1>2. StopsAt(code, Top.start, step, pos) = pos + 1
  BY Stops
<1> QED
  BY <1>1, <1>2, PassedCursor

\* Where the names end that read_name and read_names accept.
LEMMA NamesEnd ==
  ASSUME TypeOK, WellFormed(code)
  PROVE  /\ IsName(pos) => NodeEnd(code, pos) = pos + 2
         /\ IsName(pos) \/ IsPair(pos) => NodeEnd(code, pos) = PastNames(pos)
<1>1. IsCode(code) /\ pos \in Nat
  BY DEF TypeOK
<1>2. IsName(pos) => NodeEnd(code, pos) = pos + 2
  BY <1>1, NameEnds DEF IsName, Reads, Has
<1>3. IsPair(pos) => NodeEnd(code, pos) = pos + 6
  <2> HAVE IsPair(pos)
  <2>1. NodeAt(code, "Tuple", pos) /\ Has(code, "u32", pos + 1) /\ code[pos + 1].val = 2
    BY DEF IsPair, Reads, Has, NodeAt
  <2>2. \A q \in {pos + 2, pos + 4} : Has(code, "node", q) /\ code[q].val \in {"Name", "String"}
    BY DEF IsPair, IsName, Reads, Has
  <2> QED
    BY <1>1, <2>1, <2>2, PairEnds
<1> QED
  BY <1>2, <1>3 DEF PastNames

\* The steps that read names.
LEMMA NamesCursor ==
  ASSUME TypeOK, CursorInv, outcome' # "idle",
         NEW step \in {"name", "names", "dropNames", "fetch", "target"}, NEW n, At(step, n),
         \/ \E msg : Fail(msg)
         \/ IsName(pos) /\ Passing(pos + 2)
         \/ (IsName(pos) \/ IsPair(pos)) /\ Passing(PastNames(pos))
  PROVE  CursorInv'
<1>1. step \notin DOMAIN Repeats /\ step \in NodeSteps
  BY CountsNames DEF NodeSteps
<1>2. StopsAt(code, Top.start, step, pos) = NodeEnd(code, pos)
  BY <1>1, Stops
<1>3. stack # << >>
  BY DEF At
<1>4. CASE \E msg : Fail(msg)
  BY <1>1, <1>2, <1>3, <1>4, PassingSteps, PassedCursor
<1>5. CASE ~ \E msg : Fail(msg)
  <2>1. Passing(NodeEnd(code, pos))
    BY <1>5, NamesEnd DEF CursorInv
  <2> QED
    BY <1>1, <1>2, <2>1, PassedCursor
<1> QED
  BY <1>4, <1>5

\* The actions that read an operator, a name, a string, a number or a value.
LEMMA FieldsKeepCursor ==
  ASSUME TypeOK, CursorInv, outcome' # "idle", Drop \/ ReadOp \/ Lookup \/ String \/ Integer
  PROVE  CursorInv'
<1>1. CASE Drop
  <2>1. PICK step \in DOMAIN Dropped : At(step, 0) /\ Step(Done(0), pos + 1)
    BY <1>1 DEF Drop
  <2>2. stack # << >> /\ step \in FieldSteps
    BY <2>1 DEF At, FieldSteps
  <2> QED
    BY <2>1, <2>2, PassedFrames, PassingSteps, FieldCursor
<1>2. CASE ReadOp
  <2>1. At("op", 0) /\ \E s : Step(Reading(Done(0), s), pos + 1)
    BY <1>2 DEF ReadOp
  <2>2. stack # << >> /\ "op" \in FieldSteps
    BY <2>1 DEF At, FieldSteps
  <2>3. \A s : Passed(Reading(Done(0), s))
    BY <2>2, PassedFrames
  <2>4. Passing(pos + 1)
    BY <2>1, <2>2, <2>3, PassingSteps
  <2> QED
    BY <2>1, <2>2, <2>4, FieldCursor
<1>3. CASE Lookup \/ String \/ Integer
  <2>1. PICK step \in {"lookup", "string", "integer"} :
          At(step, 0) /\ \E r : Yield(r, Done(0), pos + 1)
    BY <1>3 DEF Lookup, String, Integer
  <2>2. stack # << >> /\ step \in FieldSteps
    BY <2>1 DEF At, FieldSteps
  <2>3. Passing(pos + 1)
    BY <2>1, <2>2, PassedFrames, PassingSteps
  <2> QED
    BY <2>1, <2>2, <2>3, FieldCursor
<1> QED
  BY <1>1, <1>2, <1>3

\* The actions that read names.
LEMMA NamesKeepCursor ==
  ASSUME TypeOK, CursorInv, outcome' # "idle", ReadName \/ ReadNames \/ Fetch \/ Assign
  PROVE  CursorInv'
<1>1. CASE ReadName \/ ReadNames
  <2>1. PICK step \in {"name", "names", "dropNames"} :
          /\ At(step, 0)
          /\ \/ \E msg : Fail(msg)
             \/ /\ IsName(pos) \/ IsPair(pos)
                /\ \/ Step(Done(0), PastNames(pos))
                   \/ \E s : Step(Reading(Done(0), s), PastNames(pos))
    BY <1>1 DEF ReadName, ReadNames
  <2>2. stack # << >> /\ step \in {"name", "names", "dropNames", "fetch", "target"}
    BY <2>1 DEF At
  <2>3. Passed(Done(0)) /\ \A s : Passed(Reading(Done(0), s))
    BY <2>2, PassedFrames
  <2>4. \/ \E msg : Fail(msg)
        \/ (IsName(pos) \/ IsPair(pos)) /\ Passing(PastNames(pos))
    BY <2>1, <2>2, <2>3, PassingSteps
  <2> QED
    BY <2>1, <2>2, <2>4, NamesCursor
<1>2. CASE Fetch
  <2>1. /\ At("fetch", 0)
        /\ \/ \E msg : Fail(msg)
           \/ IsName(pos) /\ \E r : Yield(r, Done(0), pos + 2)
    BY <1>2 DEF Fetch
  <2>2. stack # << >>
    BY <2>1 DEF At
  <2>3. (\E msg : Fail(msg)) \/ (IsName(pos) /\ Passing(pos + 2))
    BY <2>1, <2>2, PassedFrames, PassingSteps
  <2> QED
    BY <2>1, <2>3, NamesCursor
<1>3. CASE Assign
  <2>1. /\ At("target", 1)
        /\ \/ \E msg : Fail(msg)
           \/ /\ IsName(pos) \/ IsPair(pos)
              /\ stack' = Append(Front(stack), Done(0))
              /\ pos' = PastNames(pos) /\ code' = code
    BY <1>3 DEF Assign
  <2>2. stack # << >>
    BY <2>1 DEF At
  <2>3. Passed(Done(0))
    BY <2>2, PassedFrames
  <2>4. (\E msg : Fail(msg)) \/ ((IsName(pos) \/ IsPair(pos)) /\ Passing(PastNames(pos)))
    BY <2>1, <2>3 DEF Passing
  <2> QED
    BY <2>1, <2>4, NamesCursor
<1> QED
  BY <1>1, <1>2, <1>3

\* The actions that make a value of the pointers at hand.
LEMMA ResultsKeepCursor ==
  ASSUME TypeOK, CursorInv, outcome' # "idle",
         \/ NewList \/ NewDictionary \/ Unary \/ Binary \/ Compare \/ Subscript \/ Attribute
         \/ Decided \/ Undecided \/ Call \/ Member \/ Iterate
  PROVE  CursorInv'
<1>1. PICK step \in Standing : (\E n : At(step, n)) /\ \E r, n : Yield(r, Done(n), pos)
  <2>1. CASE NewList \/ NewDictionary \/ Unary \/ Binary
    BY <2>1 DEF NewList, NewDictionary, Unary, Binary, Standing
  <2>2. CASE Compare \/ Subscript \/ Attribute
    BY <2>2 DEF Compare, Subscript, Attribute, Standing
  <2>3. CASE Decided \/ Undecided \/ Call
    BY <2>3 DEF Decided, Undecided, Call, Standing
  <2>4. CASE Member \/ Iterate
    BY <2>4 DEF Member, Iterate, Standing
  <2> QED
    BY <2>1, <2>2, <2>3, <2>4
<1>2. stack # << >>
  BY <1>1 DEF At
<1>3. Passing(pos)
  BY <1>1, <1>2, PassedFrames, PassingSteps
<1> QED
  BY <1>1, <1>3, StandingCursor

\* The actions that write to an object, to a scope or to the loaded modules.
LEMMA WritesKeepCursor ==
  ASSUME TypeOK, CursorInv, outcome' # "idle",
         \/ AppendElement \/ InsertEntry \/ CheckCallable \/ Augment
         \/ Load \/ BindImport \/ Terminate
  PROVE  CursorInv'
<1>1. CASE AppendElement \/ InsertEntry \/ CheckCallable \/ Augment
  <2>1. PICK step \in Standing :
          /\ \E n : At(step, n)
          /\ \/ \E msg : Fail(msg)
             \/ \E n, h : Resume(Done(n), pos, h)
             \/ Step(Done(0), pos)
    <3>1. CASE AppendElement \/ InsertEntry
      BY <3>1 DEF AppendElement, InsertEntry, Standing
    <3>2. CASE CheckCallable \/ Augment
      BY <3>2 DEF CheckCallable, Augment, Standing
    <3> QED
      BY <1>1, <3>1, <3>2
  <2>2. stack # << >>
    BY <2>1 DEF At
  <2>3. Passing(pos)
    BY <2>1, <2>2, PassedFrames, PassingSteps
  <2> QED
    BY <2>1, <2>3, StandingCursor
<1>2. CASE Load
  <2>1. /\ At("load", 1)
        /\ \/ \E msg : Fail(msg)
           \/ \E r : Yield(r, Done(0), pos)
           \/ stack' = Append(Front(stack), Push(Done(0), brk + 1)) /\ UNCHANGED <<code, pos>>
    BY <1>2 DEF Load
  <2>2. stack # << >> /\ "load" \in Standing
    BY <2>1 DEF At, Standing
  <2>3. Passed(Done(0)) /\ Passed(Push(Done(0), brk + 1))
    BY <2>2, PassedFrames
  <2>4. Passing(pos)
    BY <2>1, <2>2, <2>3, PassingSteps DEF Passing
  <2> QED
    BY <2>1, <2>2, <2>4, StandingCursor
<1>3. CASE BindImport \/ Terminate
  <2>1. PICK step \in {"bind", "terminate"} :
          /\ \E n : At(step, n)
          /\ stack' = Append(Front(stack), Done(0)) /\ UNCHANGED <<code, pos>>
    BY <1>3 DEF BindImport, Terminate
  <2>2. stack # << >> /\ step \in Standing
    BY <2>1 DEF At, Standing
  <2>3. Passing(pos)
    BY <2>1, <2>2, PassedFrames DEF Passing
  <2> QED
    BY <2>1, <2>2, <2>3, StandingCursor
<1> QED
  BY <1>1, <1>2, <1>3

\* NodeType::Alias.
LEMMA MakeAliasKeepsCursor ==
  ASSUME TypeOK, CursorInv, outcome' # "idle", MakeAlias
  PROVE  CursorInv'
<1>1. At("alias", 0) /\ \E r : Yield(r, Done(0), pos + 2)
  BY DEF MakeAlias
<1>2. stack # << >> /\ "alias" \notin DOMAIN Repeats
  BY <1>1, CountsNames DEF At
<1>3. StopsAt(code, Top.start, "alias", pos) = pos + 2
  BY Stops
<1> QED
  BY <1>1, <1>2, <1>3, PassedFrames, PassingSteps, PassedCursor

-----------------------------------------------------------------------------
(* Actions that have other steps to do instead. *)

\* A frame like the innermost one, but for what it still has to do.
Alike(f) ==
  /\ DOMAIN f = DOMAIN Top
  /\ f.node = Top.node /\ f.start = Top.start /\ f.ls = Top.ls /\ f.body = Top.body

\* Its steps are in order, and lead from the cursor to where the node ends.
LEMMA AlikeCursor ==
  ASSUME TypeOK, CursorInv, stack # << >>, outcome' # "idle", code' = code,
         NEW f, Alike(f), stack' = Append(Front(stack), f),
         Formed(f.todo), f.todo \in Seq(Words(Top.node, Top.ls, Top.body)),
         NEW q, Leads(code, Top.start, f.todo, pos', q),
         Top.ls \notin Jumping => q = NodeEnd(code, Top.start)
  PROVE  CursorInv'
<1>1. Sound(code, Top)
  BY TopSound
<1>2. Sound(code, f)
  BY <1>1 DEF Sound, Orderly, Alike
<1>3. Rests(code, f, pos')
  BY DEF Rests, Alike
<1> QED
  BY <1>2, <1>3, ReplacedCursor DEF Alike

\* The constructors of frames make such frames.
LEMMA AlikeFrames ==
  ASSUME TypeOK, stack # << >>
  PROVE  /\ \A n : Alike(Done(n)) /\ Done(n).todo = Tail(Top.todo)
         /\ \A n, s : Alike(Then(Done(n), s)) /\ Then(Done(n), s).todo = s \o Tail(Top.todo)
         /\ \A f, p : Alike(f) => Alike(Push(f, p)) /\ Push(f, p).todo = f.todo
         /\ \A n, s : Alike([Done(n) EXCEPT !.todo = s]) /\ [Done(n) EXCEPT !.todo = s].todo = s
<1>1. DOMAIN Top = {"node", "start", "ls", "body", "todo", "vals", "rd"}
  BY TopType DEF Frame
<1>2. \A n : Alike(Done(n)) /\ Done(n).todo = Tail(Top.todo)
  BY <1>1 DEF Alike, Done
<1>3. \A f, s : Alike(f) => Alike(Then(f, s)) /\ Then(f, s).todo = s \o f.todo
  BY <1>1 DEF Alike, Then
<1>4. \A n, s : Alike(Then(Done(n), s)) /\ Then(Done(n), s).todo = s \o Tail(Top.todo)
  BY <1>2, <1>3
<1>5. \A f, p : Alike(f) => Alike(Push(f, p)) /\ Push(f, p).todo = f.todo
  BY <1>1 DEF Alike, Push
<1>6. \A f, s : Alike(f) => Alike([f EXCEPT !.todo = s]) /\ [f EXCEPT !.todo = s].todo = s
  BY <1>1 DEF Alike
<1> QED
  BY <1>2, <1>4, <1>5, <1>6

\* skip_next unfolds to the steps of its case, ...
LEMMA SkipKeepsCursor ==
  ASSUME TypeOK, CursorInv, outcome' # "idle", Skip
  PROVE  CursorInv'
<1> DEFINE type == code[pos].val
           s == Skipper[type]
           t == Tail(Top.todo)
           W == Words(Top.node, Top.ls, Top.body)
<1>1. PICK step \in {"skip", "stmt"} : At(step, 0)
  BY DEF Skip
<1>2. stack # << >> /\ Top.todo # << >> /\ Head(Top.todo) = step
  BY <1>1 DEF At
<1>3. IsCode(code) /\ WellFormed(code) /\ Sound(code, Top) /\ Rests(code, Top, pos) /\ pos \in Nat
  BY <1>2, TopSound
<1>4. PICK m, q \in Nat :
        /\ Reaches(code, Top.start, step, pos, m)
        /\ Leads(code, Top.start, t, m, q)
        /\ Top.ls \notin Jumping => q = NodeEnd(code, Top.start)
  BY <1>2, <1>3, RestsOn
<1>5. Formed(t) /\ t \in Seq(W)
  BY <1>2, <1>3, RestsOn
<1>6. m = NodeEnd(code, pos)
  <2>1. step \in NodeSteps /\ step \notin DOMAIN Repeats
    BY CountsNames DEF NodeSteps
  <2> QED
    BY <1>4, <2>1, StepReaches, Stops
<1>7. Has(code, "node", pos)
  BY DEF Skip, Reads, Has
<1> HIDE DEF t
<1>8. CASE type \notin DOMAIN Skipper
  <2>1. \E msg : Fail(msg)
    BY <1>8 DEF Skip
  <2> QED
    BY <2>1, EndedCursor DEF Fail
<1>9. CASE type \in DOMAIN Skipper
  <2>1. Step(Then(Done(0), s), pos + 1)
    BY <1>9 DEF Skip
  <2>2. s \in Seq(SkipSteps) /\ SkipSteps \subseteq Simple /\ SkipSteps \subseteq W
    BY <1>9, SkipperSteps, SkipWords
  <2>3. Leads(code, Top.start, s, pos + 1, NodeEnd(code, pos))
    BY <1>3, <1>7, <1>9, SkipperLeads
  <2> HIDE DEF s, W
  <2>4. s \in Seq(Simple) /\ s \in Seq(W)
    BY <2>2, SeqMonotonic
  <2>5. Formed(s \o t) /\ s \o t \in Seq(W)
    BY <1>5, <2>4, FormedThen, ConcatProperties
  <2>6. Leads(code, Top.start, s \o t, pos + 1, q)
    BY <1>4, <1>5, <1>6, <2>3, <2>4, LeadsJoin
  <2>7. /\ stack' = Append(Front(stack), Then(Done(0), s))
        /\ pos' = pos + 1 /\ code' = code
    BY <2>1 DEF Step, Resume
  <2>8. Alike(Then(Done(0), s)) /\ Then(Done(0), s).todo = s \o t
    BY <1>2, AlikeFrames DEF t
  <2> QED
    BY <1>2, <1>4, <2>5, <2>6, <2>7, <2>8, AlikeCursor DEF W
<1> QED
  BY <1>8, <1>9

\* ... and a counted step to as many as it reads.
LEMMA CountKeepsCursor ==
  ASSUME TypeOK, CursorInv, outcome' # "idle", Count
  PROVE  CursorInv'
<1> DEFINE t == Tail(Top.todo)
           W == Words(Top.node, Top.ls, Top.body)
<1>1. PICK step \in DOMAIN Repeats :
        /\ At(step, 0) /\ Reads("u32", pos)
        /\ Step(Then(Done(0), Times(code[pos].val, Repeats[step])), pos + 1)
  BY DEF Count
<1> DEFINE k == code[pos].val
           s == Times(k, Repeats[step])
<1>2. stack # << >> /\ Top.todo # << >> /\ Head(Top.todo) = step
  BY <1>1 DEF At
<1>3. IsCode(code) /\ WellFormed(code) /\ Sound(code, Top) /\ Rests(code, Top, pos) /\ pos \in Nat
  BY <1>2, TopSound
<1>4. PICK m, q \in Nat :
        /\ Reaches(code, Top.start, step, pos, m)
        /\ Leads(code, Top.start, t, m, q)
        /\ Top.ls \notin Jumping => q = NodeEnd(code, Top.start)
  BY <1>2, <1>3, RestsOn
<1>5. t \in Seq(W) /\ step \in W
  BY <1>2, <1>3, RestsOn
<1>6. Leads(code, Top.start, s, pos + 1, m)
  BY <1>3, <1>4, CountLeads DEF Counted
<1>7. k \in Nat /\ k \in Int
  BY <1>1, FieldType
<1>8. s \in Seq(W)
  BY <1>5, <1>7, RepeatsWords, TimesType
<1>9. Formed(s \o t)
  BY <1>2, <1>3, <1>7, CountFormed DEF Sound, Orderly
<1>10. /\ stack' = Append(Front(stack), Then(Done(0), s))
       /\ pos' = pos + 1 /\ code' = code
  BY <1>1 DEF Step, Resume
<1>11. Alike(Then(Done(0), s)) /\ Then(Done(0), s).todo = s \o t
  BY <1>2, AlikeFrames
<1> HIDE DEF s, t, W
<1>12. s \o t \in Seq(W)
  BY <1>5, <1>8, ConcatProperties
<1>13. Leads(code, Top.start, s \o t, pos + 1, q)
  BY <1>4, <1>5, <1>6, <1>8, LeadsJoin
<1> QED
  BY <1>2, <1>4, <1>9, <1>10, <1>11, <1>12, <1>13, AlikeCursor DEF W

\* NodeType::BoolOp: the operands that are left are evaluated, or skipped.
LEMMA DecideKeepsCursor ==
  ASSUME TypeOK, CursorInv, outcome' # "idle", Decide
  PROVE  CursorInv'
<1> DEFINE left == (Len(Top.todo) - 2) \div 2
           s == Times(left, <<"skip">>) \o <<"decided">>
           W == Words(Top.node, Top.ls, Top.body)
<1>1. /\ At("decide", 1)
      /\ \/ \E msg : Fail(msg)
         \/ Step(Done(1), pos)
         \/ Step([Done(1) EXCEPT !.todo = s], pos)
  BY DEF Decide
<1>2. stack # << >> /\ Top.todo # << >> /\ Head(Top.todo) = "decide"
  BY <1>1 DEF At
<1>3. IsCode(code) /\ Sound(code, Top) /\ Rests(code, Top, pos) /\ pos \in Nat
  BY <1>2, TopSound
<1>4. CASE (\E msg : Fail(msg)) \/ Step(Done(1), pos)
  <2>1. Passing(pos)
    BY <1>2, <1>4, PassedFrames, PassingSteps
  <2> QED
    BY <1>1, <2>1, StandingCursor DEF Standing
<1>5. CASE Step([Done(1) EXCEPT !.todo = s], pos)
  <2>1. PICK k \in Nat \ {0} : Top.todo = Decisions(k)
    BY <1>2, <1>3, KeyedShape DEF Sound, Orderly
  <2>2. left = k - 1
    <3>1. Len(Top.todo) = 2 * k
      BY <2>1, DecisionsType
    <3> QED
      BY <3>1
  <2>3. PICK q : /\ Leads(code, Top.start, Decisions(k), pos, q)
                 /\ Top.ls \notin Jumping => q = NodeEnd(code, Top.start)
    BY <1>3, <2>1 DEF Rests
  <2>4. Leads(code, Top.start, s, pos, q)
    BY <2>2, <2>3, DecidedLeads
  <2>5. "decide" \in W
    BY <1>2, <1>3, RestsOn
  <2>6. "skip" \in W /\ "decided" \in W /\ "skip" \in Simple /\ "decided" \in Simple
    <3>1. Top.ls \notin Listing /\ Top.body # "Break"
      BY <2>5 DEF Words, SkipSteps, Dropped
    <3>2. "decided" \in Steps \ StatementSteps /\ "skip" \in Steps \ StatementSteps
      BY DEF Steps, StatementSteps
    <3>3. "skip" \in Simple /\ "decided" \in Simple
      BY <3>2 DEF Simple, Keyed
    <3> QED
      BY <3>1, <3>2, <3>3, FreeWords
  <2>7. s \in Seq(W) /\ s \in Seq(Simple)
    <3> HIDE DEF W
    <3>1. left \in Int
      BY <2>2
    <3>2. ASSUME NEW S, "skip" \in S, "decided" \in S
          PROVE  s \in Seq(S)
      <4>1. <<"skip">> \in Seq(S) /\ <<"decided">> \in Seq(S)
        BY <3>2
      <4> HIDE DEF left
      <4>2. Times(left, <<"skip">>) \in Seq(S)
        BY <3>1, <4>1, TimesType
      <4> QED
        BY <4>1, <4>2, ConcatProperties
    <3> QED
      BY <2>6, <3>2
  <2>8. Formed(s)
    BY <2>7, FormedParts
  <2>9. /\ stack' = Append(Front(stack), [Done(1) EXCEPT !.todo = s])
        /\ pos' = pos /\ code' = code
    BY <1>5 DEF Step, Resume
  <2> HIDE DEF s
  <2>10. Alike([Done(1) EXCEPT !.todo = s]) /\ [Done(1) EXCEPT !.todo = s].todo = s
    BY <1>2, AlikeFrames
  <2> QED
    BY <1>2, <2>3, <2>4, <2>7, <2>8, <2>9, <2>10, AlikeCursor
<1> QED
  BY <1>1, <1>4, <1>5

-----------------------------------------------------------------------------
(* Branches and loops. *)

\* The last step of a conditional or of a loop.
LEMMA LastStep ==
  ASSUME TypeOK, CursorInv, NEW step \in { "choose", "while", "next", "again" },
         NEW n, At(step, n)
  PROVE  /\ stack # << >> /\ Top.todo = <<step>> /\ Tail(Top.todo) = << >>
         /\ pos \in Nat /\ IsCode(code)
         /\ Legible(code, Top.start, step, pos)
         /\ NodeEnd(code, Top.start) = StopsAt(code, Top.start, step, pos)
         /\ NodeEnd(code, Top.start) \in Nat
         /\ Top.node \notin ExpressionTypes /\ Top.ls \notin Listing
         /\ step # "again" => Top.body # "Break"
<1>1. stack # << >> /\ Top.todo # << >> /\ Head(Top.todo) = step
  BY DEF At
<1>2. IsCode(code) /\ Sound(code, Top) /\ Rests(code, Top, pos) /\ pos \in Nat
  BY <1>1, TopSound
<1>3. Top.todo = <<step>> /\ Tail(Top.todo) = << >>
  <2>1. Top.todo = <<step>>
    BY <1>1, <1>2, KeyedShape DEF Sound, Orderly, Alone
  <2>2. Tail(<<step>>) = << >>
    OBVIOUS
  <2> QED
    BY <2>1, <2>2
<1>4. step \in Words(Top.node, Top.ls, Top.body) /\ Legible(code, Top.start, step, pos)
  BY CountsNames, TopLegible
<1>5. Top.node \notin ExpressionTypes /\ Top.ls \notin Listing /\ (step # "again" => Top.body # "Break")
  <2>1. step \in StatementSteps /\ step \notin SkipSteps /\ step \notin {"stmts", "stmt"}
    BY DEF StatementSteps, SkipSteps, Dropped
  <2> QED
    BY <1>4, <2>1 DEF Words
<1>6. PICK m, q \in Nat :
        /\ Reaches(code, Top.start, step, pos, m)
        /\ Leads(code, Top.start, << >>, m, q)
        /\ Top.ls \notin Jumping => q = NodeEnd(code, Top.start)
  BY <1>1, <1>2, <1>3, RestsOn
<1>7. m = q /\ q = NodeEnd(code, Top.start)
  BY <1>5, <1>6, LeadsNowhere DEF Listing, Jumping
<1>8. m = StopsAt(code, Top.start, step, pos)
  BY <1>6, CountsNames, StepReaches
<1> QED
  BY <1>1, <1>2, <1>3, <1>4, <1>5, <1>7, <1>8

\* Another way to the same end.
LEMMA TurnedCursor ==
  ASSUME TypeOK, CursorInv, outcome' # "idle", code' = code,
         NEW step \in { "choose", "while", "next", "again" }, NEW n, At(step, n),
         NEW f, Alike(f), stack' = Append(Front(stack), f),
         Formed(f.todo), f.todo \in Seq(Steps \ {"break"}),
         step = "again" => Top.body # "Break" \/ f.todo = <<"skip">>,
         Leads(code, Top.start, f.todo, pos', NodeEnd(code, Top.start))
  PROVE  CursorInv'
<1> DEFINE W == Words(Top.node, Top.ls, Top.body)
<1>1. stack # << >> /\ Top.node \notin ExpressionTypes /\ Top.ls \notin Listing
      /\ (step # "again" => Top.body # "Break")
  BY LastStep
<1>2. CASE Top.body # "Break"
  <2>1. Steps \ {"break"} \subseteq W
    BY <1>1, <1>2, FreeWords
  <2> HIDE DEF W
  <2>2. f.todo \in Seq(W)
    BY <2>1, SeqMonotonic
  <2> QED
    BY <1>1, <2>2, AlikeCursor DEF W
<1>3. CASE f.todo = <<"skip">>
  <2>1. "skip" \in W
    BY SkipWords DEF SkipSteps
  <2> HIDE DEF W
  <2>2. f.todo \in Seq(W)
    BY <1>3, <2>1
  <2> QED
    BY <1>1, <2>2, AlikeCursor DEF W
<1> QED
  BY <1>1, <1>2, <1>3

\* What is before a node is passed by skipping it, or by running it.
LEMMA NodeReaches ==
  ASSUME NEW c, NEW n, NEW p, Has(c, "node", p)
  PROVE  /\ Reaches(c, n, "skip", p, NodeEnd(c, p))
         /\ (InWhile(c, n) => InWhile(c, p)) => Reaches(c, n, "branch", p, NodeEnd(c, p))
<1>1. "skip" \notin DOMAIN Repeats /\ "branch" \notin DOMAIN Repeats
      /\ "skip" \in NodeSteps /\ "branch" \in NodeSteps
  BY CountsNames DEF NodeSteps
<1>2. FieldRead("branch") = "node"
  BY CountsNames DEF FieldRead, ChildSteps, Dropped
<1>3. Legible(c, n, "branch", p) <=> (InWhile(c, n) => InWhile(c, p))
  BY <1>2 DEF Legible
<1>4. Reaches(c, n, "skip", p, NodeEnd(c, p))
  BY DecisionStops
<1> QED
  BY <1>1, <1>3, <1>4, StepReaches, Stops

\* If and IfElse: one branch is run, the other one is skipped.
LEMMA ChooseKeepsCursor ==
  ASSUME TypeOK, CursorInv, outcome' # "idle", Choose
  PROVE  CursorInv'
<1> DEFINE n == Top.start
           mid == NodeEnd(code, pos)
           f == Done(0)
<1>1. At("choose", 1)
  BY DEF Choose
<1>2. /\ stack # << >> /\ Tail(Top.todo) = << >> /\ pos \in Nat /\ IsCode(code)
      /\ Legible(code, n, "choose", pos)
      /\ NodeEnd(code, n) = StopsAt(code, n, "choose", pos) /\ NodeEnd(code, n) \in Nat
  BY <1>1, LastStep
<1>3. NodeAt(code, Top.node, n)
  BY <1>2, TopSound
<1>4. code[n].val = Top.node
  BY <1>3 DEF NodeAt
<1>5. mid \in Nat
  BY <1>2, NodeEndType
<1>6. Has(code, "node", pos) /\ (InWhile(code, n) => InWhile(code, pos))
  BY <1>2 DEF Legible
<1>7. Top.node # "If" => Has(code, "node", mid) /\ (InWhile(code, n) => InWhile(code, mid))
  BY <1>2, <1>4 DEF Legible
<1>8. NodeEnd(code, n) = IF Top.node = "If" THEN mid ELSE NodeEnd(code, mid)
  BY <1>2, <1>4, Stops
<1> HIDE DEF n, mid
<1>9. /\ Reaches(code, n, "skip", pos, mid) /\ Reaches(code, n, "branch", pos, mid)
      /\ Top.node # "If" => /\ Reaches(code, n, "skip", mid, NodeEnd(code, n))
                            /\ Reaches(code, n, "branch", mid, NodeEnd(code, n))
  BY <1>6, <1>7, <1>8, NodeReaches DEF mid
<1> DEFINE one == { <<"branch">>, <<"skip">> }
           two == { <<"branch", "skip">>, <<"skip", "branch">> }
<1>10. ASSUME NEW s, IF Top.node = "If" THEN s \in one ELSE s \in two
       PROVE  Leads(code, n, s, pos, NodeEnd(code, n))
  BY <1>2, <1>5, <1>8, <1>9, <1>10, LeadsOnce, LeadsTwice
<1>11. \A s \in one \cup two :
         s \o << >> = s /\ Formed(s) /\ s \in Seq(Steps \ {"break"})
  <2>1. "skip" \in Simple /\ "skip" \in Steps \ {"break"} /\ "branch" \in Steps \ {"break"}
    BY DEF Simple, Steps, ChildSteps, Keyed
  <2>2. \A s \in one \cup two : s \in Seq(Steps \ {"break"})
    <3> DEFINE W == Steps \ {"break"}
    <3>1. "skip" \in W /\ "branch" \in W
      BY <2>1
    <3> HIDE DEF W
    <3>2. /\ <<"branch">> \in Seq(W) /\ <<"skip">> \in Seq(W)
          /\ <<"branch", "skip">> \in Seq(W) /\ <<"skip", "branch">> \in Seq(W)
      BY <3>1, ShortSeqs
    <3> QED
      BY <3>2 DEF W
  <2>3. \A s \in one \cup two : s \o << >> = s
    BY <2>2, ConcatEmptySeq
  <2>4. Formed(<<"branch">>) /\ Formed(<<"branch", "skip">>)
    BY FormedParts DEF Closing, Alone
  <2>5. Formed(<<"skip">>)
    BY <2>1, FormedParts, ShortSeqs
  <2>6. Formed(<<"skip", "branch">>)
    <3>1. <<"skip", "branch">> = <<"skip">> \o <<"branch">> /\ <<"skip">> \in Seq(Simple)
      BY <2>1, Splits, ShortSeqs
    <3> QED
      BY <2>4, <3>1, FormedThen
  <2> QED
    BY <2>2, <2>3, <2>4, <2>5, <2>6
<1>12. \/ \E msg : Fail(msg)
       \/ \E s : /\ IF Top.node = "If" THEN s \in one ELSE s \in two
                 /\ Step(Then(f, s), pos) \/ Step(Push(Then(f, s), Null), pos)
  BY DEF Choose
<1>13. CASE \E msg : Fail(msg)
  BY <1>13, EndedCursor DEF Fail
<1>14. ASSUME NEW s, IF Top.node = "If" THEN s \in one ELSE s \in two,
              Step(Then(f, s), pos) \/ Step(Push(Then(f, s), Null), pos)
       PROVE  CursorInv'
  <2>1. s \o << >> = s /\ Formed(s) /\ s \in Seq(Steps \ {"break"})
    BY <1>11, <1>14
  <2>2. /\ Alike(Then(f, s)) /\ Then(f, s).todo = s
        /\ Alike(Push(Then(f, s), Null)) /\ Push(Then(f, s), Null).todo = s
    <3>1. Alike(Then(f, s)) /\ Then(f, s).todo = s \o Tail(Top.todo)
      BY <1>2, AlikeFrames
    <3>2. s \o Tail(Top.todo) = s
      BY <1>2, <2>1
    <3> HIDE DEF f
    <3>3. \A g, p : Alike(g) => Alike(Push(g, p)) /\ Push(g, p).todo = g.todo
      BY <1>2, AlikeFrames
    <3> QED
      BY <3>1, <3>2, <3>3
  <2>3. Leads(code, n, s, pos, NodeEnd(code, n))
    BY <1>10, <1>14
  <2>4. PICK g : Alike(g) /\ g.todo = s /\ stack' = Append(Front(stack), g) /\ pos' = pos /\ code' = code
    <3> HIDE DEF f
    <3> QED
      BY <1>14, <2>2 DEF Step, Resume
  <2> QED
    BY <1>1, <2>1, <2>3, <2>4, TurnedCursor DEF n
<1> QED
  BY <1>12, <1>13, <1>14

\* Where the body of a loop is: it is run, or skipped.
LEMMA BodyReaches ==
  ASSUME NEW c, NEW n, NEW p, NEW step \in { "while", "next", "again" }, Legible(c, n, step, p)
  PROVE  /\ Has(c, "node", p) /\ StopsAt(c, n, step, p) = NodeEnd(c, p)
         /\ Reaches(c, n, "skip", p, NodeEnd(c, p))
         /\ Reaches(c, n, "next", p, NodeEnd(c, p))
         /\ Reaches(c, n, "again", p, NodeEnd(c, p))
         /\ Reaches(c, n, "body", p, p)
<1>1. NodeAt(c, "StatementList", p) /\ (c[n].val = "WhileLoop" => InWhile(c, p))
  BY DEF Legible
<1>2. Has(c, "node", p)
  BY <1>1 DEF NodeAt
<1>3. \A s \in { "while", "next", "body", "again" } :
        s \notin DOMAIN Repeats /\ FieldRead(s) \in {"node", "any"}
  BY CountsNames DEF FieldRead, ChildSteps, Dropped
<1>4. \A s \in { "while", "next", "body", "again" } : Legible(c, n, s, p)
  BY <1>1, <1>2, <1>3 DEF Legible
<1>5. /\ \A s \in { "while", "next", "again" } : s \in NodeSteps
      /\ "body" \notin NodeSteps \cup FieldSteps \cup {"alias", "choose"}
  BY DEF NodeSteps, FieldSteps, Dropped
<1>6. \A s \in { "while", "next", "again" } : StopsAt(c, n, s, p) = NodeEnd(c, p)
  BY <1>5, Stops
<1>7. StopsAt(c, n, "body", p) = p
  BY <1>5, Stops
<1> QED
  BY <1>2, <1>3, <1>4, <1>6, <1>7, StepReaches, NodeReaches

\* A loop that is at its body opens it, or skips it and ends.
LEMMA LoopCursor ==
  ASSUME TypeOK, CursorInv, outcome' # "idle", code' = code, pos' = pos,
         NEW step \in { "while", "next" }, NEW n, At(step, n),
         NEW f, Alike(f), stack' = Append(Front(stack), f),
         f.todo \in { <<"body", "again">> \o Tail(Top.todo), <<"skip">> \o Tail(Top.todo) }
  PROVE  CursorInv'
<1>1. /\ stack # << >> /\ Tail(Top.todo) = << >> /\ pos \in Nat
      /\ Legible(code, Top.start, step, pos)
      /\ NodeEnd(code, Top.start) = StopsAt(code, Top.start, step, pos)
      /\ NodeEnd(code, Top.start) \in Nat
  BY LastStep
<1>2. /\ Reaches(code, Top.start, "skip", pos, NodeEnd(code, Top.start))
      /\ Reaches(code, Top.start, "body", pos, pos)
      /\ Reaches(code, Top.start, "again", pos, NodeEnd(code, Top.start))
  BY <1>1, BodyReaches
<1>3. "skip" \in Simple /\ {"skip", "body", "again"} \subseteq Steps \ {"break"}
  BY DEF Simple, Steps, ChildSteps, Keyed
<1>4. <<"body", "again">> \in Seq(Steps \ {"break"}) /\ <<"skip">> \in Seq(Steps \ {"break"})
  BY <1>3
<1>5. /\ <<"body", "again">> \o << >> = <<"body", "again">>
      /\ <<"skip">> \o << >> = <<"skip">>
  BY <1>4, ConcatEmptySeq
<1>6. Formed(<<"body", "again">>) /\ Formed(<<"skip">>)
  BY <1>3, FormedParts, ShortSeqs DEF Closing
<1>7. /\ Leads(code, Top.start, <<"body", "again">>, pos, NodeEnd(code, Top.start))
      /\ Leads(code, Top.start, <<"skip">>, pos, NodeEnd(code, Top.start))
  BY <1>1, <1>2, LeadsOnce, LeadsTwice
<1>8. f.todo \in { <<"body", "again">>, <<"skip">> }
  BY <1>1, <1>5
<1>9. /\ Formed(f.todo) /\ f.todo \in Seq(Steps \ {"break"})
      /\ Leads(code, Top.start, f.todo, pos', NodeEnd(code, Top.start))
  BY <1>4, <1>6, <1>7, <1>8
<1>10. step \in { "choose", "while", "next", "again" } /\ step # "again"
  OBVIOUS
<1> QED
  BY <1>9, <1>10, TurnedCursor

\* NodeType::WhileLoop, after its condition.
LEMMA WhileKeepsCursor ==
  ASSUME TypeOK, CursorInv, outcome' # "idle", While
  PROVE  CursorInv'
<1>1. /\ At("while", 1)
      /\ \/ OpenBody(Done(0))
         \/ Step(Then(Done(0), <<"skip">>), pos)
  BY DEF While
<1>2. stack # << >>
  BY <1>1 DEF At
<1>3. \A s : Alike(Then(Done(0), s)) /\ Then(Done(0), s).todo = s \o Tail(Top.todo)
  BY <1>2, AlikeFrames
<1>4. \E s \in { <<"body", "again">>, <<"skip">> } :
        stack' = Append(Front(stack), Then(Done(0), s)) /\ code' = code /\ pos' = pos
  BY <1>1 DEF OpenBody, Step, Resume
<1> QED
  BY <1>1, <1>3, <1>4, LoopCursor

\* The head of NodeType::ForLoop.
LEMMA AdvanceKeepsCursor ==
  ASSUME TypeOK, CursorInv, outcome' # "idle", Advance
  PROVE  CursorInv'
<1>1. At("next", 2)
  BY DEF Advance
<1>2. stack # << >>
  BY <1>1 DEF At
<1>3. \/ Stop \/ \E msg : Fail(msg)
      \/ \E fresh, p, it : Bind(fresh, p, it)
  BY DEF Advance, NextOfRange, NextOfList, NextOfItems, NextOfDictionary
<1>4. \A s : Alike(Then(Done(0), s)) /\ Then(Done(0), s).todo = s \o Tail(Top.todo)
  BY <1>2, AlikeFrames
<1>5. CASE Stop
  <2>1. stack' = Append(Front(stack), Then(Done(0), <<"skip">>)) /\ code' = code /\ pos' = pos
    BY <1>5 DEF Stop, Step, Resume
  <2> QED
    BY <1>1, <1>4, <2>1, LoopCursor
<1>6. CASE \E msg : Fail(msg)
  BY <1>6, EndedCursor DEF Fail
<1>7. ASSUME NEW fresh, NEW p, NEW it, Bind(fresh, p, it)
      PROVE  CursorInv'
  <2> DEFINE g == Then(Done(0), <<"body", "again">>)
             f == Push(g, p)
  <2>1. \/ \E msg : Fail(msg)
        \/ stack' = Append(Front(stack), f) /\ code' = code /\ pos' = pos
    BY <1>7 DEF Bind
  <2>2. Alike(g) /\ g.todo = <<"body", "again">> \o Tail(Top.todo)
    BY <1>4
  <2> HIDE DEF g
  <2>3. Alike(f) /\ f.todo = g.todo
    BY <1>2, <2>2, AlikeFrames
  <2> HIDE DEF f
  <2> QED
    BY <1>1, <1>6, <2>1, <2>2, <2>3, LoopCursor
<1> QED
  BY <1>3, <1>5, <1>6, <1>7

\* The end of an iteration.
LEMMA AgainKeepsCursor ==
  ASSUME TypeOK, CursorInv, outcome' # "idle", Again
  PROVE  CursorInv'
<1> DEFINE s == CASE Top.node = "WhileLoop" /\ Top.body = "Break" -> << >>
                  [] Top.node = "WhileLoop" /\ Top.body # "Break" -> Handler["WhileLoop"]
                  [] Top.node # "WhileLoop" /\ Top.body = "Break" -> <<"skip">>
                  [] OTHER -> <<"next">>
           f == [Done(1) EXCEPT !.todo = s]
<1>1. /\ At("again", 1) /\ stack' = Append(Front(stack), f) /\ code' = code
      /\ pos' = IF Top.node = "WhileLoop" /\ Top.body # "Break" THEN Top.start + 1 ELSE pos
  BY DEF Again
<1>2. /\ stack # << >> /\ pos \in Nat
      /\ Legible(code, Top.start, "again", pos)
      /\ NodeEnd(code, Top.start) = StopsAt(code, Top.start, "again", pos)
      /\ NodeEnd(code, Top.start) \in Nat
  BY <1>1, LastStep
<1>3. /\ Sound(code, Top) /\ WellFormed(code) /\ NodeAt(code, Top.node, Top.start)
  BY <1>2, TopSound
<1>4. ~ (Top.node = "WhileLoop" /\ Top.body = "Break")
  BY <1>3 DEF Sound
<1>5. Alike(f) /\ f.todo = s
  <2> HIDE DEF s
  <2> QED
    BY <1>2, AlikeFrames
<1>6. /\ Reaches(code, Top.start, "skip", pos, NodeEnd(code, Top.start))
      /\ Reaches(code, Top.start, "next", pos, NodeEnd(code, Top.start))
  BY <1>2, BodyReaches
<1>7. CASE Top.node = "WhileLoop"
  <2>1. s = Handler["WhileLoop"] /\ pos' = Top.start + 1 /\ Top.body # "Break"
    BY <1>1, <1>4, <1>7
  <2>2. "WhileLoop" \in DOMAIN Handler /\ Handler["WhileLoop"] = <<"expr", "while">>
    BY DEF Handler
  <2>3. Formed(s)
    BY <2>1, <2>2, HandlerFormed
  <2>4. s \in Seq(Steps \ {"break"})
    <3>1. "expr" \in Steps \ {"break"} /\ "while" \in Steps \ {"break"}
      BY DEF Steps, ChildSteps
    <3>2. <<"expr", "while">> \in Seq(Steps \ {"break"})
      BY <3>1
    <3> QED
      BY <2>1, <2>2, <3>2
  <2>5. Leads(code, Top.start, s, pos', NodeEnd(code, Top.start))
    <3>1. Has(code, "node", Top.start) /\ code[Top.start].val = "WhileLoop"
      BY <1>3, <1>7 DEF NodeAt
    <3> QED
      BY <1>3, <2>1, <2>2, <3>1, HandlerLeads
  <2> HIDE DEF f, s
  <2> QED
    BY <1>1, <1>5, <2>1, <2>3, <2>4, <2>5, TurnedCursor
<1>8. CASE Top.node # "WhileLoop"
  <2>1. pos' = pos /\ s = IF Top.body = "Break" THEN <<"skip">> ELSE <<"next">>
    BY <1>1, <1>8
  <2> HIDE DEF f, s
  <2>2. Formed(<<"skip">>) /\ Formed(<<"next">>)
    <3>1. "skip" \in Simple
      BY DEF Simple, Steps, Keyed
    <3> QED
      BY <3>1, ShortSeqs, FormedParts DEF Closing, Alone
  <2>3. <<"skip">> \in Seq(Steps \ {"break"}) /\ <<"next">> \in Seq(Steps \ {"break"})
    <3>1. "skip" \in Steps \ {"break"} /\ "next" \in Steps \ {"break"}
      BY DEF Steps
    <3> QED
      BY <3>1
  <2>4. /\ Leads(code, Top.start, <<"skip">>, pos, NodeEnd(code, Top.start))
        /\ Leads(code, Top.start, <<"next">>, pos, NodeEnd(code, Top.start))
    BY <1>2, <1>6, LeadsOnce
  <2> QED
    BY <1>1, <1>5, <2>1, <2>2, <2>3, <2>4, TurnedCursor
<1> QED
  BY <1>7, <1>8

\* NodeType::Break and NodeType::Continue.
LEMMA JumpKeepsCursor ==
  ASSUME TypeOK, CursorInv, outcome' # "idle", Jump
  PROVE  CursorInv'
<1>1. PICK step \in {"break", "continue"} :
        /\ At(step, 0)
        /\ IF Top.ls = "None" THEN Fail("Not a loop")
           ELSE Step([Done(0) EXCEPT !.ls = IF step = "break" THEN "Break" ELSE "Continue"], pos)
  BY DEF Jump
<1> DEFINE ls == IF step = "break" THEN "Break" ELSE "Continue"
           f == [Done(0) EXCEPT !.ls = ls]
<1>2. stack # << >> /\ Top.todo # << >> /\ Head(Top.todo) = step
  BY <1>1 DEF At
<1>3. IsCode(code) /\ Sound(code, Top) /\ WellFormed(code) /\ pos \in Nat
      /\ NodeAt(code, Top.node, Top.start)
  BY <1>2, TopSound
<1>4. step \in Words(Top.node, Top.ls, Top.body)
  BY <1>1, TopLegible
<1>5. CASE Top.ls = "None"
  BY <1>1, <1>5, EndedCursor DEF Fail
<1>6. CASE Top.ls # "None"
  <2>1. /\ stack' = Append(Front(stack), f) /\ code' = code /\ pos' = pos
    BY <1>1, <1>6 DEF Step, Resume
  <2>2. Tail(Top.todo) = << >>
    <3>1. Top.todo = <<step>>
      BY <1>2, <1>3, KeyedShape DEF Sound, Orderly, Alone
    <3>2. Tail(<<step>>) = << >>
      OBVIOUS
    <3> QED
      BY <3>1, <3>2
  <2>3. /\ f.node = Top.node /\ f.start = Top.start /\ f.body = Top.body
        /\ f.ls = ls /\ f.todo = << >>
    <3>1. DOMAIN Top = {"node", "start", "ls", "body", "todo", "vals", "rd"}
      BY <1>2, TopType DEF Frame
    <3> QED
      BY <2>2, <3>1 DEF Done
  <2>4. Top.node \notin ExpressionTypes /\ (step = "break" => Top.node = "Break")
    BY <1>4 DEF Words, StatementSteps
  <2>5. ls = "Break" => ~ InWhile(code, Top.start)
    BY <1>3, <2>4 DEF WellFormed, BreaksLeaveFors, NodeAt, Has
  <2>6. ls \in Jumping /\ ls # "TopLevel"
    BY DEF Jumping
  <2> HIDE DEF ls, f
  <2>7. Orderly(f)
    <3>1. << >> \in Seq(Simple) /\ << >> \in Seq(Words(f.node, f.ls, f.body))
      OBVIOUS
    <3> QED
      BY <2>3, <3>1, FormedParts DEF Orderly
  <2>8. Sound(code, f)
    <3>1. Top.body \notin {"None", "Normal"} /\ (Top.body = "Break" => Top.node # "WhileLoop")
      BY <1>3 DEF Sound
    <3>2. NodeAt(code, f.node, f.start) /\ f.node \notin ExpressionTypes /\ f.ls # "TopLevel"
      BY <1>3, <2>3, <2>4, <2>6
    <3>3. f.ls = "Break" => ~ InWhile(code, f.start)
      BY <2>3, <2>5
    <3>4. f.body \notin {"None", "Normal"} /\ (f.body = "Break" => f.node # "WhileLoop")
      BY <2>3, <3>1
    <3> QED
      BY <2>7, <3>2, <3>3, <3>4 DEF Sound
  <2>9. Rests(code, f, pos')
    <3>1. Leads(code, f.start, << >>, pos, pos)
      BY <1>3, LeadsNowhere
    <3> QED
      BY <2>1, <2>3, <2>6, <3>1 DEF Rests
  <2> QED
    BY <1>2, <2>1, <2>3, <2>6, <2>8, <2>9, ReplacedCursor DEF Jumping
<1> QED
  BY <1>5, <1>6

-----------------------------------------------------------------------------
(* Entering and leaving nodes. *)

\* execute_next on a child.
LEMMA EnterKeepsCursor ==
  ASSUME TypeOK, CursorInv, outcome' # "idle", NEW step \in ChildSteps, Enter(step)
  PROVE  CursorInv'
<1> DEFINE type == code[pos].val
           ls == ChildLoopState(Top, step)
           g == NewFrame(type, pos, ls)
<1>1. At(step, 0) /\ Reads("node", pos) /\ ~ (step = "stmt" /\ Abandoned)
  BY DEF Enter
<1>2. stack # << >> /\ Top.todo # << >> /\ Head(Top.todo) = step
  BY <1>1 DEF At
<1>3. /\ IsCode(code) /\ WellFormed(code) /\ Top \in Frame
      /\ Sound(code, Top) /\ Rests(code, Top, pos) /\ pos \in Nat
  BY <1>2, TopSound
<1>4. CASE type \notin DOMAIN Handler
  BY <1>4, EndedCursor DEF Enter, Fail
<1>5. CASE type \in DOMAIN Handler
  <2>1. /\ stack' = Append(stack, g) /\ pos' = pos + 1 /\ code' = code
    BY <1>5 DEF Enter
  <2>2. step \notin DOMAIN Repeats
    BY CountsNames DEF ChildSteps
  <2>3. step \in Words(Top.node, Top.ls, Top.body) /\ Legible(code, Top.start, step, pos)
    BY <1>1, <2>2, TopLegible
  <2>4. NodeAt(code, type, pos) /\ Has(code, "node", pos)
    BY <1>1 DEF Reads, NodeAt, Has
  <2>5. /\ Top.ls \in Listing => step = "stmt" /\ Top.ls = "TopLevel"
        /\ Top.body # "Break"
    <3>1. step \notin SkipSteps /\ step # "stmts" /\ step # "again"
      BY DEF ChildSteps, SkipSteps, Dropped
    <3>2. Top.ls \in Listing => step = "stmt"
      BY <2>3, <3>1 DEF Words
    <3>3. Top.body # "Break"
      BY <2>3, <3>1 DEF Words
    <3> QED
      BY <1>1, <3>2, <3>3 DEF Abandoned, Listing
  <2>6. /\ ls \in Listing => step = "body"
        /\ ls # "Break"
        /\ step = "body" => ls = Top.body
        /\ ls \in LoopStates
    <3>1. CASE step = "body"
      BY <1>3, <2>5, <3>1 DEF ChildLoopState, Frame
    <3>2. CASE step # "body"
      BY <1>3, <2>5, <3>2 DEF ChildLoopState, Frame, Listing, LoopStates
    <3> QED
      BY <3>1, <3>2
  <2>7. ls \in Listing => type = "StatementList"
    <3>1. step = "body" => NodeAt(code, "StatementList", pos)
      BY <2>3 DEF Legible
    <3> QED
      BY <2>6, <3>1 DEF NodeAt
  <2>8. ls \notin Listing => ls \in {"None", "Normal"}
    BY <2>6 DEF Listing, LoopStates
  <2>9. /\ g.node = type /\ g.start = pos /\ g.ls = ls /\ g.body = "TopLevel"
        /\ g.todo = Handler[type]
    BY DEF NewFrame
  <2> HIDE DEF g, ls
  <2>10. Orderly(g)
    BY <1>5, <2>7, <2>9, HandlerFormed, HandlerWords DEF Orderly
  <2>11. Sound(code, g)
    <3>1. "StatementList" \notin ExpressionTypes
      BY DEF ExpressionTypes
    <3>2. type \in ExpressionTypes => ls \in {"None", "Normal"}
      BY <2>7, <2>8, <3>1
    <3>3. ls = "TopLevel" => type = "StatementList"
      BY <2>7 DEF Listing
    <3> QED
      BY <2>4, <2>6, <2>9, <2>10, <3>2, <3>3 DEF Sound
  <2>12. Link(code, Top, g)
    <3>1. Top.ls \notin Jumping
      BY <2>5 DEF Listing, Jumping
    <3>2. Leads(code, Top.start, Top.todo, pos, NodeEnd(code, Top.start))
      BY <1>3, <3>1 DEF Rests
    <3>3. ls = "TopLevel" => step = "body"
      BY <2>6 DEF Listing
    <3>4. step = "body" => ls \notin {"None", "Normal"}
      BY <1>3, <2>6 DEF Sound
    <3>5. type \notin ExpressionTypes => step \in Opening /\ Top.node \notin ExpressionTypes
      <4> HAVE type \notin ExpressionTypes
      <4>1. step \notin {"expr", "test"}
        BY <2>3, <2>4 DEF Legible, NodeAt
      <4>2. step \in Opening
        BY <4>1 DEF ChildSteps, Opening
      <4> QED
        BY <2>3, <4>2 DEF Words, StatementSteps, Opening
    <3> QED
      BY <1>2, <2>9, <3>2, <3>3, <3>4, <3>5 DEF Link
  <2>13. Rests(code, g, pos')
    BY <1>3, <1>5, <2>1, <2>4, <2>9, HandlerLeads DEF Rests
  <2>14. Linked(code, stack') /\ Last(stack') = g
    <3>1. stack \in Seq(Frame \cup {g}) /\ g \in Frame \cup {g}
      BY SeqMonotonic DEF TypeOK
    <3>2. Linked(code, stack) /\ stack # << >> /\ Link(code, Last(stack), g)
      BY <1>2, <2>12 DEF CursorInv, Top
    <3> QED
      BY <2>1, <2>11, <3>1, <3>2, LinkedAppend
  <2> QED
    BY <2>1, <2>13, <2>14 DEF CursorInv, Top
<1> QED
  BY <1>4, <1>5

(***************************************************************************)
(* What a caller is once an activation has returned to it: after a jump    *)
(* the cursor is at the start of the child, and the caller jumps as well   *)
(* or is the loop that the jump is for.                                    *)
(***************************************************************************)
LEMMA HandsBack ==
  ASSUME NEW c, IsCode(c), NEW g \in Frame, NEW f \in Frame, NEW p \in Nat, NEW v,
         Sound(c, g), Sound(c, f), Link(c, g, f), Rests(c, f, p),
         g.todo # << >>, Head(g.todo) \in ChildSteps, f.todo = << >>,
         f.ls # "None" <=> \/ Head(g.todo) = "body"
                           \/ Head(g.todo) # "expr" /\ g.ls # "None",
         NEW h, h = Received(g, v, f.ls),
         NEW r, r = IF f.ls \in {"None", "Normal"} THEN p ELSE f.start
  PROVE  /\ Sound(c, h) /\ Rests(c, h, r) /\ h.start = g.start
         /\ h.ls = "TopLevel" => g.ls = "TopLevel"
         /\ g.ls \notin {"None", "Normal"} => h.ls \notin {"None", "Normal"}
<1> DEFINE step == Head(g.todo)
           rest == Tail(g.todo)
           l == f.ls
           W == Words(g.node, g.ls, g.body)
           end == NodeEnd(c, g.start)
           kept == step = "stmt" /\ (g.ls = "None" \/ l = "Normal")
<1>1. /\ h.node = g.node /\ h.start = g.start /\ h.todo = rest
      /\ h.ls = IF step \in {"test", "branch", "stmt"} /\ ~ kept THEN l ELSE g.ls
      /\ h.body = IF step = "body" THEN l ELSE g.body
  BY DEF Received, Frame
<1>2. /\ f.start \in Nat /\ g.start \in Nat /\ l \in LoopStates /\ g.ls \in LoopStates
      /\ NodeEnd(c, f.start) \in Nat
  BY NodeEndType DEF Frame
<1>3. step \in {"expr", "test", "branch", "stmt", "body"} /\ step \notin DOMAIN Repeats
  BY CountsNames DEF ChildSteps
<1>4. /\ Formed(g.todo) /\ g.todo \in Seq(W) /\ Formed(rest) /\ rest \in Seq(W) /\ step \in W
  <2>1. Formed(g.todo) /\ g.todo \in Seq(W)
    BY DEF Sound, Orderly
  <2>2. Formed(rest)
    BY <2>1, FormedTail
  <2>3. rest \in Seq(W) /\ step \in W
    BY <2>1, HeadTailProperties
  <2> QED
    BY <2>1, <2>2, <2>3
<1>5. PICK m \in Nat : Reaches(c, g.start, step, f.start, m) /\ Leads(c, g.start, rest, m, end)
  <2>1. Leads(c, g.start, g.todo, f.start, end)
    BY DEF Link
  <2> QED
    BY <1>4, <2>1, LeadsOn
<1>6. Legible(c, g.start, step, f.start) /\ m = StopsAt(c, g.start, step, f.start)
  BY <1>3, <1>5, StepReaches
<1>7. l \notin Jumping => p = NodeEnd(c, f.start)
  <2>1. PICK q : Leads(c, f.start, << >>, p, q) /\ (l \notin Jumping => q = NodeEnd(c, f.start))
    BY DEF Rests
  <2>2. p = q
    BY <2>1, LeadsNowhere
  <2> QED
    BY <2>1, <2>2
<1>8. /\ l = "TopLevel" => step = "body"
      /\ step = "body" => l \notin {"None", "Normal"}
      /\ step = "test" => l \in {"None", "Normal"}
  <2>1. step = "test" => f.node \in ExpressionTypes
    BY <1>6 DEF Legible, Sound, NodeAt
  <2> QED
    BY <2>1 DEF Link, Sound
<1>9. /\ l # "None" <=> step = "body" \/ (step # "expr" /\ g.ls # "None")
      /\ r = IF l \in {"None", "Normal"} THEN p ELSE f.start
  OBVIOUS
<1>10. /\ g.ls \in Listing => step = "stmt"
       /\ step # "expr" => g.node \notin ExpressionTypes
       /\ g.body # "Break"
  <2>1. step \notin SkipSteps /\ step \notin {"stmts", "again"}
    BY <1>3 DEF SkipSteps, Dropped
  <2>2. step # "expr" => step \in StatementSteps
    BY <1>3 DEF StatementSteps
  <2> QED
    BY <1>4, <2>1, <2>2 DEF Words
<1>11. /\ NodeAt(c, g.node, g.start) /\ NodeAt(c, f.node, f.start)
       /\ g.node \in ExpressionTypes => g.ls \in {"None", "Normal"}
       /\ g.ls = "TopLevel" => g.node = "StatementList"
       /\ g.ls = "Break" => ~ InWhile(c, g.start)
       /\ g.body \notin {"None", "Normal"}
       /\ l = "Break" => ~ InWhile(c, f.start)
  BY DEF Sound
<1>12. step # "body" => m = NodeEnd(c, f.start)
  BY <1>3, <1>6, Stops DEF NodeSteps
<1>13. step = "body" => m = f.start
  <2>1. "body" \notin NodeSteps \cup FieldSteps \cup {"alias", "choose"}
    BY DEF NodeSteps, FieldSteps, Dropped
  <2> QED
    BY <1>6, <2>1, Stops
<1>14. /\ step \in {"stmt", "branch"} => (InWhile(c, g.start) => InWhile(c, f.start))
       /\ step = "body" => (g.node = "WhileLoop" => InWhile(c, f.start))
  BY <1>6, <1>11 DEF Legible, NodeAt
<1>15. l \in {"None", "Normal", "TopLevel"} \cup Jumping
  BY <1>2 DEF LoopStates, Jumping
<1> HIDE DEF step, rest, l, W, end
<1>16. /\ h.ls = "TopLevel" => g.ls = "TopLevel"
       /\ g.ls \notin {"None", "Normal"} => h.ls \notin {"None", "Normal"}
  BY <1>1, <1>2, <1>3, <1>8, <1>9, <1>10 DEF Listing, LoopStates, kept
<1> HIDE DEF kept
<1>17. /\ l \in {"None", "Normal"} /\ step # "body" =>
              (h.ls \in Listing <=> g.ls \in Listing)
       /\ h.ls # g.ls => step \in {"test", "branch", "stmt"} /\ h.ls = l
  BY <1>1, <1>8, <1>9, <1>10 DEF Listing, kept
<1>18. CASE step # "body" /\ l \in {"None", "Normal"}
  <2>1. h.body = g.body /\ Words(h.node, h.ls, h.body) = W
    BY <1>1, <1>17, <1>18 DEF Words, W
  <2>2. Orderly(h)
    BY <1>1, <1>4, <2>1 DEF Orderly
  <2>3. Sound(c, h)
    BY <1>1, <1>10, <1>11, <1>16, <1>17, <1>18, <2>1, <2>2 DEF Sound
  <2>4. Rests(c, h, r)
    <3>1. l \notin Jumping
      BY <1>18 DEF Jumping
    <3>2. r = m
      BY <1>7, <1>9, <1>12, <1>18, <3>1
    <3> QED
      BY <1>1, <1>5, <3>2 DEF Rests, end
  <2> QED
    BY <1>1, <1>16, <2>3, <2>4
<1>19. CASE step = "body"
  <2>1. h.ls = g.ls /\ h.body = l /\ l \notin {"None", "Normal"}
    BY <1>1, <1>8, <1>19
  <2>2. g.todo = <<"body", "again">> /\ rest = <<"again">>
    <3>1. g.todo = <<"body", "again">>
      BY <1>4, <1>19, KeyedShape DEF step
    <3>2. Tail(<<"body", "again">>) = <<"again">>
      OBVIOUS
    <3> QED
      BY <3>1, <3>2 DEF rest
  <2>3. Orderly(h)
    <3>1. "again" \in Words(h.node, h.ls, h.body)
      <4>1. "again" \in Steps
        BY DEF Steps
      <4> QED
        BY <1>1, <1>10, <1>19, <2>1, <4>1 DEF Words
    <3> QED
      BY <1>1, <1>4, <2>2, <3>1, ShortSeqs DEF Orderly
  <2>4. l = "Break" => h.node # "WhileLoop"
    BY <1>1, <1>11, <1>14, <1>19
  <2>5. Sound(c, h)
    BY <1>1, <1>11, <2>1, <2>3, <2>4 DEF Sound
  <2>6. Rests(c, h, r)
    <3>1. r = m
      BY <1>9, <1>13, <1>19, <2>1
    <3> QED
      BY <1>1, <1>5, <3>1 DEF Rests, end
  <2> QED
    BY <1>1, <1>16, <2>5, <2>6
<1>20. CASE step # "body" /\ l \notin {"None", "Normal"}
  <2>1. /\ step \in {"branch", "stmt"} /\ l \in Jumping /\ r = f.start
        /\ h.ls = l /\ h.body = g.body /\ l \in Listing
    BY <1>1, <1>3, <1>8, <1>9, <1>15, <1>20 DEF kept, Jumping, Listing
  <2>2. /\ step = "stmt" => g.todo \in Seq({"stmt"})
        /\ step = "branch" => rest \in { << >>, <<"skip">> }
    <3>1. Tail(<<"branch">>) = << >> /\ Tail(<<"branch", "skip">>) = <<"skip">>
      OBVIOUS
    <3>2. step = "branch" => g.todo \in { <<"branch">>, <<"branch", "skip">> }
      BY <1>4, KeyedShape DEF step
    <3>3. step = "stmt" => g.todo \in Seq({"stmt"})
      BY <1>4, KeyedShape DEF step
    <3> QED
      BY <3>1, <3>2, <3>3 DEF rest
  <2>3. rest \in Seq(Words(h.node, h.ls, h.body))
    <3>1. CASE step = "stmt"
      <4>1. "stmt" \in Words(h.node, h.ls, h.body)
        BY <1>1, <1>4, <2>1, <3>1 DEF Words, W
      <4>2. rest \in Seq({"stmt"})
        BY <2>2, <3>1, HeadTailProperties DEF rest
      <4> QED
        BY <4>1, <4>2, SeqMonotonic
    <3>2. CASE step = "branch"
      <4>1. "skip" \in Words(h.node, h.ls, h.body)
        BY SkipWords DEF SkipSteps
      <4>2. << >> \in Seq(Words(h.node, h.ls, h.body)) /\ <<"skip">> \in Seq(Words(h.node, h.ls, h.body))
        BY <4>1, ShortSeqs
      <4> QED
        BY <2>2, <3>2, <4>2
    <3> QED
      BY <2>1, <3>1, <3>2
  <2>4. Orderly(h)
    BY <1>1, <1>4, <2>3 DEF Orderly
  <2>5. Sound(c, h)
    <3>1. g.node \notin ExpressionTypes /\ l # "TopLevel"
      BY <1>10, <2>1 DEF Jumping
    <3>2. l = "Break" => ~ InWhile(c, g.start)
      BY <1>11, <1>14, <2>1
    <3>3. h.body = "Break" => h.node # "WhileLoop"
      BY <1>10, <2>1
    <3> QED
      BY <1>1, <1>11, <2>1, <2>4, <3>1, <3>2, <3>3 DEF Sound
  <2>6. \E q : Leads(c, g.start, rest, f.start, q)
    <3>1. CASE step = "stmt"
      <4>1. Leads(c, g.start, g.todo, f.start, end)
        BY DEF Link, end
      <4> QED
        BY <2>2, <3>1, <4>1, LagLeads DEF rest
    <3>2. CASE rest = << >>
      BY <1>2, <3>2, LeadsNowhere
    <3>3. CASE rest = <<"skip">>
      <4>1. Reaches(c, g.start, "skip", f.start, NodeEnd(c, f.start))
        BY <1>11, DecisionStops DEF NodeAt
      <4> QED
        BY <1>2, <3>3, <4>1, LeadsOnce
    <3> QED
      BY <2>1, <2>2, <3>1, <3>2, <3>3
  <2>7. Rests(c, h, r)
    BY <1>1, <2>1, <2>6 DEF Rests
  <2> QED
    BY <1>1, <1>16, <2>5, <2>7
<1> QED
  BY <1>18, <1>19, <1>20

\* The end of execute_next: the caller goes on.
LEMMA ReturnKeepsCursor ==
  ASSUME TypeOK, JumpsInv, ScopeInv, CursorInv, outcome' # "idle", Return
  PROVE  CursorInv'
<1> DEFINE below == Front(stack)
           n == Len(stack)
           caller == stack[n - 1]
           f == Received(caller, ReturnValue(Top), Top.ls)
           step == Head(caller.todo)
<1>1. /\ n > 1 /\ Top.todo = << >> /\ caller.todo # << >> /\ code' = code
      /\ stack' = Append(Front(below), f)
      /\ pos' = IF Top.ls \in {"None", "Normal"} THEN pos ELSE Top.start
  BY DEF Return
<1>2. stack \in Seq(Frame) /\ Jumps(stack) /\ Order(stack) /\ Linked(code, stack)
  BY DEF TypeOK, JumpsInv, ScopeInv, CursorInv
<1>3. /\ n \in Nat /\ n - 1 \in Nat \ {0} /\ stack # << >>
      /\ n \in DOMAIN stack /\ n - 1 \in DOMAIN stack /\ Top = stack[n] /\ n - 1 # n
  BY <1>1, <1>2, LenProperties DEF Top, Last
<1>4. /\ below \in Seq(Frame) /\ Last(below) = caller /\ below # << >>
  <2>1. /\ below \in Seq(Frame) /\ Len(below) = n - 1
        /\ \A i \in 1 .. n - 1 : below[i] = stack[i]
    BY <1>2, <1>3, Ends
  <2> QED
    BY <1>1, <1>3, <2>1 DEF Last
<1>5. caller \in Frame /\ Top \in Frame
  BY <1>2, <1>3, ElementOfSeq, LenProperties
<1>6. Top.ls # "None" <=> step = "body" \/ (step # "expr" /\ caller.ls # "None")
  <2>1. Top.ls # "None" <=> InLoop(stack, n)
    BY <1>2, <1>3 DEF Jumps
  <2>2. InLoop(stack, n) <=> Waits(stack, n - 1, "body")
                             \/ (~ Waits(stack, n - 1, "expr") /\ InLoop(stack, n - 1))
    <3>1. (n - 1) + 1 = n
      BY <1>3
    <3> QED
      BY <1>3, <3>1, InLoopAbove
  <2>3. /\ Waits(stack, n - 1, "body") <=> step = "body"
        /\ Waits(stack, n - 1, "expr") <=> step = "expr"
    BY <1>1 DEF Waits
  <2>4. caller.ls # "None" <=> InLoop(stack, n - 1)
    BY <1>2, <1>3 DEF Jumps
  <2> QED
    BY <2>1, <2>2, <2>3, <2>4
<1>7. step \in ChildSteps
  BY <1>2, <1>3 DEF Order, Calls
<1>8. IsCode(code) /\ Sound(code, Top) /\ Rests(code, Top, pos) /\ pos \in Nat
  BY <1>3, TopSound
<1>9. Linked(code, below) /\ Sound(code, caller) /\ Link(code, caller, Top)
  <2>1. Linked(code, below) /\ Link(code, Last(below), Last(stack))
    BY <1>2, <1>3, <1>4, LinkedFront
  <2>2. Sound(code, Last(below))
    BY <1>4, <2>1, LinkedFront
  <2> QED
    BY <1>4, <2>1, <2>2 DEF Top
<1> HIDE DEF below, n, caller, step
<1>10. f = Received(caller, ReturnValue(Top), Top.ls)
  OBVIOUS
<1> HIDE DEF f
<1>11. /\ Sound(code, f) /\ Rests(code, f, pos') /\ f.start = caller.start
       /\ f.ls = "TopLevel" => caller.ls = "TopLevel"
       /\ caller.ls \notin {"None", "Normal"} => f.ls \notin {"None", "Normal"}
  BY <1>1, <1>5, <1>6, <1>7, <1>8, <1>9, <1>10, HandsBack DEF step
<1>12. Linked(code, stack') /\ Last(stack') = f
  <2>1. below \in Seq(Frame \cup {f}) /\ f \in Frame \cup {f}
    BY <1>4, SeqMonotonic
  <2> QED
    BY <1>1, <1>4, <1>9, <1>11, <2>1, LinkedReplace
<1> QED
  BY <1>1, <1>11, <1>12 DEF CursorInv, Top

\* execute() begins with the only node of the program, and ends.
LEMMA ExecuteKeepsCursor ==
  ASSUME TypeOK, CursorInv, Execute
  PROVE  CursorInv'
<1> DEFINE type == code[pos].val
           f == NewFrame(type, pos, "None")
<1>1. /\ pos = 1 /\ WellFormed(code) /\ Has(code, "node", pos) /\ type \in DOMAIN Handler
      /\ stack' = <<f>> /\ code' = code /\ pos' = pos + 1 /\ outcome' = "running"
  BY DEF Execute, Idle, Reads, CursorInv, Has
<1>2. /\ f.node = type /\ f.start = 1 /\ f.ls = "None" /\ f.body = "TopLevel"
      /\ f.todo = Handler[type]
  BY <1>1 DEF NewFrame
<1> HIDE DEF f
<1>3. Orderly(f)
  BY <1>1, <1>2, HandlerFormed, HandlerWords DEF Orderly, Listing
<1>4. Sound(code, f)
  BY <1>1, <1>2, <1>3 DEF Sound, NodeAt
<1>5. Rests(code, f, pos')
  BY <1>1, <1>2, HandlerLeads DEF Rests
<1>6. Linked(code, <<f>>)
  <2>1. DOMAIN <<f>> = {1} /\ <<f>>[1] = f
    OBVIOUS
  <2>2. 1 + 1 \notin {1}
    OBVIOUS
  <2> QED
    BY <1>2, <1>4, <2>1, <2>2 DEF Linked, Opened
<1>7. Last(stack') = f
  BY <1>1 DEF Last
<1> QED
  BY <1>1, <1>5, <1>6, <1>7 DEF CursorInv, Top

-----------------------------------------------------------------------------
(* Every step. *)

\* Activations act while the program runs, ...
LEMMA ActivationsRun ==
  ASSUME Nodes \/ Expressions \/ Statement
  PROVE  outcome = "running"
<1>1. CASE Nodes
  BY <1>1 DEF Nodes, Enter, Skip, Drop, Count, Return, At
<1>2. CASE Expressions
  BY <1>2 DEF Expressions, ReadOp, ReadName, ReadNames, Lookup, String, Integer, NewList,
     AppendElement, NewDictionary, InsertEntry, Unary, Binary, Compare, Subscript, Attribute,
     Decide, Decided, Undecided, CheckCallable, Call, At
<1>3. CASE Statement
  BY <1>3 DEF Statement, Assign, Fetch, Augment, MakeAlias, Load, Member, BindImport,
     Choose, While, Iterate, Advance, Again, Jump, Terminate, At
<1> QED
  BY <1>1, <1>2, <1>3

\* ... which then does not become idle.
LEMMA NeverIdle ==
  ASSUME TypeOK, Nodes \/ Expressions \/ Statement
  PROVE  outcome' # "idle"
  BY ActivationsRun, ActivationsKeepTypes DEF Kept, Unthrown

\* The cursor of a well-formed program is always where the activations say.
LEMMA NextKeepsCursor ==
  ASSUME TypeOK, JumpsInv, ScopeInv, CursorInv, [Next]_vars
  PROVE  CursorInv'
<1>1. CASE Execute
  BY <1>1, ExecuteKeepsCursor
<1>2. CASE SetString \/ SetList \/ SetModule \/ Ended \/ UNCHANGED vars
  <2>1. code' = code /\ pos' = pos /\ stack' = stack /\ outcome' = outcome
    BY <1>2 DEF SetString, PresetString, SetList, PresetList, SetModule, Preset, Ended, vars
  <2> QED
    BY <2>1 DEF CursorInv, Top
<1>3. CASE Finish
  <2>1. stack' = << >> /\ code' = code /\ outcome' # "idle"
    BY <1>3 DEF Finish, Fail
  <2> QED
    BY <2>1, EndedCursor
<1>4. CASE Nodes
  <2>1. outcome' # "idle"
    BY <1>4, NeverIdle
  <2> QED
    BY <1>4, <2>1, EnterKeepsCursor, SkipKeepsCursor, FieldsKeepCursor, CountKeepsCursor,
       ReturnKeepsCursor DEF Nodes
<1>5. CASE Expressions
  <2>1. outcome' # "idle"
    BY <1>5, NeverIdle
  <2> QED
    BY <1>5, <2>1, FieldsKeepCursor, NamesKeepCursor, ResultsKeepCursor, WritesKeepCursor,
       DecideKeepsCursor DEF Expressions
<1>6. CASE Statement
  <2>1. outcome' # "idle"
    BY <1>6, NeverIdle
  <2> QED
    BY <1>6, <2>1, NamesKeepCursor, WritesKeepCursor, MakeAliasKeepsCursor, ResultsKeepCursor,
       ChooseKeepsCursor, WhileKeepsCursor, AdvanceKeepsCursor, AgainKeepsCursor,
       JumpKeepsCursor DEF Statement
<1> QED
  BY <1>1, <1>2, <1>3, <1>4, <1>5, <1>6 DEF Next, Host, Interpret

-----------------------------------------------------------------------------
(* The theorems: of programs that are laid out well. *)

ProgramsWellFormed == \A i \in DOMAIN Programs : WellFormed(Programs[i])

CursorInd == TypeOK /\ JumpsInv /\ ScopeInv /\ CursorInv

\* The first state.
LEMMA InitCursor ==
  ASSUME ProgramsWellFormed, Init
  PROVE  CursorInd
<1>1. TypeOK
  BY InitTypes
<1>2. JumpsInv
  BY NoJumps DEF Init, JumpsInv
<1>3. ScopeInv
  BY InitScopes
<1>4. CursorInv
  BY DEF Init, CursorInv, Linked, Opened, ProgramsWellFormed
<1> QED
  BY <1>1, <1>2, <1>3, <1>4 DEF CursorInd

\* Every step.
LEMMA NextCursor ==
  ASSUME CursorInd, [Next]_vars
  PROVE  CursorInd'
<1>1. TypeOK'
  BY NextKeepsTypes DEF CursorInd
<1> QED
  BY <1>1, NextKeepsJumps, NextKeepsScopes, NextKeepsCursor DEF CursorInd

\* Where a node ends, the cursor is.
LEMMA NodeConsumed ==
  ASSUME CursorInd, stack # << >>, Top.todo = << >>, Top.ls \notin Jumping
  PROVE  pos = NodeEnd(code, Top.start) /\ Top.start \in DOMAIN code
<1>1. /\ Rests(code, Top, pos) /\ pos \in Nat /\ NodeAt(code, Top.node, Top.start)
  BY TopSound DEF CursorInd
<1>2. Leads(code, Top.start, << >>, pos, NodeEnd(code, Top.start))
  BY <1>1 DEF Rests
<1>3. pos = NodeEnd(code, Top.start)
  BY <1>1, <1>2, LeadsNowhere
<1> QED
  BY <1>1, <1>3 DEF NodeAt, Has

(***************************************************************************)
(* The interpreter never reads a field as something else than what the     *)
(* compiler wrote there: parse_next, execute_next and skip_next agree on   *)
(* the layout of every node, whatever is run, skipped or rewound.          *)
(***************************************************************************)
THEOREM ReadsWhatWasWrittenCorrect ==
  ProgramsWellFormed => (Spec => []ReadsWhatWasWritten)
<1> SUFFICES ASSUME ProgramsWellFormed
             PROVE  Spec => []ReadsWhatWasWritten
  OBVIOUS
<1>1. Init => CursorInd
  BY InitCursor
<1>2. CursorInd /\ [Next]_vars => CursorInd'
  BY NextCursor
<1>3. CursorInd => ReadsWhatWasWritten
  <2> SUFFICES ASSUME CursorInd, outcome = "running", stack # << >>, Top.todo # << >>,
                      FieldRead(Head(Top.todo)) # "any"
               PROVE  Reads(FieldRead(Head(Top.todo)), pos)
    BY DEF ReadsWhatWasWritten
  <2> DEFINE step == Head(Top.todo)
  <2>1. IsCode(code) /\ Sound(code, Top) /\ Rests(code, Top, pos)
    BY TopSound DEF CursorInd
  <2>2. \E m : Reaches(code, Top.start, step, pos, m)
    BY <2>1, RestsOn
  <2> HIDE DEF step
  <2>3. CASE step \in DOMAIN Repeats
    <3>1. Has(code, "u32", pos)
      BY <2>2, <2>3 DEF Reaches
    <3>2. FieldRead(step) \in {"u32", "any"}
      <4>1. step \notin ChildSteps \cup {"skip", "name", "names", "dropNames", "fetch", "target"}
        BY <2>3, CountsNames DEF ChildSteps
      <4>2. step \notin DOMAIN Dropped /\ step \notin {"op", "lookup", "string", "alias", "integer"}
        BY <2>3, CountsNames DEF Dropped
      <4> QED
        BY <2>3, <4>1, <4>2 DEF FieldRead
    <3> QED
      BY <3>1, <3>2 DEF Has, Reads, step
  <2>4. CASE step \notin DOMAIN Repeats
    <3>1. Legible(code, Top.start, step, pos)
      BY <2>2, <2>4, StepReaches
    <3> QED
      BY <3>1 DEF Legible, Has, Reads, step
  <2> QED
    BY <2>3, <2>4
<1> QED
  BY <1>1, <1>2, <1>3, PTL DEF Spec

(***************************************************************************)
(* A node that ends without a jump has consumed its own fields, no more    *)
(* and no fewer.                                                           *)
(***************************************************************************)
THEOREM ConsumesItsNodeCorrect ==
  ProgramsWellFormed => (Spec => []ConsumesItsNode)
<1> SUFFICES ASSUME ProgramsWellFormed
             PROVE  Spec => []ConsumesItsNode
  OBVIOUS
<1>1. Init => CursorInd
  BY InitCursor
<1>2. CursorInd /\ [Next]_vars => CursorInd'
  BY NextCursor
<1>3. CursorInd => ConsumesItsNode
  <2> SUFFICES ASSUME CursorInd, stack # << >>, Top.todo = << >>, Top.ls \in {"None", "Normal"}
               PROVE  pos = Top.start + code[Top.start].span
    BY DEF ConsumesItsNode
  <2>1. pos = NodeEnd(code, Top.start) /\ Top.start \in DOMAIN code
    BY NodeConsumed DEF Jumping
  <2> QED
    BY <2>1 DEF NodeEnd
<1> QED
  BY <1>1, <1>2, <1>3, PTL DEF Spec

\* When execute() returns a Boolean the cursor is behind the program.
LEMMA FinishedAtTheEnd ==
  ASSUME CursorInd, Finish
  PROVE  EndsAtTheEnd'
<1>1. /\ stack # << >> /\ Len(stack) = 1 /\ Top.todo = << >>
      /\ pos' = pos /\ code' = code
  BY EmptySeq DEF Finish, Fail, CursorInd, TypeOK
<1>2. 1 \in DOMAIN stack /\ Top = stack[1]
  BY <1>1, LenProperties DEF Top, Last, CursorInd, TypeOK
<1>3. Top.ls = "None" /\ Top.start = 1
  <2>1. ~ InLoop(stack, 1)
    BY DEF InLoop
  <2> QED
    BY <1>1, <1>2, <2>1 DEF CursorInd, JumpsInv, Jumps, CursorInv, Linked
<1>4. pos = NodeEnd(code, 1) /\ 1 \in DOMAIN code
  BY <1>1, <1>3, NodeConsumed DEF Jumping
<1>5. pos = Len(code) + 1
  <2>1. code # << >>
    BY <1>4
  <2> QED
    BY <1>4, <2>1 DEF CursorInd, CursorInv, WellFormed
<1> QED
  BY <1>1, <1>5 DEF EndsAtTheEnd

(***************************************************************************)
(* When execute() returns a Boolean, every node of the program has been    *)
(* run or skipped, also after a return or a break in the middle of it.     *)
(***************************************************************************)
THEOREM EndsAtTheEndCorrect ==
  ProgramsWellFormed => (Spec => []EndsAtTheEnd)
<1> SUFFICES ASSUME ProgramsWellFormed
             PROVE  Spec => []EndsAtTheEnd
  OBVIOUS
<1>1. Init => CursorInd /\ EndsAtTheEnd
  BY InitCursor DEF Init, EndsAtTheEnd
<1>2. CursorInd /\ EndsAtTheEnd /\ [Next]_vars => (CursorInd /\ EndsAtTheEnd)'
  <2> SUFFICES ASSUME CursorInd, EndsAtTheEnd, [Next]_vars
               PROVE  EndsAtTheEnd'
    BY NextCursor
  <2>1. CASE Host
    BY <2>1 DEF Host, SetString, PresetString, SetList, PresetList, SetModule, Preset, Execute,
       Idle, EndsAtTheEnd
  <2>2. CASE Ended \/ UNCHANGED vars
    BY <2>2 DEF Ended, vars, EndsAtTheEnd
  <2>3. CASE Finish
    BY <2>3, FinishedAtTheEnd
  <2>4. CASE Nodes \/ Expressions \/ Statement
    <3>1. outcome = "running" /\ Kept
      BY <2>4, ActivationsRun, ActivationsKeepTypes DEF CursorInd
    <3> QED
      BY <3>1 DEF Kept, Unthrown, EndsAtTheEnd
  <2> QED
    BY <2>1, <2>2, <2>3, <2>4 DEF Next, Interpret
<1> QED
  BY <1>1, <1>2, PTL DEF Spec

-----------------------------------------------------------------------------
(* A return in the global scope. *)

(***************************************************************************)
(* Once it has been made, nothing is left to do but to skip: a loop would  *)
(* have a scope of its own, an expression does not run statements, and     *)
(* the lists and conditionals around the return skip what follows it.      *)
(***************************************************************************)
Leaving == {"stmt"} \cup SkipSteps

FinalInv ==
  scopes[1].terminated =>
    /\ outcome # "idle" /\ Len(scopes) = 1
    /\ \A i \in DOMAIN stack : i # Len(stack) => Head(stack[i].todo) \in {"stmt", "branch"}
    /\ stack # << >> => Top.todo \in Seq(Leaving)

\* Binding a name terminates no scope.
LEMMA SetValueTerminates ==
  ASSUME NEW sc, Chain(sc), 1 \in DOMAIN sc, NEW x, NEW p
  PROVE  /\ Chain(SetValue(sc, x, p)) /\ 1 \in DOMAIN SetValue(sc, x, p)
         /\ SetValue(sc, x, p)[1].terminated = sc[1].terminated
<1> DEFINE new == SetValue(sc, x, p)
           put(i) == [sc[i] EXCEPT !.values = Put(@, x, p)]
<1>1. DOMAIN new = DOMAIN sc /\ \A i \in DOMAIN sc : new[i] = sc[i] \/ new[i] = put(i)
  BY DEF SetValue
<1>2. \A i \in DOMAIN sc : /\ DOMAIN put(i) = DOMAIN sc[i]
                           /\ put(i).terminated = sc[i].terminated
  BY DEF Chain
<1> HIDE DEF new, put
<1>3. Chain(new) /\ 1 \in DOMAIN new /\ new[1].terminated = sc[1].terminated
  BY <1>1, <1>2 DEF Chain
<1> QED
  BY <1>3 DEF new

\* Nor does binding a pair of names.
LEMMA BoundTerminates ==
  ASSUME NEW sc, Chain(sc), 1 \in DOMAIN sc, NEW texts, NEW h, NEW p
  PROVE  Bound(sc, texts, h, p)[1].terminated = sc[1].terminated
<1>1. \A x, q : /\ Chain(SetValue(sc, x, q)) /\ 1 \in DOMAIN SetValue(sc, x, q)
                /\ SetValue(sc, x, q)[1].terminated = sc[1].terminated
  BY SetValueTerminates
<1>2. \A x, q, y, r : SetValue(SetValue(sc, x, q), y, r)[1].terminated = sc[1].terminated
  BY <1>1, SetValueTerminates
<1> QED
  BY <1>1, <1>2 DEF Bound

\* The global scope under a new one, and where the innermost one goes away.
LEMMA OutermostScope ==
  ASSUME NEW sc, ScopesOK(sc)
  PROVE  /\ 1 \in DOMAIN sc /\ Chain(sc) /\ Len(sc) \in Nat \ {0}
         /\ 1 \in DOMAIN Append(sc, Fresh) /\ Chain(Append(sc, Fresh))
         /\ Append(sc, Fresh)[1] = sc[1]
         /\ Len(sc) > 1 => Front(sc)[1] = sc[1]
<1>1. /\ Front(sc) \in Seq(Range(sc)) /\ Len(sc) \in Nat \ {0}
      /\ Len(Front(sc)) = Len(sc) - 1
      /\ \A i \in 1 .. Len(sc) - 1 : Front(sc)[i] = sc[i]
  BY Ends, EmptySeq, LenProperties DEF ScopesOK
<1>2. sc \in Seq(Range(sc) \cup {Fresh}) /\ Fresh \in Range(sc) \cup {Fresh}
  BY SeqMonotonic DEF ScopesOK
<1> DEFINE new == Append(sc, Fresh)
<1>3. /\ new \in Seq(Range(sc) \cup {Fresh}) /\ Len(new) = Len(sc) + 1
      /\ \A i \in 1 .. Len(sc) : new[i] = sc[i]
      /\ new[Len(sc) + 1] = Fresh
  BY <1>2, AppendProperties
<1>4. DOMAIN new = 1 .. Len(sc) + 1 /\ DOMAIN sc = 1 .. Len(sc)
  BY <1>3, LenProperties DEF ScopesOK
<1>5. DOMAIN Fresh = {"values", "terminated"}
  BY DEF Fresh
<1>6. Chain(sc)
  BY DEF Chain, ScopesOK, IsScope
<1> HIDE DEF new
<1>7. Chain(new)
  BY <1>1, <1>3, <1>4, <1>5, <1>6 DEF Chain
<1>8. 1 \in 1 .. Len(sc) /\ 1 \in 1 .. Len(sc) + 1 /\ (Len(sc) > 1 => 1 \in 1 .. Len(sc) - 1)
  BY <1>1
<1> QED
  BY <1>1, <1>3, <1>4, <1>6, <1>7, <1>8 DEF new

\* Only a return terminates the global scope.
LEMMA OnlyReturnTerminates ==
  ASSUME TypeOK, [Next]_vars, ~ Terminate
  PROVE  scopes'[1].terminated = scopes[1].terminated
<1>1. /\ 1 \in DOMAIN scopes /\ Chain(scopes)
      /\ 1 \in DOMAIN Append(scopes, Fresh) /\ Chain(Append(scopes, Fresh))
      /\ Append(scopes, Fresh)[1] = scopes[1]
      /\ Len(scopes) > 1 => Front(scopes)[1] = scopes[1]
  BY OutermostScope DEF TypeOK
<1>2. CASE Ending \/ scopes' = scopes
  BY <1>2 DEF Ending
<1>3. CASE SetString \/ SetList \/ SetModule
  <2>1. scopes' = scopes \/ \E x, p : scopes' = SetValue(scopes, x, p)
    BY <1>3 DEF SetString, PresetString, SetList, PresetList, SetModule, Preset
  <2> QED
    BY <1>1, <2>1, SetValueTerminates
<1>4. CASE Execute \/ Return
  BY <1>2, <1>4 DEF Execute, Return
<1>5. CASE \E step \in ChildSteps : Enter(step)
  <2>1. (\E msg : Fail(msg)) \/ scopes' = scopes
    BY <1>5 DEF Enter
  <2> QED
    BY <1>2, <2>1, FailShape
<1>6. CASE Calm
  BY <1>2, <1>6, CalmSteps
<1>7. CASE Assign
  <2>1. (\E msg : Fail(msg)) \/ \E texts, p : scopes' = Bound(scopes, texts, heap, p)
    BY <1>7 DEF Assign
  <2> QED
    BY <1>1, <1>2, <2>1, FailShape, BoundTerminates
<1>8. CASE BindImport
  <2>1. \E x, p : scopes' = SetValue(scopes, x, p)
    BY <1>8 DEF BindImport
  <2> QED
    BY <1>1, <2>1, SetValueTerminates
<1>9. CASE While
  <2>1. scopes' = Append(scopes, Fresh) \/ scopes' = scopes
    BY <1>9 DEF While, OpenBody, Step, Resume
  <2> QED
    BY <1>1, <2>1
<1>10. CASE Again
  BY <1>1, <1>10 DEF Again
<1>11. CASE Advance
  <2>1. Ending \/ scopes' = scopes
        \/ \E texts, h, p : scopes' = Bound(Append(scopes, Fresh), texts, h, p)
    BY <1>11, AdvanceShape
  <2> DEFINE new == Append(scopes, Fresh)
  <2>2. 1 \in DOMAIN new /\ Chain(new) /\ new[1] = scopes[1]
    BY <1>1
  <2> HIDE DEF new
  <2>3. \A texts, h, p : Bound(new, texts, h, p)[1].terminated = new[1].terminated
    BY <2>2, BoundTerminates
  <2> QED
    BY <1>2, <2>1, <2>2, <2>3 DEF new
<1>12. CASE UNCHANGED vars
  BY <1>12 DEF vars
<1> QED
  BY <1>3, <1>4, <1>5, <1>6, <1>7, <1>8, <1>9, <1>10, <1>11, <1>12
  DEF Next, Host, Interpret, Nodes, Statement, Calm, Ended

FinalInd == CursorInd /\ FinalInv

\* A sequence with another last element.
LEMMA ReplacedLast ==
  ASSUME NEW S, NEW st \in Seq(S), st # << >>, NEW f
  PROVE  LET new == Append(Front(st), f)
         IN  /\ Len(new) = Len(st) /\ DOMAIN new = 1 .. Len(st) /\ Last(new) = f
             /\ \A i \in 1 .. Len(st) : i # Len(st) => new[i] = st[i]
<1> DEFINE new == Append(Front(st), f)
<1>1. /\ Front(st) \in Seq(S \cup {f}) /\ f \in S \cup {f} /\ Len(st) \in Nat \ {0}
      /\ Len(Front(st)) = Len(st) - 1
      /\ \A i \in 1 .. Len(st) - 1 : Front(st)[i] = st[i]
  BY Ends, SeqMonotonic
<1>2. /\ new \in Seq(S \cup {f}) /\ Len(new) = (Len(st) - 1) + 1
      /\ \A i \in 1 .. Len(st) - 1 : new[i] = Front(st)[i]
      /\ new[(Len(st) - 1) + 1] = f
  BY <1>1, AppendProperties
<1>3. DOMAIN new = 1 .. Len(new)
  BY <1>2, LenProperties
<1> HIDE DEF new
<1>4. Last(new) = f
  BY <1>1, <1>2 DEF Last
<1>5. \A i \in 1 .. Len(st) : i # Len(st) => i \in 1 .. Len(st) - 1
  BY <1>1
<1>6. Len(new) = Len(st)
  BY <1>1, <1>2
<1> QED
  BY <1>1, <1>2, <1>3, <1>4, <1>5, <1>6 DEF new

\* A return in the global scope is made by a statement whose callers are all
\* lists and conditionals.
LEMMA ReturnMakesFinal ==
  ASSUME FinalInd, ~ scopes[1].terminated, Terminate
  PROVE  FinalInv'
<1> SUFFICES ASSUME scopes'[1].terminated
             PROVE  FinalInv'
  BY DEF FinalInv
<1>1. /\ TypeOK /\ JumpsInv /\ ScopeInv /\ CursorInv /\ ScopesOK(scopes)
      /\ stack \in Seq(Frame) /\ Linked(code, stack) /\ Order(stack)
  BY DEF FinalInd, CursorInd, TypeOK, CursorInv, ScopeInv
<1>2. /\ At("terminate", 0) /\ stack' = Append(Front(stack), Done(0))
      /\ scopes' = [scopes EXCEPT ![Len(scopes)].terminated = TRUE]
      /\ outcome' = "running"
  BY DEF Terminate, At
<1>3. stack # << >> /\ Top.todo # << >> /\ Head(Top.todo) = "terminate"
  BY <1>2 DEF At
<1>4. Len(scopes) = 1 /\ Len(scopes') = 1
  <2>1. 1 \in DOMAIN scopes /\ Len(scopes) \in Nat \ {0} /\ DOMAIN scopes = 1 .. Len(scopes)
    BY <1>1, OutermostScope, LenProperties DEF ScopesOK
  <2>2. Len(scopes) # 1 => scopes'[1] = scopes[1]
    BY <1>2, <2>1
  <2>3. Len(scopes) = 1
    BY <2>2
  <2>4. ScopesOK(scopes')
    <3>1. Kept
      BY <1>1, ActivationsKeepTypes DEF Statement
    <3> QED
      BY <3>1 DEF Kept, TypeOK
  <2>5. DOMAIN scopes' = DOMAIN scopes
    BY <1>2
  <2> QED
    BY <1>1, <2>3, <2>4, <2>5, SameLength
<1>5. Busy(stack) = {}
  <2>1. IsFiniteSet(Busy(stack)) /\ Depth(stack) \in Nat
    BY <1>1, DepthType
  <2> DEFINE d == Depth(stack)
  <2>2. 1 = 1 + d /\ d \in Nat
    BY <1>1, <1>4, <2>1 DEF ScopeInv
  <2> HIDE DEF d
  <2>3. d = 0
    BY <2>2
  <2> QED
    BY <2>1, <2>3, FS_EmptySet DEF Depth, d
<1>6. Sound(code, Top) /\ "terminate" \in Words(Top.node, Top.ls, Top.body)
  BY <1>1, <1>2, <1>3, TopSound, TopLegible
<1>7. Top.node \notin ExpressionTypes /\ Tail(Top.todo) = << >>
  <2>1. Top.node \notin ExpressionTypes
    BY <1>6 DEF Words, StatementSteps
  <2>2. Top.todo = <<"terminate">>
    BY <1>3, <1>6, KeyedShape DEF Sound, Orderly, Alone
  <2>3. Tail(<<"terminate">>) = << >>
    OBVIOUS
  <2> QED
    BY <2>1, <2>2, <2>3
<1> DEFINE l == Len(stack)
<1>8. /\ l \in Nat \ {0} /\ DOMAIN stack = 1 .. l /\ l \in 1 .. l /\ Top = stack[l]
  BY <1>1, <1>3, EmptySeq, LenProperties DEF Top, Last
<1> HIDE DEF l
<1>9. \A i \in 1 .. l : i # l => Head(stack[i].todo) \in {"stmt", "branch"}
  <2> SUFFICES ASSUME NEW i \in 1 .. l, i # l
               PROVE  Head(stack[i].todo) \in {"stmt", "branch"}
    OBVIOUS
  <2>1. i < l
    BY <1>8
  <2>2. Head(stack[i].todo) \in Opening
    BY <1>1, <1>7, <1>8, <2>1 DEF Linked, Opened
  <2>3. stack[i].todo # << >>
    BY <1>1, <1>8 DEF Order, Calls, l
  <2>4. ~ Waits(stack, i, "body")
    BY <1>5, <1>8 DEF Busy
  <2> QED
    BY <2>2, <2>3, <2>4 DEF Waits, Opening
<1> DEFINE f == Done(0)
<1>10. f.todo = << >>
  BY <1>1, <1>3, <1>7, AlikeFrames
<1> HIDE DEF f
<1>11. stack' = Append(Front(stack), f)
  BY <1>2 DEF f
<1>12. /\ DOMAIN stack' = 1 .. l /\ Len(stack') = l /\ Last(stack') = f
       /\ \A i \in 1 .. l : i # l => stack'[i] = stack[i]
  BY <1>1, <1>3, <1>11, ReplacedLast DEF l
<1>13. f.todo \in Seq(Leaving)
  BY <1>10
<1> QED
  BY <1>2, <1>4, <1>9, <1>12, <1>13 DEF FinalInv, Top

\* After it the innermost activation skips, ...
LEMMA FinalReplaced ==
  ASSUME FinalInd, scopes[1].terminated, stack # << >>,
         NEW f, stack' = Append(Front(stack), f), f.todo \in Seq(Leaving),
         scopes' = scopes, outcome' = outcome
  PROVE  FinalInv'
<1> DEFINE l == Len(stack)
<1>1. stack \in Seq(Frame) /\ DOMAIN stack = 1 .. l
  BY LenProperties DEF FinalInd, CursorInd, TypeOK
<1>2. /\ DOMAIN stack' = 1 .. l /\ Len(stack') = l /\ Last(stack') = f
      /\ \A i \in 1 .. l : i # l => stack'[i] = stack[i]
  BY <1>1, ReplacedLast
<1> QED
  BY <1>1, <1>2 DEF FinalInd, FinalInv, Top

\* ... or execute() ends.
LEMMA FinalEnding ==
  ASSUME FinalInd, scopes[1].terminated, Ending, outcome' # "idle"
  PROVE  FinalInv' /\ scopes'[1] = scopes[1]
<1>1. Len(<<scopes[1]>>) = 1 /\ <<scopes[1]>>[1] = scopes[1] /\ DOMAIN << >> = {}
  OBVIOUS
<1> QED
  BY <1>1 DEF Ending, FinalInv

\* The steps that are left then.
LEMMA FinalSteps ==
  ASSUME FinalInd, scopes[1].terminated, NEW step, NEW n, At(step, n)
  PROVE  /\ step \in Leaving /\ stack # << >> /\ Abandoned
         /\ Tail(Top.todo) \in Seq(Leaving)
         /\ step # "stmt" => step \in SkipSteps
<1>1. stack # << >> /\ Top.todo # << >> /\ Head(Top.todo) = step
  BY DEF At
<1>2. Top.todo \in Seq(Leaving) /\ Len(scopes) = 1
  BY <1>1 DEF FinalInd, FinalInv
<1>3. step \in Leaving /\ Tail(Top.todo) \in Seq(Leaving)
  BY <1>1, <1>2, HeadTailProperties
<1>4. Abandoned
  BY <1>2 DEF Abandoned, Last
<1> QED
  BY <1>1, <1>3, <1>4 DEF Leaving

\* Steps that skip leave steps that skip.
LEMMA SkipKeepsFinal ==
  ASSUME FinalInd, scopes[1].terminated, Skip \/ Drop \/ Count \/ ReadNames
  PROVE  Ending \/ \E f : stack # << >> /\ stack' = Append(Front(stack), f)
                          /\ f.todo \in Seq(Leaving) /\ scopes' = scopes /\ outcome' = outcome
<1>1. ASSUME NEW f, NEW p, Step(f, p)
      PROVE  stack' = Append(Front(stack), f) /\ scopes' = scopes /\ outcome' = outcome
  BY <1>1 DEF Step, Resume
<1>2. ASSUME stack # << >>
      PROVE  /\ Done(0).todo = Tail(Top.todo)
             /\ \A s : Then(Done(0), s).todo = s \o Tail(Top.todo)
             /\ \A s : Reading(Done(0), s).todo = Tail(Top.todo)
  <2>1. DOMAIN Top = {"node", "start", "ls", "body", "todo", "vals", "rd"}
    BY <1>2, TopType DEF Frame, FinalInd, CursorInd
  <2>2. Done(0).todo = Tail(Top.todo) /\ DOMAIN Done(0) = DOMAIN Top
    BY <2>1 DEF Done
  <2> QED
    BY <2>1, <2>2 DEF Then, Reading
<1>3. ASSUME NEW s \in Seq(SkipSteps), Tail(Top.todo) \in Seq(Leaving)
      PROVE  s \o Tail(Top.todo) \in Seq(Leaving)
  <2>1. s \in Seq(Leaving)
    BY <1>3, SeqMonotonic DEF Leaving
  <2> QED
    BY <1>3, <2>1, ConcatProperties
<1>4. CASE Skip
  <2> DEFINE type == code[pos].val
             f == Then(Done(0), Skipper[type])
  <2>1. stack # << >> /\ Tail(Top.todo) \in Seq(Leaving)
    BY <1>4, FinalSteps DEF Skip
  <2>2. CASE type \notin DOMAIN Skipper
    BY <1>4, <2>2, FailShape DEF Skip
  <2>3. CASE type \in DOMAIN Skipper
    <3>1. Step(f, pos + 1)
      BY <1>4, <2>3 DEF Skip
    <3>2. f.todo \in Seq(Leaving)
      BY <1>2, <1>3, <2>1, <2>3, SkipperSteps
    <3> HIDE DEF f
    <3> QED
      BY <1>1, <2>1, <3>1, <3>2
  <2> QED
    BY <2>2, <2>3
<1>5. CASE Drop
  <2>1. PICK step \in DOMAIN Dropped : At(step, 0) /\ Step(Done(0), pos + 1)
    BY <1>5 DEF Drop
  <2>2. stack # << >> /\ Tail(Top.todo) \in Seq(Leaving)
    BY <2>1, FinalSteps
  <2> QED
    BY <1>1, <1>2, <2>1, <2>2
<1>6. CASE Count
  <2>1. PICK step \in DOMAIN Repeats :
          /\ At(step, 0) /\ Reads("u32", pos)
          /\ Step(Then(Done(0), Times(code[pos].val, Repeats[step])), pos + 1)
    BY <1>6 DEF Count
  <2>2. stack # << >> /\ Tail(Top.todo) \in Seq(Leaving) /\ step \in Leaving
    BY <2>1, FinalSteps
  <2> DEFINE s == Times(code[pos].val, Repeats[step])
             f == Then(Done(0), s)
  <2>3. step \in {"skips", "skippedEntries", "skippedComparisons"}
    BY <2>1, <2>2, CountsNames DEF Leaving, SkipSteps, Dropped
  <2>4. Repeats[step] \in Seq(SkipSteps)
    <3>1. "skip" \in SkipSteps /\ "dropOp" \in SkipSteps
      BY DEF SkipSteps, Dropped
    <3>2. /\ Repeats["skips"] = <<"skip">> /\ Repeats["skippedEntries"] = <<"skip", "skip">>
          /\ Repeats["skippedComparisons"] = <<"dropOp", "skip">>
      BY DEF Repeats, SkipComparison
    <3>3. <<"skip">> \in Seq(SkipSteps) /\ <<"skip", "skip">> \in Seq(SkipSteps)
          /\ <<"dropOp", "skip">> \in Seq(SkipSteps)
      BY <3>1, ShortSeqs
    <3> QED
      BY <2>3, <3>2, <3>3
  <2>5. s \in Seq(SkipSteps)
    <3>1. IsCode(code) /\ Has(code, "u32", pos)
      BY <2>1 DEF Reads, Has, FinalInd, CursorInd, TypeOK
    <3> QED
      BY <2>4, <3>1, CountedType DEF Counted
  <2>6. Step(f, pos + 1)
    BY <2>1
  <2> HIDE DEF s
  <2>7. f.todo \in Seq(Leaving)
    BY <1>2, <1>3, <2>2, <2>5
  <2> HIDE DEF f
  <2> QED
    BY <1>1, <2>2, <2>6, <2>7
<1>7. CASE ReadNames
  <2>1. stack # << >> /\ Tail(Top.todo) \in Seq(Leaving)
    BY <1>7, FinalSteps DEF ReadNames
  <2>2. \/ \E msg : Fail(msg)
        \/ Step(Done(0), PastNames(pos))
        \/ Step(Reading(Done(0), NamesAt(pos)), PastNames(pos))
    BY <1>7 DEF ReadNames
  <2>3. Done(0).todo \in Seq(Leaving) /\ Reading(Done(0), NamesAt(pos)).todo \in Seq(Leaving)
    BY <1>2, <2>1
  <2> DEFINE f == Done(0)
             g == Reading(Done(0), NamesAt(pos))
  <2>4. f.todo \in Seq(Leaving) /\ g.todo \in Seq(Leaving)
        /\ ((\E msg : Fail(msg)) \/ Step(f, PastNames(pos)) \/ Step(g, PastNames(pos)))
    BY <2>2, <2>3
  <2> HIDE DEF f, g
  <2> QED
    BY <1>1, <2>1, <2>4, FailShape
<1> QED
  BY <1>4, <1>5, <1>6, <1>7

\* Leaving an activation leaves its caller with statements to skip.
LEMMA ReturnKeepsFinal ==
  ASSUME FinalInd, scopes[1].terminated, Return
  PROVE  FinalInv'
<1> DEFINE l == Len(stack)
           below == Front(stack)
           caller == stack[l - 1]
           f == Received(caller, ReturnValue(Top), Top.ls)
<1>1. /\ l > 1 /\ caller.todo # << >> /\ stack' = Append(Front(below), f)
      /\ scopes' = scopes /\ outcome' = outcome
  BY DEF Return
<1>2. /\ stack \in Seq(Frame) /\ Linked(code, stack) /\ Order(stack) /\ l \in Nat
      /\ DOMAIN stack = 1 .. l
  <2>1. stack \in Seq(Frame) /\ Linked(code, stack) /\ Order(stack)
    BY DEF FinalInd, CursorInd, TypeOK, CursorInv, ScopeInv
  <2> QED
    BY <2>1, LenProperties
<1>3. /\ l - 1 \in 1 .. l /\ l - 1 # l /\ stack # << >> /\ l - 1 \in Nat \ {0}
  <2>1. l > 1 /\ l \in Nat
    BY <1>1, <1>2
  <2>2. stack # << >>
    BY <2>1
  <2> HIDE DEF l
  <2> QED
    BY <2>1, <2>2
<1>4. Head(caller.todo) \in {"stmt", "branch"}
  BY <1>2, <1>3 DEF FinalInd, FinalInv
<1>5. /\ below \in Seq(Frame) /\ Len(below) = l - 1
      /\ \A i \in 1 .. l - 1 : below[i] = stack[i]
  BY <1>2, <1>3, Ends
<1>6. below # << >>
  BY <1>3, <1>5
<1>7. f.todo = Tail(caller.todo)
  <2>1. caller \in Frame
    BY <1>2, <1>3, ElementOfSeq
  <2> QED
    BY <2>1 DEF Received, Frame
<1>8. Tail(caller.todo) \in Seq(Leaving)
  <2>1. Formed(caller.todo)
    BY <1>2, <1>3 DEF Linked, Sound, Orderly
  <2>2. CASE Head(caller.todo) = "stmt"
    <3>1. caller.todo \in Seq({"stmt"})
      BY <1>1, <2>1, <2>2, KeyedShape
    <3>2. Tail(caller.todo) \in Seq({"stmt"})
      BY <1>1, <3>1, HeadTailProperties
    <3> QED
      BY <3>2, SeqMonotonic DEF Leaving
  <2>3. CASE Head(caller.todo) = "branch"
    <3>1. caller.todo \in { <<"branch">>, <<"branch", "skip">> }
      BY <1>1, <2>1, <2>3, KeyedShape
    <3>2. Tail(<<"branch">>) = << >> /\ Tail(<<"branch", "skip">>) = <<"skip">>
      OBVIOUS
    <3>3. "skip" \in Leaving
      BY DEF Leaving, SkipSteps
    <3>4. << >> \in Seq(Leaving) /\ <<"skip">> \in Seq(Leaving)
      BY <3>3, ShortSeqs
    <3> QED
      BY <3>1, <3>2, <3>4
  <2> QED
    BY <1>4, <2>2, <2>3
<1> HIDE DEF f, below, l, caller
<1>9. /\ DOMAIN stack' = 1 .. l - 1 /\ Len(stack') = l - 1 /\ Last(stack') = f
      /\ \A i \in 1 .. l - 1 : i # l - 1 => stack'[i] = below[i]
  BY <1>1, <1>5, <1>6, ReplacedLast
<1>10. \A i \in 1 .. l - 1 : i # l - 1 => Head(stack'[i].todo) \in {"stmt", "branch"}
  <2>1. \A i \in 1 .. l - 1 : i \in 1 .. l /\ i # l
    BY <1>2
  <2>2. \A i \in DOMAIN stack : i # Len(stack) => Head(stack[i].todo) \in {"stmt", "branch"}
    BY DEF FinalInd, FinalInv
  <2>3. \A i \in 1 .. l : i # l => Head(stack[i].todo) \in {"stmt", "branch"}
    BY <1>2, <2>2 DEF l
  <2> QED
    BY <1>5, <1>9, <2>1, <2>3
<1>11. outcome' # "idle" /\ Len(scopes') = 1
  BY <1>1 DEF FinalInd, FinalInv
<1> QED
  BY <1>7, <1>8, <1>9, <1>10, <1>11 DEF FinalInv, Top

\* After a return in the global scope every step keeps it final, and the
\* global scope as it is.
LEMMA FinalGoesOn ==
  ASSUME FinalInd, scopes[1].terminated, [Next]_vars
  PROVE  FinalInv' /\ scopes'[1] = scopes[1]
<1>1. CASE UNCHANGED vars
  BY <1>1 DEF vars, FinalInd, FinalInv, Top
<1>2. outcome # "idle"
  BY DEF FinalInd, FinalInv
<1>3. CASE Host
  BY <1>2, <1>3 DEF Host, SetString, PresetString, SetList, PresetList, SetModule, Preset,
     Execute, Idle
<1>4. CASE Finish
  <2>1. Ending /\ outcome' # "idle"
    BY <1>4, FailShape DEF Finish, Fail
  <2> QED
    BY <2>1, FinalEnding
<1>5. ASSUME Nodes \/ Expressions \/ Statement
      PROVE  outcome' # "idle"
  BY <1>5, NeverIdle DEF FinalInd, CursorInd
<1>6. CASE Skip \/ Drop \/ Count \/ ReadNames
  <2>1. outcome' # "idle"
    BY <1>5, <1>6 DEF Nodes, Expressions
  <2> QED
    BY <1>6, <2>1, SkipKeepsFinal, FinalEnding, FinalReplaced
<1>7. CASE Return
  BY <1>7, ReturnKeepsFinal DEF Return
<1>8. ASSUME NEW step, NEW n, At(step, n)
      PROVE  step \in Leaving /\ Abandoned
  BY <1>8, FinalSteps
<1>9. Leaving = { "stmt", "skip", "skips", "skippedEntries", "skippedComparisons", "dropNames",
                  "dropString", "dropInteger", "dropOp" }
  BY DEF Leaving, SkipSteps, Dropped
<1>10. ~ \E step \in ChildSteps : Enter(step)
  BY <1>8, <1>9 DEF Enter, ChildSteps
<1>11. ASSUME NEW n
       PROVE  /\ \A step \in { "op", "name", "lookup", "string", "integer", "list", "append",
                               "dictionary", "insert", "unary" } : ~ At(step, n)
              /\ \A step \in { "binary", "compare", "subscript", "attribute", "decide",
                               "decided", "undecided", "callable", "call" } : ~ At(step, n)
              /\ \A step \in { "target", "fetch", "augment", "alias", "load", "member", "bind",
                               "choose", "while", "iterate", "next", "again", "break",
                               "continue", "terminate" } : ~ At(step, n)
  BY <1>8, <1>9
<1>12. ~ (\/ ReadOp \/ ReadName \/ Lookup \/ String \/ Integer \/ NewList \/ AppendElement
          \/ NewDictionary \/ InsertEntry \/ Unary)
  BY <1>11 DEF ReadOp, ReadName, Lookup, String, Integer, NewList, AppendElement,
     NewDictionary, InsertEntry, Unary
<1>13. ~ (\/ Binary \/ Compare \/ Subscript \/ Attribute \/ Decide \/ Decided \/ Undecided
          \/ CheckCallable \/ Call)
  BY <1>11 DEF Binary, Compare, Subscript, Attribute, Decide, Decided, Undecided,
     CheckCallable, Call
<1>14. ~ Statement
  BY <1>11 DEF Statement, Assign, Fetch, Augment, MakeAlias, Load, Member, BindImport,
     Choose, While, Iterate, Advance, Again, Jump, Terminate
<1> QED
  BY <1>1, <1>3, <1>4, <1>6, <1>7, <1>10, <1>12, <1>13, <1>14
  DEF Next, Interpret, Nodes, Expressions, Ended

(***************************************************************************)
(* After a return in the global scope nothing changes a variable any more, *)
(* however deep in lists and conditionals the return was made: return      *)
(* marks only the innermost scope, and a statement list asks only its own. *)
(***************************************************************************)
THEOREM ReturnIsFinalCorrect ==
  ProgramsWellFormed => (Spec => ReturnIsFinal)
<1> SUFFICES ASSUME ProgramsWellFormed
             PROVE  Spec => ReturnIsFinal
  OBVIOUS
<1>1. Init => FinalInd
  <2>1. Init => ~ scopes[1].terminated
    BY DEF Init, Fresh
  <2> QED
    BY <2>1, InitCursor DEF FinalInd, FinalInv
<1>2. FinalInd /\ [Next]_vars => FinalInd'
  <2> SUFFICES ASSUME FinalInd, [Next]_vars
               PROVE  FinalInv'
    BY NextCursor DEF FinalInd
  <2>1. CASE scopes[1].terminated
    BY <2>1, FinalGoesOn
  <2>2. CASE ~ scopes[1].terminated /\ Terminate
    BY <2>2, ReturnMakesFinal
  <2>3. CASE ~ scopes[1].terminated /\ ~ Terminate
    <3>1. scopes'[1].terminated = scopes[1].terminated
      BY <2>3, OnlyReturnTerminates DEF FinalInd, CursorInd
    <3> QED
      BY <2>3, <3>1 DEF FinalInv
  <2> QED
    BY <2>1, <2>2, <2>3
<1>3. FinalInd /\ [Next]_vars => [scopes[1].terminated => scopes'[1].values = scopes[1].values]_vars
  BY FinalGoesOn
<1> QED
  BY <1>1, <1>2, <1>3, PTL DEF Spec, ReturnIsFinal

=============================================================================
