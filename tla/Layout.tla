------------------------------- MODULE Layout -------------------------------
(***************************************************************************)
(* Which sequences of fields are laid out the way the tables of module     *)
(* Bytecode read them.  The compiler's output is: TLC checks that of the   *)
(* runs' programs, and Compiler_proofs proves it of every syntax tree.     *)
(* The theorems about the interpreter's cursor rest on it.                 *)
(*                                                                         *)
(* Nothing here is a part of chipy: the layout is only implicit in         *)
(* parse_next, execute_next and skip_next.                                 *)
(***************************************************************************)
EXTENDS Bytecode

\* The field at p is of that kind, or a node of that type.
Has(c, kind, p)    == p \in DOMAIN c /\ c[p].kind = kind
NodeAt(c, type, p) == Has(c, "node", p) /\ c[p].val = type

\* Where the node at p ends: the number of the first field after it.
NodeEnd(c, p) == IF p \in DOMAIN c THEN p + c[p].span ELSE p

\* The nodes that are evaluated for a value, and never jump.
ExpressionTypes ==
  { "Name", "String", "Compare", "Dictionary", "Integer", "Call", "Attribute",
    "UnaryOp", "BinaryOp", "BoolOp", "List", "Tuple", "Subscript", "Index", "Alias" }

\* Some while loop is around p, and no for loop between the two.
InWhile(c, p) ==
  \E w \in 1 .. p - 1 :
    /\ NodeAt(c, "WhileLoop", w) /\ p < NodeEnd(c, w)
    /\ \A f \in w + 1 .. p - 1 : NodeAt(c, "ForLoop", f) => NodeEnd(c, f) <= p

\* The steps of skip_next.
SkipSteps ==
  { "skip", "skips", "skippedEntries", "skippedComparisons", "dropNames" } \cup DOMAIN Dropped

\* Steps that read a whole node, or one field of their own.  (A loop's body
\* goes back to its start; what comes after it is up to "again".)
NodeSteps ==
  { "expr", "test", "branch", "stmt", "skip", "name", "names", "dropNames",
    "fetch", "target", "while", "next", "again" }
FieldSteps == DOMAIN Dropped \cup { "op", "lookup", "string", "integer" }

\* In node n, an uncounted step finds at p what it reads.
Legible(c, n, step, p) ==
  /\ FieldRead(step) # "any" => Has(c, FieldRead(step), p)
  /\ step = "alias" => Has(c, "str", p + 1)
  /\ step \in {"expr", "test"} => c[p].val \in ExpressionTypes
  /\ step \in {"stmt", "branch"} => (InWhile(c, n) => InWhile(c, p))
  /\ step = "choose" =>
       \A q \in {p} \cup (IF c[n].val = "If" THEN {} ELSE {NodeEnd(c, p)}) :
         Has(c, "node", q) /\ (InWhile(c, n) => InWhile(c, q))
  /\ step \in {"while", "next", "body", "again"} =>
       NodeAt(c, "StatementList", p) /\ (c[n].val = "WhileLoop" => InWhile(c, p))

\* Where it leaves the cursor.
StopsAt(c, n, step, p) ==
  CASE step \in NodeSteps  -> NodeEnd(c, p)
    [] step \in FieldSteps -> p + 1
    [] step = "alias"      -> p + 2
    [] step = "choose"     -> IF c[n].val = "If" THEN NodeEnd(c, p)
                                                 ELSE NodeEnd(c, NodeEnd(c, p))
    [] OTHER               -> p

-----------------------------------------------------------------------------
(* Sequences of steps: "at" cuts the fields into those of each step. *)

\* Uncounted steps, from the field p up to the field q.
RowCuts(c, n, steps, at) ==
  /\ at \in [1 .. Len(steps) + 1 -> Nat]
  /\ \A i \in DOMAIN steps :
       Legible(c, n, steps[i], at[i]) /\ at[i + 1] = StopsAt(c, n, steps[i], at[i])

Cuts(c, n, steps, p) ==
  LET at[i \in 1 .. Len(steps) + 1] ==
        IF i = 1 THEN p ELSE StopsAt(c, n, steps[i - 1], at[i - 1])
  IN  at

Row(c, n, steps, p, q) ==
  LET at == Cuts(c, n, steps, p)
  IN  RowCuts(c, n, steps, at) /\ at[1] = p /\ at[Len(steps) + 1] = q

\* Any step: a counted one reads its count, and is the row it unfolds to.
Counted(c, step, p) == Times(c[p].val, Repeats[step])

Passes(c, n, step, p, q) ==
  IF step \in DOMAIN Repeats
  THEN Has(c, "u32", p) /\ Row(c, n, Counted(c, step, p), p + 1, q)
  ELSE Legible(c, n, step, p) /\ q = StopsAt(c, n, step, p)

PassesTo(c, n, step, p) ==
  IF step \in DOMAIN Repeats
  THEN IF Has(c, "u32", p)
       THEN LET steps == Counted(c, step, p)
            IN  Cuts(c, n, steps, p + 1)[Len(steps) + 1]
       ELSE p
  ELSE StopsAt(c, n, step, p)

\* The steps of a handler, from the field p up to the field q.
Fits(c, n, steps, at) ==
  /\ at \in [1 .. Len(steps) + 1 -> Nat]
  /\ \A i \in DOMAIN steps : Passes(c, n, steps[i], at[i], at[i + 1])

Along(c, n, steps, p, q) ==
  LET at[i \in 1 .. Len(steps) + 1] ==
        IF i = 1 THEN p ELSE PassesTo(c, n, steps[i - 1], at[i - 1])
  IN  Fits(c, n, steps, at) /\ at[1] = p /\ at[Len(steps) + 1] = q

-----------------------------------------------------------------------------
(* Programs. *)

\* Each node holds what its case of execute_next reads, and what its case of
\* skip_next reads, neither more nor less.
LaidOut(c) ==
  \A p \in DOMAIN c : c[p].kind = "node" =>
    LET type == c[p].val
    IN  /\ type \in DOMAIN Handler => Along(c, p, Handler[type], p + 1, NodeEnd(c, p))
        /\ type \in DOMAIN Skipper => Along(c, p, Skipper[type], p + 1, NodeEnd(c, p))

\* No break leaves a while loop.  (Such a break is a finding of its own: the
\* interpreter leaves the loop but its cursor stays in front of the body.)
BreaksLeaveFors(c) == \A p \in DOMAIN c : NodeAt(c, "Break", p) => ~ InWhile(c, p)

\* A program: nothing, or one node.
WellFormed(c) ==
  /\ c # << >> => Has(c, "node", 1) /\ NodeEnd(c, 1) = Len(c) + 1
  /\ LaidOut(c) /\ BreaksLeaveFors(c)

=============================================================================
