-------------------------- MODULE Compiler_proofs --------------------------
(***************************************************************************)
(* Proofs about the compiler: what it makes of any syntax tree is laid out *)
(* the way module Layout says, so that the theorems about the              *)
(* interpreter's cursor hold of every compiled program.                    *)
(*                                                                         *)
(* Encode is defined by recursion on trees of lesser height.  The first    *)
(* part shows that it satisfies its equation, the second that all fields   *)
(* of a tree's code are parts of whole nodes ("Entire"), the third that    *)
(* the steps of each node's handler, and of skip_next, lead from the field *)
(* after the node to the node's end, and the last that module Layout       *)
(* computes the same.                                                      *)
(***************************************************************************)
EXTENDS Cursor_proofs, Chipy, WellFoundedInduction

-----------------------------------------------------------------------------
(* Induction and recursion. *)

\* Induction over the natural numbers, for the members of a set.
LEMMA Induction ==
  ASSUME NEW S, 0 \in S, \A k \in Nat : k \in S => k + 1 \in S
  PROVE  \A k \in Nat : k \in S
<1> SUFFICES ASSUME NEW n \in Nat, n \notin S PROVE FALSE
  OBVIOUS
<1> DEFINE D == 1 .. n
           Bad == { 1 .. k : k \in { i \in 0 .. n : i \notin S } }
<1>1. Bad \subseteq SUBSET D
  OBVIOUS
<1>2. Bad # {}
  <2>1. n \in 0 .. n
    OBVIOUS
  <2> QED
    BY <2>1
<1>3. IsFiniteSet(D)
  BY FS_Interval
<1>4. IsWellFoundedOn(StrictSubsetOrdering(D), SUBSET D)
  <2>1. FiniteSubsetsOf(D) = SUBSET D
    BY <1>3, FS_FiniteSubsetsOfFinite
  <2> QED
    BY <2>1, FS_StrictSubsetOrderingWellFounded
<1>5. PICK t \in Bad : \A y \in Bad : ~ (<<y, t>> \in StrictSubsetOrdering(D))
  <2> HIDE DEF Bad, D
  <2> QED
    BY <1>1, <1>2, <1>4, WFMin
<1>6. PICK k \in 0 .. n : k \notin S /\ t = 1 .. k
  BY <1>5
<1>7. k # 0 /\ k - 1 \in 0 .. n /\ k - 1 \notin S
  <2>1. k # 0
    BY <1>6
  <2>2. k - 1 \in Nat /\ (k - 1) + 1 = k
    BY <2>1
  <2> QED
    BY <1>6, <2>1, <2>2
<1>8. 1 .. (k - 1) \in Bad
  BY <1>7
<1>9. /\ 1 .. (k - 1) \in SUBSET D /\ 1 .. k \in SUBSET D
      /\ 1 .. (k - 1) \subseteq 1 .. k /\ 1 .. (k - 1) # 1 .. k
  <2>1. k \in 1 .. k /\ k \notin 1 .. (k - 1)
    BY <1>7
  <2> QED
    BY <2>1
<1>10. <<1 .. (k - 1), 1 .. k>> \in StrictSubsetOrdering(D)
  <2> HIDE DEF D
  <2> QED
    BY <1>9 DEF StrictSubsetOrdering
<1> QED
  BY <1>5, <1>6, <1>8, <1>10

\* Joined begins with nothing, and joins one part after the other.
Joins(u, parts, n) ==
  u = [i \in 0 .. n |-> IF i = 0 THEN << >> ELSE u[i - 1] \o parts[i]]

\* There is such a sequence of sequences, ...
LEMMA JoinsExists ==
  ASSUME NEW parts, NEW n \in Nat
  PROVE  \E u : Joins(u, parts, n)
<1> DEFINE S == { k \in Nat : \E u : Joins(u, parts, k) }
<1>1. 0 \in S
  <2> DEFINE u == [i \in 0 .. 0 |-> << >>]
  <2>1. u = [i \in 0 .. 0 |-> IF i = 0 THEN << >> ELSE u[i - 1] \o parts[i]]
    OBVIOUS
  <2> QED
    BY <2>1 DEF Joins
<1>2. ASSUME NEW k \in Nat, k \in S PROVE k + 1 \in S
  <2>1. PICK v : Joins(v, parts, k)
    BY <1>2
  <2> DEFINE u == [i \in 0 .. k + 1 |-> IF i <= k THEN v[i] ELSE v[k] \o parts[i]]
  <2>2. ASSUME NEW i \in 0 .. k + 1
        PROVE  u[i] = IF i = 0 THEN << >> ELSE u[i - 1] \o parts[i]
    <3>1. \A j \in 0 .. k : v[j] = IF j = 0 THEN << >> ELSE v[j - 1] \o parts[j]
      BY <2>1 DEF Joins
    <3>2. CASE i = 0
      BY <3>1, <3>2
    <3>3. CASE i # 0 /\ i <= k
      <4>1. i \in 0 .. k /\ i - 1 \in 0 .. k /\ i - 1 \in 0 .. k + 1 /\ i - 1 <= k
        BY <3>3
      <4>2. u[i] = v[i] /\ u[i - 1] = v[i - 1]
        BY <3>3, <4>1
      <4> HIDE DEF u
      <4> QED
        BY <3>1, <3>3, <4>1, <4>2
    <3>4. CASE i = k + 1
      <4>1. i # 0 /\ i - 1 = k /\ k \in 0 .. k + 1 /\ ~ (i <= k)
        BY <3>4
      <4>2. u[i] = v[k] \o parts[i] /\ u[i - 1] = v[k]
        BY <4>1
      <4> HIDE DEF u
      <4> QED
        BY <4>1, <4>2
    <3> QED
      BY <3>2, <3>3, <3>4
  <2>3. u = [i \in 0 .. k + 1 |-> IF i = 0 THEN << >> ELSE u[i - 1] \o parts[i]]
    <3>1. u = [i \in 0 .. k + 1 |-> u[i]]
      OBVIOUS
    <3> HIDE DEF u
    <3> QED
      BY <2>2, <3>1
  <2> HIDE DEF u
  <2>4. Joins(u, parts, k + 1)
    BY <2>3 DEF Joins
  <2>5. \E w : Joins(w, parts, k + 1)
    BY <2>4
  <2> QED
    BY <2>5
<1>3. \A k \in Nat : k \in S
  <2> HIDE DEF S
  <2> QED
    BY <1>1, <1>2, Induction
<1> QED
  BY <1>3

\* ... and Joined is the last of them.
LEMMA JoinedSteps ==
  ASSUME NEW parts, NEW n \in Nat
  PROVE  \E u : /\ u[0] = << >> /\ Joined(parts, n) = u[n]
                /\ \A i \in 1 .. n : u[i] = u[i - 1] \o parts[i]
<1> DEFINE u == CHOOSE u : Joins(u, parts, n)
<1>1. Joins(u, parts, n)
  BY JoinsExists
<1>2. Joined(parts, n) = u[n]
  BY DEF Joined, Joins
<1> HIDE DEF u
<1>3. u[0] = << >> /\ \A i \in 1 .. n : u[i] = u[i - 1] \o parts[i]
  BY <1>1 DEF Joins
<1> QED
  BY <1>2, <1>3

-----------------------------------------------------------------------------
(* The compiler's recursion. *)

\* All parts of a tree.
PartsOf(n) == StatementParts(n) \cup ExpressionParts(n)

\* The parts of a tree are trees of less height.
LEMMA Parts ==
  ASSUME NEW n \in Trees
  PROVE  /\ Height[n] \in Nat
         /\ \A m \in PartsOf(n) : m \in Trees /\ Height[m] \in Nat /\ Height[m] < Height[n]
BY TreesAreTrees DEF IsTree, PartsOf

\* The trees of a sequence, encoded by two functions that agree on them.
LEMMA SameAll ==
  ASSUME NEW trees \in Seq(Trees), NEW e, NEW f, \A m \in Range(trees) : e[m] = f[m]
  PROVE  /\ EncodeAll(e, trees) = EncodeAll(f, trees)
         /\ EncodeList(e, trees) = EncodeList(f, trees)
         /\ \A ops : EncodeChain(e, ops, trees) = EncodeChain(f, ops, trees)
<1>1. \A i \in DOMAIN trees : e[trees[i]] = f[trees[i]]
  BY DEF Range
<1>2. [i \in DOMAIN trees |-> e[trees[i]]] = [i \in DOMAIN trees |-> f[trees[i]]]
  BY <1>1
<1>3. EncodeAll(e, trees) = EncodeAll(f, trees)
  BY <1>2 DEF EncodeAll
<1>4. ASSUME NEW ops PROVE EncodeChain(e, ops, trees) = EncodeChain(f, ops, trees)
  <2>1. [i \in DOMAIN trees |-> Oper(ops[i]) \o e[trees[i]]]
          = [i \in DOMAIN trees |-> Oper(ops[i]) \o f[trees[i]]]
    BY <1>1
  <2> QED
    BY <2>1 DEF EncodeChain
<1> QED
  BY <1>3, <1>4 DEF EncodeList

\* Keys and values that two functions agree on.
LEMMA SameBoth ==
  ASSUME NEW keys \in Seq(Trees), NEW values \in Seq(Trees), Len(values) = Len(keys), NEW e, NEW f,
         \A m \in Range(keys) \cup Range(values) : e[m] = f[m]
  PROVE  EncodeBoth(e, keys, values) = EncodeBoth(f, keys, values)
<1>1. \A i \in DOMAIN keys : e[keys[i]] = f[keys[i]] /\ e[values[i]] = f[values[i]]
  <2>1. DOMAIN keys = DOMAIN values
    OBVIOUS
  <2> QED
    BY <2>1 DEF Range
<1>2. [i \in DOMAIN keys |-> e[keys[i]] \o e[values[i]]]
        = [i \in DOMAIN keys |-> f[keys[i]] \o f[values[i]]]
  BY <1>1
<1> QED
  BY <1>2 DEF EncodeBoth

\* The trees that the compiler knows.
TreeTypes ==
  { "ImportFrom", "Import", "Alias", "Name", "Assign", "Suite", "Str",
    "Return", "Dict", "Compare", "Number", "If", "Call", "Attribute",
    "UnaryOp", "BoolOp", "BinOp", "List", "Subscript", "Index", "For",
    "While", "AugAssign", "ExpressionStatement", "Continue", "Break",
    "Tuple" }

\* The parts of a tree, case by case.
LEMMA PartsOfTree ==
  ASSUME NEW n
  PROVE  /\ n.type = "ImportFrom" => StatementParts(n) = {} /\ ExpressionParts(n) = {n.module, n.names}
         /\ n.type = "Import" => StatementParts(n) = {} /\ ExpressionParts(n) = {n.names}
         /\ n.type = "Alias" => StatementParts(n) = {} /\ ExpressionParts(n) = {}
         /\ n.type = "Name" => StatementParts(n) = {} /\ ExpressionParts(n) = {}
         /\ n.type = "Assign" => StatementParts(n) = {}
              /\ ExpressionParts(n) = {n.value} \cup Range(n.targets)
         /\ n.type = "Suite" => StatementParts(n) = Range(n.items) /\ ExpressionParts(n) = {}
         /\ n.type = "Str" => StatementParts(n) = {} /\ ExpressionParts(n) = {}
         /\ n.type = "Return" => StatementParts(n) = {} /\ ExpressionParts(n) = {n.value}
         /\ n.type = "Dict" => StatementParts(n) = {}
              /\ ExpressionParts(n) = Range(n.keys) \cup Range(n.values)
         /\ n.type = "Compare" => StatementParts(n) = {}
              /\ ExpressionParts(n) = {n.left} \cup Range(n.comparators)
         /\ n.type = "Number" => StatementParts(n) = {} /\ ExpressionParts(n) = {}
         /\ n.type = "If" => StatementParts(n) = {n.body} \cup ({n.orelse} \ {Missing})
              /\ ExpressionParts(n) = {n.test}
         /\ n.type = "Call" => StatementParts(n) = {}
              /\ ExpressionParts(n) = {n.function} \cup Range(n.arguments)
         /\ n.type = "Attribute" => StatementParts(n) = {} /\ ExpressionParts(n) = {n.value, n.attribute}
         /\ n.type = "UnaryOp" => StatementParts(n) = {} /\ ExpressionParts(n) = {n.operand}
         /\ n.type = "BoolOp" => StatementParts(n) = {} /\ ExpressionParts(n) = Range(n.values)
         /\ n.type = "BinOp" => StatementParts(n) = {} /\ ExpressionParts(n) = {n.left, n.right}
         /\ n.type = "List" => StatementParts(n) = {} /\ ExpressionParts(n) = Range(n.elements)
         /\ n.type = "Subscript" => StatementParts(n) = {} /\ ExpressionParts(n) = {n.value, n.slice}
         /\ n.type = "Index" => StatementParts(n) = {} /\ ExpressionParts(n) = {n.value}
         /\ n.type = "For" => StatementParts(n) = {n.body} /\ ExpressionParts(n) = {n.target, n.iter}
         /\ n.type = "While" => StatementParts(n) = {n.body} /\ ExpressionParts(n) = {n.test}
         /\ n.type = "AugAssign" => StatementParts(n) = {} /\ ExpressionParts(n) = {n.target, n.value}
         /\ n.type = "ExpressionStatement" => StatementParts(n) = {} /\ ExpressionParts(n) = {n.expr}
         /\ n.type = "Continue" => StatementParts(n) = {} /\ ExpressionParts(n) = {}
         /\ n.type = "Break" => StatementParts(n) = {} /\ ExpressionParts(n) = {}
         /\ n.type = "Tuple" => StatementParts(n) = {} /\ ExpressionParts(n) = Range(n.elements)
<1>1. n.type = "ImportFrom" => StatementParts(n) = {} /\ ExpressionParts(n) = {n.module, n.names}
  BY DEF StatementParts, ExpressionParts
<1>2. n.type = "Import" => StatementParts(n) = {} /\ ExpressionParts(n) = {n.names}
  BY DEF StatementParts, ExpressionParts
<1>3. n.type = "Alias" => StatementParts(n) = {} /\ ExpressionParts(n) = {}
  BY DEF StatementParts, ExpressionParts
<1>4. n.type = "Name" => StatementParts(n) = {} /\ ExpressionParts(n) = {}
  BY DEF StatementParts, ExpressionParts
<1>5. n.type = "Assign" => StatementParts(n) = {} /\ ExpressionParts(n) = {n.value} \cup Range(n.targets)
  BY DEF StatementParts, ExpressionParts
<1>6. n.type = "Suite" => StatementParts(n) = Range(n.items) /\ ExpressionParts(n) = {}
  BY DEF StatementParts, ExpressionParts
<1>7. n.type = "Str" => StatementParts(n) = {} /\ ExpressionParts(n) = {}
  BY DEF StatementParts, ExpressionParts
<1>8. n.type = "Return" => StatementParts(n) = {} /\ ExpressionParts(n) = {n.value}
  BY DEF StatementParts, ExpressionParts
<1>9. n.type = "Dict" => StatementParts(n) = {}
        /\ ExpressionParts(n) = Range(n.keys) \cup Range(n.values)
  BY DEF StatementParts, ExpressionParts
<1>10. n.type = "Compare" => StatementParts(n) = {}
         /\ ExpressionParts(n) = {n.left} \cup Range(n.comparators)
  BY DEF StatementParts, ExpressionParts
<1>11. n.type = "Number" => StatementParts(n) = {} /\ ExpressionParts(n) = {}
  BY DEF StatementParts, ExpressionParts
<1>12. n.type = "If" => StatementParts(n) = {n.body} \cup ({n.orelse} \ {Missing})
         /\ ExpressionParts(n) = {n.test}
  BY DEF StatementParts, ExpressionParts
<1>13. n.type = "Call" => StatementParts(n) = {}
         /\ ExpressionParts(n) = {n.function} \cup Range(n.arguments)
  BY DEF StatementParts, ExpressionParts
<1>14. n.type = "Attribute" => StatementParts(n) = {} /\ ExpressionParts(n) = {n.value, n.attribute}
  BY DEF StatementParts, ExpressionParts
<1>15. n.type = "UnaryOp" => StatementParts(n) = {} /\ ExpressionParts(n) = {n.operand}
  BY DEF StatementParts, ExpressionParts
<1>16. n.type = "BoolOp" => StatementParts(n) = {} /\ ExpressionParts(n) = Range(n.values)
  BY DEF StatementParts, ExpressionParts
<1>17. n.type = "BinOp" => StatementParts(n) = {} /\ ExpressionParts(n) = {n.left, n.right}
  BY DEF StatementParts, ExpressionParts
<1>18. n.type = "List" => StatementParts(n) = {} /\ ExpressionParts(n) = Range(n.elements)
  BY DEF StatementParts, ExpressionParts
<1>19. n.type = "Subscript" => StatementParts(n) = {} /\ ExpressionParts(n) = {n.value, n.slice}
  BY DEF StatementParts, ExpressionParts
<1>20. n.type = "Index" => StatementParts(n) = {} /\ ExpressionParts(n) = {n.value}
  BY DEF StatementParts, ExpressionParts
<1>21. n.type = "For" => StatementParts(n) = {n.body} /\ ExpressionParts(n) = {n.target, n.iter}
  BY DEF StatementParts, ExpressionParts
<1>22. n.type = "While" => StatementParts(n) = {n.body} /\ ExpressionParts(n) = {n.test}
  BY DEF StatementParts, ExpressionParts
<1>23. n.type = "AugAssign" => StatementParts(n) = {} /\ ExpressionParts(n) = {n.target, n.value}
  BY DEF StatementParts, ExpressionParts
<1>24. n.type = "ExpressionStatement" => StatementParts(n) = {} /\ ExpressionParts(n) = {n.expr}
  BY DEF StatementParts, ExpressionParts
<1>25. n.type = "Continue" => StatementParts(n) = {} /\ ExpressionParts(n) = {}
  BY DEF StatementParts, ExpressionParts
<1>26. n.type = "Break" => StatementParts(n) = {} /\ ExpressionParts(n) = {}
  BY DEF StatementParts, ExpressionParts
<1>27. n.type = "Tuple" => StatementParts(n) = {} /\ ExpressionParts(n) = Range(n.elements)
  BY DEF StatementParts, ExpressionParts
<1> QED
  BY <1>1, <1>2, <1>3, <1>4, <1>5, <1>6, <1>7, <1>8, <1>9, <1>10, <1>11, <1>12, <1>13, <1>14,
     <1>15, <1>16, <1>17, <1>18, <1>19, <1>20, <1>21, <1>22, <1>23, <1>24, <1>25, <1>26, <1>27

\* What parse_next writes, case by case.
LEMMA ParseNextCases ==
  ASSUME NEW n, NEW enc
  PROVE  /\ n.type = "ImportFrom" => ParseNext(enc, n) =
              Node("ImportFrom", enc[n.module] \o enc[n.names])
         /\ n.type = "Import" => ParseNext(enc, n) =
              Node("Import", enc[n.names])
         /\ n.type = "Alias" => ParseNext(enc, n) =
              Node("Alias", Chars(n.name) \o Chars(n.as_name))
         /\ n.type = "Name" => ParseNext(enc, n) =
              Node("Name", Chars(n.id))
         /\ n.type = "Assign" => ParseNext(enc, n) =
              Node("Assign", enc[n.value] \o EncodeList(enc, n.targets))
         /\ n.type = "Suite" => ParseNext(enc, n) =
              Node("StatementList", EncodeList(enc, n.items))
         /\ n.type = "Str" => ParseNext(enc, n) =
              Node("String", Chars(n.value))
         /\ n.type = "Return" => ParseNext(enc, n) =
              Node("Return", enc[n.value])
         /\ n.type = "Dict" => ParseNext(enc, n) =
              Node("Dictionary", U32(Len(n.keys)) \o EncodeBoth(enc, n.keys, n.values))
         /\ n.type = "Compare" => ParseNext(enc, n) =
              Node("Compare", enc[n.left] \o U32(Len(n.comparators))
                \o EncodeChain(enc, n.operators, n.comparators))
         /\ n.type = "Number" => ParseNext(enc, n) =
              Node("Integer", I32(n.integer))
         /\ n.type = "If" /\ n.orelse # Missing => ParseNext(enc, n) =
              Node("IfElse", enc[n.test] \o enc[n.body] \o enc[n.orelse])
         /\ n.type = "If" /\ n.orelse = Missing => ParseNext(enc, n) =
              Node("If", enc[n.test] \o enc[n.body])
         /\ n.type = "Call" => ParseNext(enc, n) =
              Node("Call", enc[n.function] \o EncodeList(enc, n.arguments))
         /\ n.type = "Attribute" => ParseNext(enc, n) =
              Node("Attribute", enc[n.value] \o enc[n.attribute])
         /\ n.type = "UnaryOp" => ParseNext(enc, n) =
              Node("UnaryOp", Oper(n.op) \o enc[n.operand])
         /\ n.type = "BoolOp" => ParseNext(enc, n) =
              Node("BoolOp", Oper(n.op) \o EncodeList(enc, n.values))
         /\ n.type = "BinOp" => ParseNext(enc, n) =
              Node("BinaryOp", Oper(n.op) \o (enc[n.left] \o enc[n.right]))
         /\ n.type = "List" => ParseNext(enc, n) =
              Node("List", EncodeList(enc, n.elements))
         /\ n.type = "Subscript" => ParseNext(enc, n) =
              Node("Subscript", enc[n.slice] \o enc[n.value])
         /\ n.type = "Index" => ParseNext(enc, n) =
              Node("Index", enc[n.value])
         /\ n.type = "For" => ParseNext(enc, n) =
              Node("ForLoop", enc[n.target] \o enc[n.iter] \o enc[n.body])
         /\ n.type = "While" => ParseNext(enc, n) =
              Node("WhileLoop", enc[n.test] \o enc[n.body])
         /\ n.type = "AugAssign" => ParseNext(enc, n) =
              Node("AugmentedAssign", Oper(n.op) \o enc[n.target] \o enc[n.value])
         /\ n.type = "ExpressionStatement" => ParseNext(enc, n) =
              enc[n.expr]
         /\ n.type = "Continue" => ParseNext(enc, n) =
              Node("Continue", << >>)
         /\ n.type = "Break" => ParseNext(enc, n) =
              Node("Break", << >>)
         /\ n.type = "Tuple" => ParseNext(enc, n) =
              Node("Tuple", EncodeList(enc, n.elements))
         /\ n.type \notin TreeTypes => ParseNext(enc, n) = Refused
<1>1. n.type = "ImportFrom" => ParseNext(enc, n) =
       Node("ImportFrom", enc[n.module] \o enc[n.names])
  BY DEF ParseNext
<1>2. n.type = "Import" => ParseNext(enc, n) =
       Node("Import", enc[n.names])
  BY DEF ParseNext
<1>3. n.type = "Alias" => ParseNext(enc, n) =
       Node("Alias", Chars(n.name) \o Chars(n.as_name))
  BY DEF ParseNext
<1>4. n.type = "Name" => ParseNext(enc, n) =
       Node("Name", Chars(n.id))
  BY DEF ParseNext
<1>5. n.type = "Assign" => ParseNext(enc, n) =
       Node("Assign", enc[n.value] \o EncodeList(enc, n.targets))
  BY DEF ParseNext
<1>6. n.type = "Suite" => ParseNext(enc, n) =
       Node("StatementList", EncodeList(enc, n.items))
  BY DEF ParseNext
<1>7. n.type = "Str" => ParseNext(enc, n) =
       Node("String", Chars(n.value))
  BY DEF ParseNext
<1>8. n.type = "Return" => ParseNext(enc, n) =
       Node("Return", enc[n.value])
  BY DEF ParseNext
<1>9. n.type = "Dict" => ParseNext(enc, n) =
       Node("Dictionary", U32(Len(n.keys)) \o EncodeBoth(enc, n.keys, n.values))
  BY DEF ParseNext
<1>10. n.type = "Compare" => ParseNext(enc, n) =
       Node("Compare", enc[n.left] \o U32(Len(n.comparators))
         \o EncodeChain(enc, n.operators, n.comparators))
  BY DEF ParseNext
<1>11. n.type = "Number" => ParseNext(enc, n) =
       Node("Integer", I32(n.integer))
  BY DEF ParseNext
<1>12. n.type = "If" /\ n.orelse # Missing => ParseNext(enc, n) =
       Node("IfElse", enc[n.test] \o enc[n.body] \o enc[n.orelse])
  BY DEF ParseNext
<1>13. n.type = "If" /\ n.orelse = Missing => ParseNext(enc, n) =
       Node("If", enc[n.test] \o enc[n.body])
  BY DEF ParseNext
<1>14. n.type = "Call" => ParseNext(enc, n) =
       Node("Call", enc[n.function] \o EncodeList(enc, n.arguments))
  BY DEF ParseNext
<1>15. n.type = "Attribute" => ParseNext(enc, n) =
       Node("Attribute", enc[n.value] \o enc[n.attribute])
  BY DEF ParseNext
<1>16. n.type = "UnaryOp" => ParseNext(enc, n) =
       Node("UnaryOp", Oper(n.op) \o enc[n.operand])
  BY DEF ParseNext, EncodeOperator
<1>17. n.type = "BoolOp" => ParseNext(enc, n) =
       Node("BoolOp", Oper(n.op) \o EncodeList(enc, n.values))
  BY DEF ParseNext, EncodeOperator
<1>18. n.type = "BinOp" => ParseNext(enc, n) =
       Node("BinaryOp", Oper(n.op) \o (enc[n.left] \o enc[n.right]))
  BY DEF ParseNext, EncodeOperator
<1>19. n.type = "List" => ParseNext(enc, n) =
       Node("List", EncodeList(enc, n.elements))
  BY DEF ParseNext, EncodeAccess
<1>20. n.type = "Subscript" => ParseNext(enc, n) =
       Node("Subscript", enc[n.slice] \o enc[n.value])
  BY DEF ParseNext, EncodeAccess
<1>21. n.type = "Index" => ParseNext(enc, n) =
       Node("Index", enc[n.value])
  BY DEF ParseNext, EncodeAccess
<1>22. n.type = "For" => ParseNext(enc, n) =
       Node("ForLoop", enc[n.target] \o enc[n.iter] \o enc[n.body])
  BY DEF ParseNext, EncodeLoop
<1>23. n.type = "While" => ParseNext(enc, n) =
       Node("WhileLoop", enc[n.test] \o enc[n.body])
  BY DEF ParseNext, EncodeLoop
<1>24. n.type = "AugAssign" => ParseNext(enc, n) =
       Node("AugmentedAssign", Oper(n.op) \o enc[n.target] \o enc[n.value])
  BY DEF ParseNext
<1>25. n.type = "ExpressionStatement" => ParseNext(enc, n) =
       enc[n.expr]
  BY DEF ParseNext
<1>26. n.type = "Continue" => ParseNext(enc, n) =
       Node("Continue", << >>)
  BY DEF ParseNext
<1>27. n.type = "Break" => ParseNext(enc, n) =
       Node("Break", << >>)
  BY DEF ParseNext
<1>28. n.type = "Tuple" => ParseNext(enc, n) =
       Node("Tuple", EncodeList(enc, n.elements))
  BY DEF ParseNext
<1>29. n.type \notin TreeTypes => ParseNext(enc, n) = Refused
  BY DEF ParseNext, TreeTypes
<1> QED
  BY <1>1, <1>2, <1>3, <1>4, <1>5, <1>6, <1>7, <1>8, <1>9, <1>10, <1>11, <1>12, <1>13, <1>14,
     <1>15, <1>16, <1>17, <1>18, <1>19, <1>20, <1>21, <1>22, <1>23, <1>24, <1>25, <1>26, <1>27,
     <1>28, <1>29

\* What parse_next writes for a tree depends only on its parts.
LEMMA ParseNextLocal ==
  ASSUME NEW n \in Trees, NEW e, NEW f, \A m \in PartsOf(n) : e[m] = f[m]
  PROVE  ParseNext(e, n) = ParseNext(f, n)
<1>1. IsTree(n)
  BY TreesAreTrees
<1>2. /\ \A m \in StatementParts(n) : e[m] = f[m]
      /\ \A m \in ExpressionParts(n) : e[m] = f[m]
  BY DEF PartsOf
<1>3. CASE n.type = "ImportFrom"
  <2>1. e[n.module] = f[n.module] /\ e[n.names] = f[n.names]
    BY <1>2, <1>3, PartsOfTree
  <2> QED
    BY <1>3, <2>1, ParseNextCases
<1>4. CASE n.type = "Import"
  <2>1. e[n.names] = f[n.names]
    BY <1>2, <1>4, PartsOfTree
  <2> QED
    BY <1>4, <2>1, ParseNextCases
<1>5. CASE n.type = "Alias"
  BY <1>5, ParseNextCases
<1>6. CASE n.type = "Name"
  BY <1>6, ParseNextCases
<1>7. CASE n.type = "Assign"
  <2>1. e[n.value] = f[n.value]
    BY <1>2, <1>7, PartsOfTree
  <2>2. n.targets \in Seq(Trees) /\ \A m \in Range(n.targets) : e[m] = f[m]
    BY <1>1, <1>2, <1>7, PartsOfTree DEF IsTree
  <2>3. EncodeList(e, n.targets) = EncodeList(f, n.targets)
    BY <2>2, SameAll
  <2> QED
    BY <1>7, <2>1, <2>3, ParseNextCases
<1>8. CASE n.type = "Suite"
  <2>1. n.items \in Seq(Trees) /\ \A m \in Range(n.items) : e[m] = f[m]
    BY <1>1, <1>2, <1>8, PartsOfTree DEF IsTree
  <2>2. EncodeList(e, n.items) = EncodeList(f, n.items)
    BY <2>1, SameAll
  <2> QED
    BY <1>8, <2>2, ParseNextCases
<1>9. CASE n.type = "Str"
  BY <1>9, ParseNextCases
<1>10. CASE n.type = "Return"
  <2>1. e[n.value] = f[n.value]
    BY <1>2, <1>10, PartsOfTree
  <2> QED
    BY <1>10, <2>1, ParseNextCases
<1>11. CASE n.type = "Dict"
  <2>1. /\ n.keys \in Seq(Trees) /\ n.values \in Seq(Trees) /\ Len(n.values) = Len(n.keys)
        /\ \A m \in Range(n.keys) \cup Range(n.values) : e[m] = f[m]
    BY <1>1, <1>2, <1>11, PartsOfTree DEF IsTree
  <2>2. EncodeBoth(e, n.keys, n.values) = EncodeBoth(f, n.keys, n.values)
    BY <2>1, SameBoth
  <2> QED
    BY <1>11, <2>2, ParseNextCases
<1>12. CASE n.type = "Compare"
  <2>1. e[n.left] = f[n.left]
    BY <1>2, <1>12, PartsOfTree
  <2>2. n.comparators \in Seq(Trees) /\ \A m \in Range(n.comparators) : e[m] = f[m]
    BY <1>1, <1>2, <1>12, PartsOfTree DEF IsTree
  <2>3. EncodeChain(e, n.operators, n.comparators) = EncodeChain(f, n.operators, n.comparators)
    BY <2>2, SameAll
  <2> QED
    BY <1>12, <2>1, <2>3, ParseNextCases
<1>13. CASE n.type = "Number"
  BY <1>13, ParseNextCases
<1>14. CASE n.type = "If" /\ n.orelse # Missing
  <2>1. e[n.test] = f[n.test] /\ e[n.body] = f[n.body] /\ e[n.orelse] = f[n.orelse]
    BY <1>2, <1>14, PartsOfTree
  <2> QED
    BY <1>14, <2>1, ParseNextCases
<1>15. CASE n.type = "If" /\ n.orelse = Missing
  <2>1. e[n.test] = f[n.test] /\ e[n.body] = f[n.body]
    BY <1>2, <1>15, PartsOfTree
  <2> QED
    BY <1>15, <2>1, ParseNextCases
<1>16. CASE n.type = "Call"
  <2>1. e[n.function] = f[n.function]
    BY <1>2, <1>16, PartsOfTree
  <2>2. n.arguments \in Seq(Trees) /\ \A m \in Range(n.arguments) : e[m] = f[m]
    BY <1>1, <1>2, <1>16, PartsOfTree DEF IsTree
  <2>3. EncodeList(e, n.arguments) = EncodeList(f, n.arguments)
    BY <2>2, SameAll
  <2> QED
    BY <1>16, <2>1, <2>3, ParseNextCases
<1>17. CASE n.type = "Attribute"
  <2>1. e[n.value] = f[n.value] /\ e[n.attribute] = f[n.attribute]
    BY <1>2, <1>17, PartsOfTree
  <2> QED
    BY <1>17, <2>1, ParseNextCases
<1>18. CASE n.type = "UnaryOp"
  <2>1. e[n.operand] = f[n.operand]
    BY <1>2, <1>18, PartsOfTree
  <2> QED
    BY <1>18, <2>1, ParseNextCases
<1>19. CASE n.type = "BoolOp"
  <2>1. n.values \in Seq(Trees) /\ \A m \in Range(n.values) : e[m] = f[m]
    BY <1>1, <1>2, <1>19, PartsOfTree DEF IsTree
  <2>2. EncodeList(e, n.values) = EncodeList(f, n.values)
    BY <2>1, SameAll
  <2> QED
    BY <1>19, <2>2, ParseNextCases
<1>20. CASE n.type = "BinOp"
  <2>1. e[n.left] = f[n.left] /\ e[n.right] = f[n.right]
    BY <1>2, <1>20, PartsOfTree
  <2> QED
    BY <1>20, <2>1, ParseNextCases
<1>21. CASE n.type = "List"
  <2>1. n.elements \in Seq(Trees) /\ \A m \in Range(n.elements) : e[m] = f[m]
    BY <1>1, <1>2, <1>21, PartsOfTree DEF IsTree
  <2>2. EncodeList(e, n.elements) = EncodeList(f, n.elements)
    BY <2>1, SameAll
  <2> QED
    BY <1>21, <2>2, ParseNextCases
<1>22. CASE n.type = "Subscript"
  <2>1. e[n.slice] = f[n.slice] /\ e[n.value] = f[n.value]
    BY <1>2, <1>22, PartsOfTree
  <2> QED
    BY <1>22, <2>1, ParseNextCases
<1>23. CASE n.type = "Index"
  <2>1. e[n.value] = f[n.value]
    BY <1>2, <1>23, PartsOfTree
  <2> QED
    BY <1>23, <2>1, ParseNextCases
<1>24. CASE n.type = "For"
  <2>1. e[n.target] = f[n.target] /\ e[n.iter] = f[n.iter] /\ e[n.body] = f[n.body]
    BY <1>2, <1>24, PartsOfTree
  <2> QED
    BY <1>24, <2>1, ParseNextCases
<1>25. CASE n.type = "While"
  <2>1. e[n.test] = f[n.test] /\ e[n.body] = f[n.body]
    BY <1>2, <1>25, PartsOfTree
  <2> QED
    BY <1>25, <2>1, ParseNextCases
<1>26. CASE n.type = "AugAssign"
  <2>1. e[n.target] = f[n.target] /\ e[n.value] = f[n.value]
    BY <1>2, <1>26, PartsOfTree
  <2> QED
    BY <1>26, <2>1, ParseNextCases
<1>27. CASE n.type = "ExpressionStatement"
  <2>1. e[n.expr] = f[n.expr]
    BY <1>2, <1>27, PartsOfTree
  <2> QED
    BY <1>27, <2>1, ParseNextCases
<1>28. CASE n.type = "Continue"
  BY <1>28, ParseNextCases
<1>29. CASE n.type = "Break"
  BY <1>29, ParseNextCases
<1>30. CASE n.type = "Tuple"
  <2>1. n.elements \in Seq(Trees) /\ \A m \in Range(n.elements) : e[m] = f[m]
    BY <1>1, <1>2, <1>30, PartsOfTree DEF IsTree
  <2>2. EncodeList(e, n.elements) = EncodeList(f, n.elements)
    BY <2>1, SameAll
  <2> QED
    BY <1>30, <2>2, ParseNextCases
<1>31. CASE n.type \notin TreeTypes
  BY <1>31, ParseNextCases
<1> QED
  BY <1>3, <1>4, <1>5, <1>6, <1>7, <1>8, <1>9, <1>10, <1>11, <1>12, <1>13, <1>14, <1>15, <1>16,
     <1>17, <1>18, <1>19, <1>20, <1>21, <1>22, <1>23, <1>24, <1>25, <1>26, <1>27, <1>28, <1>29,
     <1>30, <1>31 DEF TreeTypes

\* A function that follows parse_next, for the trees that are less high than h.
Follows(f, h) ==
  /\ f = [n \in Trees |-> f[n]]
  /\ \A n \in Trees : Height[n] < h => f[n] = ParseNext(f, n)

\* There is one for every height ...
LEMMA FollowsExists ==
  ASSUME NEW h \in Nat
  PROVE  \E f : Follows(f, h)
<1> DEFINE S == { k \in Nat : \E f : Follows(f, k) }
<1>1. 0 \in S
  <2> DEFINE f == [n \in Trees |-> << >>]
  <2>1. f = [n \in Trees |-> f[n]]
    OBVIOUS
  <2>2. \A n \in Trees : ~ (Height[n] < 0)
    BY Parts
  <2> HIDE DEF f
  <2>3. Follows(f, 0)
    BY <2>1, <2>2 DEF Follows
  <2>4. \E g : Follows(g, 0)
    BY <2>3
  <2> QED
    BY <2>4
<1>2. ASSUME NEW k \in Nat, k \in S PROVE k + 1 \in S
  <2>1. PICK f : Follows(f, k)
    BY <1>2
  <2> DEFINE g == [n \in Trees |-> ParseNext(f, n)]
  <2>2. g = [n \in Trees |-> g[n]] /\ \A n \in Trees : g[n] = ParseNext(f, n)
    OBVIOUS
  <2> HIDE DEF g
  <2>3. ASSUME NEW n \in Trees, Height[n] < k + 1
        PROVE  g[n] = ParseNext(g, n)
    <3>1. ASSUME NEW m \in PartsOf(n) PROVE f[m] = g[m]
      <4>1. m \in Trees /\ Height[m] < k
        BY <2>3, Parts
      <4> QED
        BY <2>1, <2>2, <4>1 DEF Follows
    <3> QED
      BY <2>2, <3>1, ParseNextLocal
  <2>4. Follows(g, k + 1)
    BY <2>2, <2>3 DEF Follows
  <2>5. \E f1 : Follows(f1, k + 1)
    BY <2>4
  <2> QED
    BY <2>5
<1>3. \A k \in Nat : k \in S
  <2> HIDE DEF S
  <2> QED
    BY <1>1, <1>2, Induction
<1> QED
  BY <1>3

\* ... and two of them agree.
LEMMA FollowsAgree ==
  ASSUME NEW h \in Nat, NEW f, NEW g, Follows(f, h), Follows(g, h)
  PROVE  \A n \in Trees : Height[n] < h => f[n] = g[n]
<1> DEFINE S == { k \in Nat : \A n \in Trees : Height[n] < h /\ Height[n] < k => f[n] = g[n] }
<1>1. 0 \in S
  BY Parts
<1>2. ASSUME NEW k \in Nat, k \in S PROVE k + 1 \in S
  <2>1. ASSUME NEW n \in Trees, Height[n] < h, Height[n] < k + 1
        PROVE  f[n] = g[n]
    <3>1. ASSUME NEW m \in PartsOf(n) PROVE f[m] = g[m]
      <4>1. m \in Trees /\ Height[m] < k /\ Height[m] < h
        BY <2>1, Parts
      <4> QED
        BY <1>2, <4>1
    <3>2. ParseNext(f, n) = ParseNext(g, n)
      BY <3>1, ParseNextLocal
    <3> QED
      BY <2>1, <3>2 DEF Follows
  <2> QED
    BY <2>1
<1>3. \A k \in Nat : k \in S
  <2> HIDE DEF S
  <2> QED
    BY <1>1, <1>2, Induction
<1> QED
  BY <1>3, Parts

\* So Encode is what its definition says.
LEMMA EncodeEquation ==
  \A n \in Trees : Encode[n] = ParseNext(Encode, n)
<1> DEFINE at(n) == CHOOSE f : Follows(f, Height[n] + 1)
           all   == [n \in Trees |-> at(n)[n]]
<1>1. ASSUME NEW n \in Trees PROVE Follows(at(n), Height[n] + 1) /\ all[n] = at(n)[n]
  <2>1. Height[n] + 1 \in Nat
    BY Parts
  <2>2. \E f : Follows(f, Height[n] + 1)
    BY <2>1, FollowsExists
  <2> QED
    BY <2>2
<1>2. all = [n \in Trees |-> all[n]]
  OBVIOUS
<1> HIDE DEF at, all
<1>3. ASSUME NEW n \in Trees PROVE all[n] = ParseNext(all, n)
  <2>1. ASSUME NEW m \in PartsOf(n) PROVE at(n)[m] = all[m]
    <3>1. /\ m \in Trees /\ Height[m] + 1 \in Nat /\ Height[n] + 1 \in Nat
          /\ Height[m] < Height[m] + 1
               /\ \A k \in Trees : Height[k] < Height[m] + 1 => Height[k] < Height[n] + 1
      BY Parts
    <3>2. Follows(at(n), Height[m] + 1)
      BY <1>1, <3>1 DEF Follows
    <3>3. at(n)[m] = at(m)[m]
      BY <1>1, <3>1, <3>2, FollowsAgree
    <3> QED
      BY <1>1, <3>1, <3>3
  <2>2. ParseNext(at(n), n) = ParseNext(all, n)
    BY <2>1, ParseNextLocal
  <2>3. Height[n] < Height[n] + 1
    BY Parts
  <2>4. at(n)[n] = ParseNext(at(n), n)
    BY <1>1, <2>3 DEF Follows
  <2> QED
    BY <1>1, <2>2, <2>4
<1>4. all = [n \in Trees |-> ParseNext(all, n)]
  BY <1>2, <1>3
<1>5. Encode = [n \in Trees |-> ParseNext(Encode, n)]
  BY <1>4 DEF Encode
<1> QED
  BY <1>5

-----------------------------------------------------------------------------
(* What the compiler writes: whole nodes, one inside the other. *)

\* What the compiler may write into a field, and the fields that it writes.
FieldValues == STRING \cup Int \cup NodeTypes \cup {"Unknown statement type!"}
CodeFields  == [kind : FieldKinds \cup {"refused"}, val : FieldValues, span : Nat \ {0}]

\* The fields s are in c, from the field p on.
Placed(c, p, s) ==
  /\ p \in Nat \ {0} /\ p + Len(s) <= Len(c) + 1
  /\ \A i \in 1 .. Len(s) : c[p + i - 1] = s[i]

\* At p begins what is written for a tree.
Spot(s, p) ==
  \E n \in Trees : /\ n.type # "ExpressionStatement" /\ Encode[n] \in Seq(CodeFields)
                   /\ Placed(s, p, Encode[n])

\* No node of s goes beyond s, and each is what is written for a tree.
EntireAt(s, p) ==
  /\ s[p].kind # "refused" => IsField(s[p])
  /\ p + s[p].span <= Len(s) + 1
  /\ s[p].kind = "node" => Spot(s, p)

\* All of its fields are like that.
Entire(s) == s \in Seq(CodeFields) /\ \A p \in 1 .. Len(s) : EntireAt(s, p)

\* A part of a part.
LEMMA PlacedIn ==
  ASSUME NEW S, NEW c \in Seq(S), NEW s \in Seq(S), NEW e \in Seq(S), NEW p, NEW q,
         Placed(c, p, s), Placed(s, q, e)
  PROVE  Placed(c, p + q - 1, e)
<1>1. Len(c) \in Nat /\ Len(s) \in Nat /\ Len(e) \in Nat
  BY LenProperties
<1>2. p \in Nat \ {0} /\ q \in Nat \ {0}
  BY DEF Placed
<1>3. p + q - 1 \in Nat \ {0} /\ (p + q - 1) + Len(e) <= Len(c) + 1
  BY <1>1, <1>2 DEF Placed
<1>4. ASSUME NEW i \in 1 .. Len(e) PROVE c[(p + q - 1) + i - 1] = e[i]
  <2>1. s[q + i - 1] = e[i] /\ q + i - 1 \in 1 .. Len(s)
    BY <1>1, <1>2 DEF Placed
  <2>2. c[p + (q + i - 1) - 1] = s[q + i - 1]
    BY <2>1 DEF Placed
  <2>3. p + (q + i - 1) - 1 = (p + q - 1) + i - 1
    BY <1>2
  <2> QED
    BY <2>1, <2>2, <2>3
<1> QED
  BY <1>3, <1>4 DEF Placed

\* Where the two halves of a sequence are.
LEMMA PlacedHalves ==
  ASSUME NEW S, NEW s \in Seq(S), NEW t \in Seq(S)
  PROVE  /\ s \o t \in Seq(S) /\ Len(s \o t) = Len(s) + Len(t)
         /\ Placed(s \o t, 1, s) /\ Placed(s \o t, Len(s) + 1, t)
<1>1. Len(s) \in Nat /\ Len(t) \in Nat
  BY LenProperties
<1>2. /\ s \o t \in Seq(S) /\ Len(s \o t) = Len(s) + Len(t)
      /\ \A i \in 1 .. Len(s) + Len(t) :
           (s \o t)[i] = IF i <= Len(s) THEN s[i] ELSE t[i - Len(s)]
  BY ConcatProperties
<1>3. \A i \in 1 .. Len(s) : (s \o t)[1 + i - 1] = s[i]
  BY <1>1, <1>2
<1>4. ASSUME NEW i \in 1 .. Len(t) PROVE (s \o t)[(Len(s) + 1) + i - 1] = t[i]
  <2>1. /\ (Len(s) + 1) + i - 1 = Len(s) + i /\ Len(s) + i \in 1 .. Len(s) + Len(t)
        /\ ~ (Len(s) + i <= Len(s)) /\ (Len(s) + i) - Len(s) = i
    BY <1>1
  <2> QED
    BY <1>2, <2>1
<1> QED
  BY <1>1, <1>2, <1>3, <1>4 DEF Placed

\* Two halves in their places.
LEMMA PlacedBoth ==
  ASSUME NEW S, NEW c \in Seq(S), NEW s \in Seq(S), NEW t \in Seq(S), NEW p, Placed(c, p, s \o t)
  PROVE  Placed(c, p, s) /\ Placed(c, p + Len(s), t)
<1>1. /\ s \o t \in Seq(S) /\ Len(s) \in Nat /\ p \in Nat
      /\ Placed(s \o t, 1, s) /\ Placed(s \o t, Len(s) + 1, t)
  <2>1. p \in Nat
    BY DEF Placed
  <2> QED
    BY <2>1, PlacedHalves, LenProperties
<1>2. Placed(c, p + 1 - 1, s) /\ Placed(c, p + (Len(s) + 1) - 1, t)
  BY <1>1, PlacedIn
<1>3. p + 1 - 1 = p /\ p + (Len(s) + 1) - 1 = p + Len(s)
  BY <1>1
<1> QED
  BY <1>2, <1>3

\* What is said of a field holds wherever the fields around it are.
LEMMA EntireAtMoves ==
  ASSUME NEW c \in Seq(CodeFields), NEW s, Entire(s), NEW p, Placed(c, p, s), NEW i \in 1 .. Len(s)
  PROVE  EntireAt(c, p + i - 1)
<1>1. s \in Seq(CodeFields) /\ EntireAt(s, i) /\ c[p + i - 1] = s[i] /\ s[i].span \in Nat
  <2>1. s \in Seq(CodeFields) /\ EntireAt(s, i) /\ c[p + i - 1] = s[i]
    BY DEF Entire, Placed
  <2>2. s[i] \in CodeFields
    BY <2>1, ElementOfSeq
  <2> QED
    BY <2>1, <2>2 DEF CodeFields
<1>2. (p + i - 1) + s[i].span <= Len(c) + 1
  <2>1. Len(s) \in Nat /\ Len(c) \in Nat
    BY <1>1, LenProperties
  <2> QED
    BY <1>1, <2>1, SMTT(40) DEF EntireAt, Placed
<1>3. ASSUME Spot(s, i) PROVE Spot(c, p + i - 1)
  BY <1>1, <1>3, PlacedIn DEF Spot
<1> QED
  BY <1>1, <1>2, <1>3 DEF EntireAt

\* One whole sequence after another.
LEMMA EntireConcat ==
  ASSUME NEW s, NEW t, Entire(s), Entire(t)
  PROVE  Entire(s \o t)
<1>1. /\ s \in Seq(CodeFields) /\ t \in Seq(CodeFields)
      /\ s \o t \in Seq(CodeFields) /\ Len(s \o t) = Len(s) + Len(t)
      /\ Placed(s \o t, 1, s) /\ Placed(s \o t, Len(s) + 1, t)
  BY PlacedHalves DEF Entire
<1>2. Len(s) \in Nat /\ Len(t) \in Nat
  BY <1>1, LenProperties
<1>3. ASSUME NEW p \in 1 .. Len(s) + Len(t) PROVE EntireAt(s \o t, p)
  <2>1. CASE p <= Len(s)
    <3>1. p \in 1 .. Len(s) /\ 1 + p - 1 = p
      BY <1>2, <2>1
    <3> QED
      BY <1>1, <3>1, EntireAtMoves
  <2>2. CASE ~ (p <= Len(s))
    <3>1. p - Len(s) \in 1 .. Len(t) /\ (Len(s) + 1) + (p - Len(s)) - 1 = p
      BY <1>2, <2>2
    <3> QED
      BY <1>1, <3>1, EntireAtMoves
  <2> QED
    BY <2>1, <2>2
<1> QED
  BY <1>1, <1>3 DEF Entire

\* No field at all, and single fields that are no node.
LEMMA EntireFields ==
  /\ Entire(<< >>) /\ Entire(Refused)
  /\ \A k \in Nat : Entire(U32(k))
  /\ \A s \in STRING : Entire(Chars(s)) /\ Entire(Oper(s))
  /\ \A i \in Int : Entire(I32(i))
<1>1. Entire(<< >>)
  BY DEF Entire
<1>2. ASSUME NEW f \in CodeFields, f.kind # "node", f.span = 1, f.kind # "refused" => IsField(f)
      PROVE  Entire(<<f>>)
  <2>1. <<f>> \in Seq(CodeFields) /\ Len(<<f>>) = 1 /\ <<f>>[1] = f /\ \A p \in 1 .. 1 : p = 1
    OBVIOUS
  <2>2. EntireAt(<<f>>, 1)
    BY <1>2, <2>1 DEF EntireAt
  <2> QED
    BY <2>1, <2>2 DEF Entire
<1>3. Entire(Refused)
  <2> DEFINE f == Field("refused", "Unknown statement type!")
  <2>1. f \in CodeFields /\ f.kind = "refused" /\ f.span = 1
    BY DEF Field, CodeFields, FieldValues
  <2> HIDE DEF f
  <2>2. Entire(<<f>>)
    BY <1>2, <2>1
  <2> QED
    BY <2>2 DEF Refused, f
<1>4. ASSUME NEW kind \in FieldKinds \ {"node"}, NEW val \in FieldValues, IsField(Field(kind, val))
      PROVE  Entire(<<Field(kind, val)>>)
  <2>1. Field(kind, val) \in CodeFields /\ Field(kind, val).kind = kind /\ Field(kind, val).span = 1
    BY DEF Field, CodeFields, FieldKinds
  <2>2. kind # "node" /\ kind # "refused"
    BY DEF FieldKinds
  <2> QED
    BY <1>2, <1>4, <2>1, <2>2
<1>5. ASSUME NEW k \in Nat PROVE Entire(U32(k))
  <2>1. "u32" \in FieldKinds \ {"node"} /\ k \in FieldValues /\ IsField(Field("u32", k))
    BY DEF FieldValues, FieldKinds, IsField, Field
  <2> QED
    BY <1>4, <2>1 DEF U32
<1>6. ASSUME NEW s \in STRING PROVE Entire(Chars(s)) /\ Entire(Oper(s))
  <2>1. "str" \in FieldKinds \ {"node"} /\ "op" \in FieldKinds \ {"node"}
    BY DEF FieldKinds
  <2>2. s \in FieldValues
    BY DEF FieldValues
  <2>3. IsField(Field("str", s))
    BY DEF FieldKinds, IsField, Field
  <2>4. IsField(Field("op", s))
    BY DEF FieldKinds, IsField, Field
  <2> QED
    BY <1>4, <2>1, <2>2, <2>3, <2>4 DEF Chars, Oper
<1>7. ASSUME NEW i \in Int PROVE Entire(I32(i))
  <2>1. Wrap(i) \in Int
    BY IntRange DEF Wrap
  <2> DEFINE w == Wrap(i)
  <2> HIDE DEF w
  <2>2. w \in Int
    BY <2>1 DEF w
  <2>3. "i32" \in FieldKinds \ {"node"} /\ w \in FieldValues
    BY <2>2 DEF FieldKinds, FieldValues
  <2>4. IsField(Field("i32", w))
    BY <2>2 DEF FieldKinds, IsField, Field
  <2> QED
    BY <1>4, <2>3, <2>4 DEF I32, w
<1> QED
  BY <1>1, <1>3, <1>5, <1>6, <1>7

\* What a loop of the compiler writes.
LEMMA EntireJoined ==
  ASSUME NEW k \in Nat, NEW parts, \A i \in 1 .. k : Entire(parts[i])
  PROVE  Entire(Joined(parts, k))
<1>1. PICK u : /\ u[0] = << >> /\ Joined(parts, k) = u[k]
               /\ \A i \in 1 .. k : u[i] = u[i - 1] \o parts[i]
  BY JoinedSteps
<1> DEFINE S == { j \in Nat : j <= k => Entire(u[j]) }
<1>2. 0 \in S
  BY <1>1, EntireFields
<1>3. ASSUME NEW j \in Nat, j \in S PROVE j + 1 \in S
  <2> SUFFICES ASSUME j + 1 <= k PROVE Entire(u[j + 1])
    OBVIOUS
  <2>1. j + 1 \in 1 .. k /\ (j + 1) - 1 = j /\ j <= k
    OBVIOUS
  <2>2. u[j + 1] = u[j] \o parts[j + 1] /\ Entire(u[j]) /\ Entire(parts[j + 1])
    BY <1>1, <1>3, <2>1
  <2> QED
    BY <2>2, EntireConcat
<1>4. k \in S
  <2> HIDE DEF S
  <2> QED
    BY <1>2, <1>3, Induction
<1> QED
  BY <1>1, <1>4

\* A node and what follows it.
LEMMA EntireNode ==
  ASSUME NEW n \in Trees, n.type # "ExpressionStatement", NEW type \in NodeTypes,
         NEW rest, Entire(rest), Encode[n] = Node(type, rest)
  PROVE  Entire(Encode[n])
<1> DEFINE e == Encode[n]
           h == [kind |-> "node", val |-> type, span |-> 1 + Len(rest)]
<1>1. rest \in Seq(CodeFields) /\ Len(rest) \in Nat
  BY LenProperties DEF Entire
<1>2. h \in CodeFields /\ IsField(h) /\ h.span = 1 + Len(rest)
  <2>1. type \in FieldValues
    BY DEF FieldValues
  <2> QED
    BY <1>1, <2>1 DEF CodeFields, FieldKinds, IsField
<1>3. e = <<h>> \o rest
  BY DEF Node
<1> HIDE DEF h
<1>4. <<h>> \in Seq(CodeFields) /\ Len(<<h>>) = 1 /\ <<h>>[1] = h
  BY <1>2
<1> HIDE DEF e
<1>5. /\ e \in Seq(CodeFields) /\ Len(e) = 1 + Len(rest)
      /\ Placed(e, 1, <<h>>) /\ Placed(e, 1 + 1, rest)
  BY <1>1, <1>3, <1>4, PlacedHalves
<1>6. e[1] = h
  <2>1. 1 \in 1 .. Len(<<h>>) /\ 1 + 1 - 1 = 1
    BY <1>4
  <2> QED
    BY <1>4, <1>5, <2>1 DEF Placed
<1>7. EntireAt(e, 1)
  <2>1. Placed(e, 1, e)
    <3>1. \A i \in 1 .. Len(e) : 1 + i - 1 = i
      BY <1>1, <1>5
    <3> QED
      BY <1>1, <1>5, <3>1 DEF Placed
  <2>2. Spot(e, 1)
    BY <1>5, <2>1 DEF Spot, e
  <2>3. 1 + h.span <= Len(e) + 1
    BY <1>1, <1>2, <1>5
  <2> QED
    BY <1>2, <1>6, <2>2, <2>3 DEF EntireAt
<1>8. ASSUME NEW p \in 1 .. Len(e), p # 1 PROVE EntireAt(e, p)
  <2>1. p - 1 \in 1 .. Len(rest) /\ (1 + 1) + (p - 1) - 1 = p
    BY <1>1, <1>5, <1>8
  <2> QED
    BY <1>5, <2>1, EntireAtMoves
<1> QED
  BY <1>5, <1>7, <1>8 DEF Entire, e

\* The loops of the compiler, over trees whose code is whole.
LEMMA EntireLists ==
  ASSUME NEW trees \in Seq(Trees), \A m \in Range(trees) : Entire(Encode[m])
  PROVE  /\ Entire(EncodeAll(Encode, trees)) /\ Entire(EncodeList(Encode, trees))
         /\ Len(trees) \in Nat
         /\ \A ops \in Seq(STRING) : Len(ops) = Len(trees) => Entire(EncodeChain(Encode, ops, trees))
<1>1. Len(trees) \in Nat /\ DOMAIN trees = 1 .. Len(trees)
  BY LenProperties
<1>2. \A i \in 1 .. Len(trees) : Entire(Encode[trees[i]])
  BY <1>1 DEF Range
<1>3. Entire(EncodeAll(Encode, trees))
  <2> DEFINE parts == [i \in DOMAIN trees |-> Encode[trees[i]]]
  <2>1. \A i \in 1 .. Len(trees) : Entire(parts[i])
    BY <1>1, <1>2
  <2> HIDE DEF parts
  <2>2. Entire(Joined(parts, Len(trees)))
    BY <1>1, <2>1, EntireJoined
  <2> QED
    BY <2>2 DEF EncodeAll, parts
<1>4. Entire(EncodeList(Encode, trees))
  BY <1>1, <1>3, EntireFields, EntireConcat DEF EncodeList
<1>5. ASSUME NEW ops \in Seq(STRING), Len(ops) = Len(trees) PROVE Entire(EncodeChain(Encode, ops, trees))
  <2> DEFINE parts == [i \in DOMAIN trees |-> Oper(ops[i]) \o Encode[trees[i]]]
  <2>1. ASSUME NEW i \in 1 .. Len(trees) PROVE Entire(parts[i])
    <3>1. ops[i] \in STRING
      BY <1>5, ElementOfSeq
    <3>2. Entire(Oper(ops[i])) /\ Entire(Encode[trees[i]])
      BY <1>2, <3>1, EntireFields
    <3>3. parts[i] = Oper(ops[i]) \o Encode[trees[i]]
      BY <1>1
    <3> QED
      BY <3>2, <3>3, EntireConcat
  <2> HIDE DEF parts
  <2>2. Entire(Joined(parts, Len(trees)))
    BY <1>1, <2>1, EntireJoined
  <2> QED
    BY <2>2 DEF EncodeChain, parts
<1> QED
  BY <1>1, <1>3, <1>4, <1>5

\* Keys and values.
LEMMA EntireBoth ==
  ASSUME NEW keys \in Seq(Trees), NEW values \in Seq(Trees), Len(values) = Len(keys),
         \A m \in Range(keys) \cup Range(values) : Entire(Encode[m])
  PROVE  Entire(EncodeBoth(Encode, keys, values)) /\ Len(keys) \in Nat
<1>1. /\ Len(keys) \in Nat /\ DOMAIN keys = 1 .. Len(keys) /\ DOMAIN values = 1 .. Len(keys)
  BY LenProperties
<1>2. \A i \in 1 .. Len(keys) : Entire(Encode[keys[i]]) /\ Entire(Encode[values[i]])
  BY <1>1 DEF Range
<1> DEFINE parts == [i \in DOMAIN keys |-> Encode[keys[i]] \o Encode[values[i]]]
<1>3. ASSUME NEW i \in 1 .. Len(keys) PROVE Entire(parts[i])
  <2>1. parts[i] = Encode[keys[i]] \o Encode[values[i]]
    BY <1>1
  <2> QED
    BY <1>2, <2>1, EntireConcat
<1> HIDE DEF parts
<1>4. Entire(Joined(parts, Len(keys)))
  BY <1>1, <1>3, EntireJoined
<1> QED
  BY <1>1, <1>4 DEF EncodeBoth, parts

\* A node whose type tells expressions, and suites, from other statements.
Coded(n) ==
  \E type \in NodeTypes : \E rest :
    /\ Entire(rest) /\ Encode[n] = Node(type, rest)
    /\ n.type \notin StatementTrees => type \in ExpressionTypes
    /\ n.type = "Suite" => type = "StatementList"

\* What is written for a tree whose parts are whole: that of its expression,
\* a node, or nothing that can be executed.
LEMMA TreeCode ==
  ASSUME NEW n \in Trees, \A m \in PartsOf(n) : Entire(Encode[m])
  PROVE  \/ n.type = "ExpressionStatement" /\ Encode[n] = Encode[n.expr] /\ n.expr \in PartsOf(n)
         \/ n.type # "ExpressionStatement" /\ Coded(n)
         \/ Encode[n] = Refused
<1>1. IsTree(n) /\ Encode[n] = ParseNext(Encode, n)
  BY TreesAreTrees, EncodeEquation
<1>2. /\ \A m \in StatementParts(n) : Entire(Encode[m])
      /\ \A m \in ExpressionParts(n) : Entire(Encode[m])
  BY DEF PartsOf
<1>3. CASE n.type = "ImportFrom"
  <2>1. Entire(Encode[n.module]) /\ Entire(Encode[n.names])
    BY <1>2, <1>3, PartsOfTree
  <2>2. Entire(Encode[n.module] \o Encode[n.names])
    BY <2>1, EntireConcat
  <2>3. /\ "ImportFrom" \in NodeTypes /\ n.type # "ExpressionStatement"
        /\ n.type \notin StatementTrees => "ImportFrom" \in ExpressionTypes
        /\ n.type = "Suite" => "ImportFrom" = "StatementList"
    BY <1>3 DEF NodeTypes, StatementTrees, ExpressionTypes
  <2>4. Encode[n] = Node("ImportFrom", Encode[n.module] \o Encode[n.names])
    BY <1>1, <1>3, ParseNextCases
  <2>5. Coded(n)
    BY <2>2, <2>3, <2>4 DEF Coded
  <2> QED
    BY <2>3, <2>5
<1>4. CASE n.type = "Import"
  <2>1. Entire(Encode[n.names])
    BY <1>2, <1>4, PartsOfTree
  <2>2. Entire(Encode[n.names])
    BY <2>1
  <2>3. /\ "Import" \in NodeTypes /\ n.type # "ExpressionStatement"
        /\ n.type \notin StatementTrees => "Import" \in ExpressionTypes
        /\ n.type = "Suite" => "Import" = "StatementList"
    BY <1>4 DEF NodeTypes, StatementTrees, ExpressionTypes
  <2>4. Encode[n] = Node("Import", Encode[n.names])
    BY <1>1, <1>4, ParseNextCases
  <2>5. Coded(n)
    BY <2>2, <2>3, <2>4 DEF Coded
  <2> QED
    BY <2>3, <2>5
<1>5. CASE n.type = "Alias"
  <2>1. Entire(Chars(n.name))
    BY <1>1, <1>5, EntireFields DEF IsTree
  <2>2. Entire(Chars(n.as_name))
    BY <1>1, <1>5, EntireFields DEF IsTree
  <2>3. Entire(Chars(n.name) \o Chars(n.as_name))
    BY <2>1, <2>2, EntireConcat
  <2>4. /\ "Alias" \in NodeTypes /\ n.type # "ExpressionStatement"
        /\ n.type \notin StatementTrees => "Alias" \in ExpressionTypes
        /\ n.type = "Suite" => "Alias" = "StatementList"
    BY <1>5 DEF NodeTypes, StatementTrees, ExpressionTypes
  <2>5. Encode[n] = Node("Alias", Chars(n.name) \o Chars(n.as_name))
    BY <1>1, <1>5, ParseNextCases
  <2>6. Coded(n)
    BY <2>3, <2>4, <2>5 DEF Coded
  <2> QED
    BY <2>4, <2>6
<1>6. CASE n.type = "Name"
  <2>1. Entire(Chars(n.id))
    BY <1>1, <1>6, EntireFields DEF IsTree
  <2>2. Entire(Chars(n.id))
    BY <2>1
  <2>3. /\ "Name" \in NodeTypes /\ n.type # "ExpressionStatement"
        /\ n.type \notin StatementTrees => "Name" \in ExpressionTypes
        /\ n.type = "Suite" => "Name" = "StatementList"
    BY <1>6 DEF NodeTypes, StatementTrees, ExpressionTypes
  <2>4. Encode[n] = Node("Name", Chars(n.id))
    BY <1>1, <1>6, ParseNextCases
  <2>5. Coded(n)
    BY <2>2, <2>3, <2>4 DEF Coded
  <2> QED
    BY <2>3, <2>5
<1>7. CASE n.type = "Assign"
  <2>1. Entire(Encode[n.value])
    BY <1>2, <1>7, PartsOfTree
  <2>2. n.targets \in Seq(Trees) /\ \A m \in Range(n.targets) : Entire(Encode[m])
    BY <1>1, <1>2, <1>7, PartsOfTree DEF IsTree
  <2>3. Entire(EncodeList(Encode, n.targets))
    BY <2>2, EntireLists
  <2>4. Entire(Encode[n.value] \o EncodeList(Encode, n.targets))
    BY <2>1, <2>3, EntireConcat
  <2>5. /\ "Assign" \in NodeTypes /\ n.type # "ExpressionStatement"
        /\ n.type \notin StatementTrees => "Assign" \in ExpressionTypes
        /\ n.type = "Suite" => "Assign" = "StatementList"
    BY <1>7 DEF NodeTypes, StatementTrees, ExpressionTypes
  <2>6. Encode[n] = Node("Assign", Encode[n.value] \o EncodeList(Encode, n.targets))
    BY <1>1, <1>7, ParseNextCases
  <2>7. Coded(n)
    BY <2>4, <2>5, <2>6 DEF Coded
  <2> QED
    BY <2>5, <2>7
<1>8. CASE n.type = "Suite"
  <2>1. n.items \in Seq(Trees) /\ \A m \in Range(n.items) : Entire(Encode[m])
    BY <1>1, <1>2, <1>8, PartsOfTree DEF IsTree
  <2>2. Entire(EncodeList(Encode, n.items))
    BY <2>1, EntireLists
  <2>3. Entire(EncodeList(Encode, n.items))
    BY <2>2
  <2>4. /\ "StatementList" \in NodeTypes /\ n.type # "ExpressionStatement"
        /\ n.type \notin StatementTrees => "StatementList" \in ExpressionTypes
        /\ n.type = "Suite" => "StatementList" = "StatementList"
    BY <1>8 DEF NodeTypes, StatementTrees, ExpressionTypes
  <2>5. Encode[n] = Node("StatementList", EncodeList(Encode, n.items))
    BY <1>1, <1>8, ParseNextCases
  <2>6. Coded(n)
    BY <2>3, <2>4, <2>5 DEF Coded
  <2> QED
    BY <2>4, <2>6
<1>9. CASE n.type = "Str"
  <2>1. Entire(Chars(n.value))
    BY <1>1, <1>9, EntireFields DEF IsTree
  <2>2. Entire(Chars(n.value))
    BY <2>1
  <2>3. /\ "String" \in NodeTypes /\ n.type # "ExpressionStatement"
        /\ n.type \notin StatementTrees => "String" \in ExpressionTypes
        /\ n.type = "Suite" => "String" = "StatementList"
    BY <1>9 DEF NodeTypes, StatementTrees, ExpressionTypes
  <2>4. Encode[n] = Node("String", Chars(n.value))
    BY <1>1, <1>9, ParseNextCases
  <2>5. Coded(n)
    BY <2>2, <2>3, <2>4 DEF Coded
  <2> QED
    BY <2>3, <2>5
<1>10. CASE n.type = "Return"
  <2>1. Entire(Encode[n.value])
    BY <1>2, <1>10, PartsOfTree
  <2>2. Entire(Encode[n.value])
    BY <2>1
  <2>3. /\ "Return" \in NodeTypes /\ n.type # "ExpressionStatement"
        /\ n.type \notin StatementTrees => "Return" \in ExpressionTypes
        /\ n.type = "Suite" => "Return" = "StatementList"
    BY <1>10 DEF NodeTypes, StatementTrees, ExpressionTypes
  <2>4. Encode[n] = Node("Return", Encode[n.value])
    BY <1>1, <1>10, ParseNextCases
  <2>5. Coded(n)
    BY <2>2, <2>3, <2>4 DEF Coded
  <2> QED
    BY <2>3, <2>5
<1>11. CASE n.type = "Dict"
  <2>1. /\ n.keys \in Seq(Trees) /\ n.values \in Seq(Trees) /\ Len(n.values) = Len(n.keys)
        /\ \A m \in Range(n.keys) \cup Range(n.values) : Entire(Encode[m])
    BY <1>1, <1>2, <1>11, PartsOfTree DEF IsTree
  <2>2. Entire(EncodeBoth(Encode, n.keys, n.values)) /\ Len(n.keys) \in Nat
    BY <2>1, EntireBoth
  <2>3. Entire(U32(Len(n.keys)))
    BY <2>2, EntireFields
  <2>4. Entire(U32(Len(n.keys)) \o EncodeBoth(Encode, n.keys, n.values))
    BY <2>3, <2>2, EntireConcat
  <2>5. /\ "Dictionary" \in NodeTypes /\ n.type # "ExpressionStatement"
        /\ n.type \notin StatementTrees => "Dictionary" \in ExpressionTypes
        /\ n.type = "Suite" => "Dictionary" = "StatementList"
    BY <1>11 DEF NodeTypes, StatementTrees, ExpressionTypes
  <2>6. Encode[n] = Node("Dictionary", U32(Len(n.keys)) \o EncodeBoth(Encode, n.keys, n.values))
    BY <1>1, <1>11, ParseNextCases
  <2>7. Coded(n)
    BY <2>4, <2>5, <2>6 DEF Coded
  <2> QED
    BY <2>5, <2>7
<1>12. CASE n.type = "Compare"
  <2>1. Entire(Encode[n.left])
    BY <1>2, <1>12, PartsOfTree
  <2>2. /\ n.comparators \in Seq(Trees) /\ \A m \in Range(n.comparators) : Entire(Encode[m])
        /\ n.operators \in Seq(STRING) /\ Len(n.operators) = Len(n.comparators)
    BY <1>1, <1>2, <1>12, PartsOfTree DEF IsTree
  <2>3. Entire(EncodeChain(Encode, n.operators, n.comparators)) /\ Len(n.comparators) \in Nat
    BY <2>2, EntireLists
  <2>4. Entire(U32(Len(n.comparators)))
    BY <2>3, EntireFields
  <2>5. Entire(Encode[n.left] \o U32(Len(n.comparators))
          \o EncodeChain(Encode, n.operators, n.comparators))
    BY <2>1, <2>4, <2>3, EntireConcat
  <2>6. /\ "Compare" \in NodeTypes /\ n.type # "ExpressionStatement"
        /\ n.type \notin StatementTrees => "Compare" \in ExpressionTypes
        /\ n.type = "Suite" => "Compare" = "StatementList"
    BY <1>12 DEF NodeTypes, StatementTrees, ExpressionTypes
  <2>7. Encode[n] = Node("Compare", Encode[n.left] \o U32(Len(n.comparators))
          \o EncodeChain(Encode, n.operators, n.comparators))
    BY <1>1, <1>12, ParseNextCases
  <2>8. Coded(n)
    BY <2>5, <2>6, <2>7 DEF Coded
  <2> QED
    BY <2>6, <2>8
<1>13. CASE n.type = "Number"
  <2>1. Entire(I32(n.integer))
    BY <1>1, <1>13, EntireFields DEF IsTree
  <2>2. Entire(I32(n.integer))
    BY <2>1
  <2>3. /\ "Integer" \in NodeTypes /\ n.type # "ExpressionStatement"
        /\ n.type \notin StatementTrees => "Integer" \in ExpressionTypes
        /\ n.type = "Suite" => "Integer" = "StatementList"
    BY <1>13 DEF NodeTypes, StatementTrees, ExpressionTypes
  <2>4. Encode[n] = Node("Integer", I32(n.integer))
    BY <1>1, <1>13, ParseNextCases
  <2>5. Coded(n)
    BY <2>2, <2>3, <2>4 DEF Coded
  <2> QED
    BY <2>3, <2>5
<1>14. CASE n.type = "If" /\ n.orelse # Missing
  <2>1. Entire(Encode[n.test]) /\ Entire(Encode[n.body]) /\ Entire(Encode[n.orelse])
    BY <1>2, <1>14, PartsOfTree
  <2>2. Entire(Encode[n.test] \o Encode[n.body] \o Encode[n.orelse])
    BY <2>1, EntireConcat
  <2>3. /\ "IfElse" \in NodeTypes /\ n.type # "ExpressionStatement"
        /\ n.type \notin StatementTrees => "IfElse" \in ExpressionTypes
        /\ n.type = "Suite" => "IfElse" = "StatementList"
    BY <1>14 DEF NodeTypes, StatementTrees, ExpressionTypes
  <2>4. Encode[n] = Node("IfElse", Encode[n.test] \o Encode[n.body] \o Encode[n.orelse])
    BY <1>1, <1>14, ParseNextCases
  <2>5. Coded(n)
    BY <2>2, <2>3, <2>4 DEF Coded
  <2> QED
    BY <2>3, <2>5
<1>15. CASE n.type = "If" /\ n.orelse = Missing
  <2>1. Entire(Encode[n.test]) /\ Entire(Encode[n.body])
    BY <1>2, <1>15, PartsOfTree
  <2>2. Entire(Encode[n.test] \o Encode[n.body])
    BY <2>1, EntireConcat
  <2>3. /\ "If" \in NodeTypes /\ n.type # "ExpressionStatement"
        /\ n.type \notin StatementTrees => "If" \in ExpressionTypes
        /\ n.type = "Suite" => "If" = "StatementList"
    BY <1>15 DEF NodeTypes, StatementTrees, ExpressionTypes
  <2>4. Encode[n] = Node("If", Encode[n.test] \o Encode[n.body])
    BY <1>1, <1>15, ParseNextCases
  <2>5. Coded(n)
    BY <2>2, <2>3, <2>4 DEF Coded
  <2> QED
    BY <2>3, <2>5
<1>16. CASE n.type = "Call"
  <2>1. Entire(Encode[n.function])
    BY <1>2, <1>16, PartsOfTree
  <2>2. n.arguments \in Seq(Trees) /\ \A m \in Range(n.arguments) : Entire(Encode[m])
    BY <1>1, <1>2, <1>16, PartsOfTree DEF IsTree
  <2>3. Entire(EncodeList(Encode, n.arguments))
    BY <2>2, EntireLists
  <2>4. Entire(Encode[n.function] \o EncodeList(Encode, n.arguments))
    BY <2>1, <2>3, EntireConcat
  <2>5. /\ "Call" \in NodeTypes /\ n.type # "ExpressionStatement"
        /\ n.type \notin StatementTrees => "Call" \in ExpressionTypes
        /\ n.type = "Suite" => "Call" = "StatementList"
    BY <1>16 DEF NodeTypes, StatementTrees, ExpressionTypes
  <2>6. Encode[n] = Node("Call", Encode[n.function] \o EncodeList(Encode, n.arguments))
    BY <1>1, <1>16, ParseNextCases
  <2>7. Coded(n)
    BY <2>4, <2>5, <2>6 DEF Coded
  <2> QED
    BY <2>5, <2>7
<1>17. CASE n.type = "Attribute"
  <2>1. Entire(Encode[n.value]) /\ Entire(Encode[n.attribute])
    BY <1>2, <1>17, PartsOfTree
  <2>2. Entire(Encode[n.value] \o Encode[n.attribute])
    BY <2>1, EntireConcat
  <2>3. /\ "Attribute" \in NodeTypes /\ n.type # "ExpressionStatement"
        /\ n.type \notin StatementTrees => "Attribute" \in ExpressionTypes
        /\ n.type = "Suite" => "Attribute" = "StatementList"
    BY <1>17 DEF NodeTypes, StatementTrees, ExpressionTypes
  <2>4. Encode[n] = Node("Attribute", Encode[n.value] \o Encode[n.attribute])
    BY <1>1, <1>17, ParseNextCases
  <2>5. Coded(n)
    BY <2>2, <2>3, <2>4 DEF Coded
  <2> QED
    BY <2>3, <2>5
<1>18. CASE n.type = "UnaryOp"
  <2>1. Entire(Encode[n.operand])
    BY <1>2, <1>18, PartsOfTree
  <2>2. Entire(Oper(n.op))
    BY <1>1, <1>18, EntireFields DEF IsTree
  <2>3. Entire(Oper(n.op) \o Encode[n.operand])
    BY <2>1, <2>2, EntireConcat
  <2>4. /\ "UnaryOp" \in NodeTypes /\ n.type # "ExpressionStatement"
        /\ n.type \notin StatementTrees => "UnaryOp" \in ExpressionTypes
        /\ n.type = "Suite" => "UnaryOp" = "StatementList"
    BY <1>18 DEF NodeTypes, StatementTrees, ExpressionTypes
  <2>5. Encode[n] = Node("UnaryOp", Oper(n.op) \o Encode[n.operand])
    BY <1>1, <1>18, ParseNextCases
  <2>6. Coded(n)
    BY <2>3, <2>4, <2>5 DEF Coded
  <2> QED
    BY <2>4, <2>6
<1>19. CASE n.type = "BoolOp"
  <2>1. n.values \in Seq(Trees) /\ \A m \in Range(n.values) : Entire(Encode[m])
    BY <1>1, <1>2, <1>19, PartsOfTree DEF IsTree
  <2>2. Entire(EncodeList(Encode, n.values))
    BY <2>1, EntireLists
  <2>3. Entire(Oper(n.op))
    BY <1>1, <1>19, EntireFields DEF IsTree
  <2>4. Entire(Oper(n.op) \o EncodeList(Encode, n.values))
    BY <2>2, <2>3, EntireConcat
  <2>5. /\ "BoolOp" \in NodeTypes /\ n.type # "ExpressionStatement"
        /\ n.type \notin StatementTrees => "BoolOp" \in ExpressionTypes
        /\ n.type = "Suite" => "BoolOp" = "StatementList"
    BY <1>19 DEF NodeTypes, StatementTrees, ExpressionTypes
  <2>6. Encode[n] = Node("BoolOp", Oper(n.op) \o EncodeList(Encode, n.values))
    BY <1>1, <1>19, ParseNextCases
  <2>7. Coded(n)
    BY <2>4, <2>5, <2>6 DEF Coded
  <2> QED
    BY <2>5, <2>7
<1>20. CASE n.type = "BinOp"
  <2>1. Entire(Encode[n.left]) /\ Entire(Encode[n.right])
    BY <1>2, <1>20, PartsOfTree
  <2>2. Entire(Oper(n.op))
    BY <1>1, <1>20, EntireFields DEF IsTree
  <2>3. Entire(Oper(n.op) \o (Encode[n.left] \o Encode[n.right]))
    BY <2>1, <2>2, EntireConcat
  <2>4. /\ "BinaryOp" \in NodeTypes /\ n.type # "ExpressionStatement"
        /\ n.type \notin StatementTrees => "BinaryOp" \in ExpressionTypes
        /\ n.type = "Suite" => "BinaryOp" = "StatementList"
    BY <1>20 DEF NodeTypes, StatementTrees, ExpressionTypes
  <2>5. Encode[n] = Node("BinaryOp", Oper(n.op) \o (Encode[n.left] \o Encode[n.right]))
    BY <1>1, <1>20, ParseNextCases
  <2>6. Coded(n)
    BY <2>3, <2>4, <2>5 DEF Coded
  <2> QED
    BY <2>4, <2>6
<1>21. CASE n.type = "List"
  <2>1. n.elements \in Seq(Trees) /\ \A m \in Range(n.elements) : Entire(Encode[m])
    BY <1>1, <1>2, <1>21, PartsOfTree DEF IsTree
  <2>2. Entire(EncodeList(Encode, n.elements))
    BY <2>1, EntireLists
  <2>3. Entire(EncodeList(Encode, n.elements))
    BY <2>2
  <2>4. /\ "List" \in NodeTypes /\ n.type # "ExpressionStatement"
        /\ n.type \notin StatementTrees => "List" \in ExpressionTypes
        /\ n.type = "Suite" => "List" = "StatementList"
    BY <1>21 DEF NodeTypes, StatementTrees, ExpressionTypes
  <2>5. Encode[n] = Node("List", EncodeList(Encode, n.elements))
    BY <1>1, <1>21, ParseNextCases
  <2>6. Coded(n)
    BY <2>3, <2>4, <2>5 DEF Coded
  <2> QED
    BY <2>4, <2>6
<1>22. CASE n.type = "Subscript"
  <2>1. Entire(Encode[n.slice]) /\ Entire(Encode[n.value])
    BY <1>2, <1>22, PartsOfTree
  <2>2. Entire(Encode[n.slice] \o Encode[n.value])
    BY <2>1, EntireConcat
  <2>3. /\ "Subscript" \in NodeTypes /\ n.type # "ExpressionStatement"
        /\ n.type \notin StatementTrees => "Subscript" \in ExpressionTypes
        /\ n.type = "Suite" => "Subscript" = "StatementList"
    BY <1>22 DEF NodeTypes, StatementTrees, ExpressionTypes
  <2>4. Encode[n] = Node("Subscript", Encode[n.slice] \o Encode[n.value])
    BY <1>1, <1>22, ParseNextCases
  <2>5. Coded(n)
    BY <2>2, <2>3, <2>4 DEF Coded
  <2> QED
    BY <2>3, <2>5
<1>23. CASE n.type = "Index"
  <2>1. Entire(Encode[n.value])
    BY <1>2, <1>23, PartsOfTree
  <2>2. Entire(Encode[n.value])
    BY <2>1
  <2>3. /\ "Index" \in NodeTypes /\ n.type # "ExpressionStatement"
        /\ n.type \notin StatementTrees => "Index" \in ExpressionTypes
        /\ n.type = "Suite" => "Index" = "StatementList"
    BY <1>23 DEF NodeTypes, StatementTrees, ExpressionTypes
  <2>4. Encode[n] = Node("Index", Encode[n.value])
    BY <1>1, <1>23, ParseNextCases
  <2>5. Coded(n)
    BY <2>2, <2>3, <2>4 DEF Coded
  <2> QED
    BY <2>3, <2>5
<1>24. CASE n.type = "For"
  <2>1. Entire(Encode[n.target]) /\ Entire(Encode[n.iter]) /\ Entire(Encode[n.body])
    BY <1>2, <1>24, PartsOfTree
  <2>2. Entire(Encode[n.target] \o Encode[n.iter] \o Encode[n.body])
    BY <2>1, EntireConcat
  <2>3. /\ "ForLoop" \in NodeTypes /\ n.type # "ExpressionStatement"
        /\ n.type \notin StatementTrees => "ForLoop" \in ExpressionTypes
        /\ n.type = "Suite" => "ForLoop" = "StatementList"
    BY <1>24 DEF NodeTypes, StatementTrees, ExpressionTypes
  <2>4. Encode[n] = Node("ForLoop", Encode[n.target] \o Encode[n.iter] \o Encode[n.body])
    BY <1>1, <1>24, ParseNextCases
  <2>5. Coded(n)
    BY <2>2, <2>3, <2>4 DEF Coded
  <2> QED
    BY <2>3, <2>5
<1>25. CASE n.type = "While"
  <2>1. Entire(Encode[n.test]) /\ Entire(Encode[n.body])
    BY <1>2, <1>25, PartsOfTree
  <2>2. Entire(Encode[n.test] \o Encode[n.body])
    BY <2>1, EntireConcat
  <2>3. /\ "WhileLoop" \in NodeTypes /\ n.type # "ExpressionStatement"
        /\ n.type \notin StatementTrees => "WhileLoop" \in ExpressionTypes
        /\ n.type = "Suite" => "WhileLoop" = "StatementList"
    BY <1>25 DEF NodeTypes, StatementTrees, ExpressionTypes
  <2>4. Encode[n] = Node("WhileLoop", Encode[n.test] \o Encode[n.body])
    BY <1>1, <1>25, ParseNextCases
  <2>5. Coded(n)
    BY <2>2, <2>3, <2>4 DEF Coded
  <2> QED
    BY <2>3, <2>5
<1>26. CASE n.type = "AugAssign"
  <2>1. Entire(Encode[n.target]) /\ Entire(Encode[n.value])
    BY <1>2, <1>26, PartsOfTree
  <2>2. Entire(Oper(n.op))
    BY <1>1, <1>26, EntireFields DEF IsTree
  <2>3. Entire(Oper(n.op) \o Encode[n.target] \o Encode[n.value])
    BY <2>1, <2>2, EntireConcat
  <2>4. /\ "AugmentedAssign" \in NodeTypes /\ n.type # "ExpressionStatement"
        /\ n.type \notin StatementTrees => "AugmentedAssign" \in ExpressionTypes
        /\ n.type = "Suite" => "AugmentedAssign" = "StatementList"
    BY <1>26 DEF NodeTypes, StatementTrees, ExpressionTypes
  <2>5. Encode[n] = Node("AugmentedAssign", Oper(n.op) \o Encode[n.target] \o Encode[n.value])
    BY <1>1, <1>26, ParseNextCases
  <2>6. Coded(n)
    BY <2>3, <2>4, <2>5 DEF Coded
  <2> QED
    BY <2>4, <2>6
<1>27. CASE n.type = "ExpressionStatement"
  <2>1. Encode[n] = Encode[n.expr] /\ n.expr \in PartsOf(n)
    BY <1>1, <1>27, PartsOfTree, ParseNextCases DEF PartsOf
  <2> QED
    BY <1>27, <2>1
<1>28. CASE n.type = "Continue"
  <2>1. Entire(<< >>)
    BY EntireFields
  <2>2. /\ "Continue" \in NodeTypes /\ n.type # "ExpressionStatement"
        /\ n.type \notin StatementTrees => "Continue" \in ExpressionTypes
        /\ n.type = "Suite" => "Continue" = "StatementList"
    BY <1>28 DEF NodeTypes, StatementTrees, ExpressionTypes
  <2>3. Encode[n] = Node("Continue", << >>)
    BY <1>1, <1>28, ParseNextCases
  <2>4. Coded(n)
    BY <2>1, <2>2, <2>3 DEF Coded
  <2> QED
    BY <2>2, <2>4
<1>29. CASE n.type = "Break"
  <2>1. Entire(<< >>)
    BY EntireFields
  <2>2. /\ "Break" \in NodeTypes /\ n.type # "ExpressionStatement"
        /\ n.type \notin StatementTrees => "Break" \in ExpressionTypes
        /\ n.type = "Suite" => "Break" = "StatementList"
    BY <1>29 DEF NodeTypes, StatementTrees, ExpressionTypes
  <2>3. Encode[n] = Node("Break", << >>)
    BY <1>1, <1>29, ParseNextCases
  <2>4. Coded(n)
    BY <2>1, <2>2, <2>3 DEF Coded
  <2> QED
    BY <2>2, <2>4
<1>30. CASE n.type = "Tuple"
  <2>1. n.elements \in Seq(Trees) /\ \A m \in Range(n.elements) : Entire(Encode[m])
    BY <1>1, <1>2, <1>30, PartsOfTree DEF IsTree
  <2>2. Entire(EncodeList(Encode, n.elements))
    BY <2>1, EntireLists
  <2>3. Entire(EncodeList(Encode, n.elements))
    BY <2>2
  <2>4. /\ "Tuple" \in NodeTypes /\ n.type # "ExpressionStatement"
        /\ n.type \notin StatementTrees => "Tuple" \in ExpressionTypes
        /\ n.type = "Suite" => "Tuple" = "StatementList"
    BY <1>30 DEF NodeTypes, StatementTrees, ExpressionTypes
  <2>5. Encode[n] = Node("Tuple", EncodeList(Encode, n.elements))
    BY <1>1, <1>30, ParseNextCases
  <2>6. Coded(n)
    BY <2>3, <2>4, <2>5 DEF Coded
  <2> QED
    BY <2>4, <2>6
<1>31. CASE n.type \notin TreeTypes
  BY <1>1, <1>31, ParseNextCases
<1> QED
  BY <1>3, <1>4, <1>5, <1>6, <1>7, <1>8, <1>9, <1>10, <1>11, <1>12, <1>13, <1>14, <1>15, <1>16,
     <1>17, <1>18, <1>19, <1>20, <1>21, <1>22, <1>23, <1>24, <1>25, <1>26, <1>27, <1>28, <1>29,
     <1>30, <1>31 DEF TreeTypes

\* What is written for a tree is whole if what is written for its parts is.
LEMMA EntireTree ==
  ASSUME NEW n \in Trees, \A m \in PartsOf(n) : Entire(Encode[m])
  PROVE  Entire(Encode[n])
<1>1. CASE n.type = "ExpressionStatement" /\ Encode[n] = Encode[n.expr] /\ n.expr \in PartsOf(n)
  BY <1>1
<1>2. CASE n.type # "ExpressionStatement" /\ Coded(n)
  BY <1>2, EntireNode DEF Coded
<1>3. CASE Encode[n] = Refused
  BY <1>3, EntireFields
<1> QED
  BY <1>1, <1>2, <1>3, TreeCode

\* What is written for a tree is whole.
LEMMA EntireEncode ==
  \A n \in Trees : Entire(Encode[n])
<1> DEFINE S == { h \in Nat : \A n \in Trees : Height[n] < h => Entire(Encode[n]) }
<1>1. 0 \in S
  BY Parts
<1>2. ASSUME NEW h \in Nat, h \in S PROVE h + 1 \in S
  <2>1. ASSUME NEW n \in Trees, Height[n] < h + 1 PROVE Entire(Encode[n])
    <3>1. ASSUME NEW m \in PartsOf(n) PROVE Entire(Encode[m])
      <4>1. m \in Trees /\ Height[m] < h
        BY <2>1, Parts
      <4> QED
        BY <1>2, <4>1
    <3> QED
      BY <3>1, EntireTree
  <2> QED
    BY <2>1
<1>3. \A h \in Nat : h \in S
  <2> HIDE DEF S
  <2> QED
    BY <1>1, <1>2, Induction
<1>4. ASSUME NEW n \in Trees PROVE Entire(Encode[n])
  <2>1. Height[n] + 1 \in Nat /\ Height[n] < Height[n] + 1
    BY Parts
  <2> QED
    BY <1>3, <2>1
<1> QED
  BY <1>4

-----------------------------------------------------------------------------
(* From one field to another. *)

\* The fields from p up to q are s.
Lies(c, p, s, q) == Placed(c, p, s) /\ q = p + Len(s)

\* Code that the compiler did not refuse.
Accepted(c) == Entire(c) /\ \A p \in 1 .. Len(c) : c[p].kind # "refused"

\* It is code.
LEMMA AcceptedIsCode ==
  ASSUME NEW c, Accepted(c)
  PROVE  IsCode(c) /\ DOMAIN c = 1 .. Len(c) /\ Len(c) \in Nat /\ c \in Seq(CodeFields)
<1>1. c \in Seq(CodeFields) /\ \A p \in 1 .. Len(c) : IsField(c[p])
  BY DEF Accepted, Entire, EntireAt
<1>2. DOMAIN c = 1 .. Len(c) /\ Len(c) \in Nat
  BY <1>1, LenProperties
<1> QED
  BY <1>1, <1>2 DEF IsCode

\* One after the other.
LEMMA SpansBoth ==
  ASSUME NEW c \in Seq(CodeFields), NEW s, NEW t, Entire(s), Entire(t), NEW p,
         NEW q, Lies(c, p, s \o t, q)
  PROVE  \E m \in Nat : Lies(c, p, s, m) /\ Lies(c, m, t, q)
<1>1. s \in Seq(CodeFields) /\ t \in Seq(CodeFields) /\ Len(s) \in Nat /\ Len(t) \in Nat /\ p \in Nat
  BY LenProperties DEF Entire, Lies, Placed
<1>2. Placed(c, p, s) /\ Placed(c, p + Len(s), t)
  BY <1>1, PlacedBoth DEF Lies
<1>3. Len(s \o t) = Len(s) + Len(t) /\ p + (Len(s) + Len(t)) = (p + Len(s)) + Len(t)
        /\ p + Len(s) \in Nat
  BY <1>1, PlacedHalves
<1> QED
  BY <1>2, <1>3 DEF Lies

\* A single field.
LEMMA SpansField ==
  ASSUME NEW c \in Seq(CodeFields), NEW kind, NEW val, NEW p, NEW q, Lies(c, p, <<Field(kind, val)>>, q)
  PROVE  Has(c, kind, p) /\ c[p].val = val /\ p \in Nat \ {0} /\ q = p + 1
<1>1. /\ Len(<<Field(kind, val)>>) = 1 /\ <<Field(kind, val)>>[1] = Field(kind, val)
      /\ Field(kind, val).kind = kind /\ Field(kind, val).val = val
  BY DEF Field
<1>2. p \in Nat \ {0} /\ p + 1 <= Len(c) + 1 /\ q = p + 1 /\ c[p + 1 - 1] = Field(kind, val)
  BY <1>1 DEF Lies, Placed
<1>3. DOMAIN c = 1 .. Len(c) /\ Len(c) \in Nat
  BY LenProperties
<1>4. p + 1 - 1 = p /\ p \in DOMAIN c
  BY <1>2, <1>3
<1> QED
  BY <1>1, <1>2, <1>4 DEF Has

\* A node.
LEMMA SpansNode ==
  ASSUME NEW c \in Seq(CodeFields), NEW type \in NodeTypes, NEW rest, Entire(rest),
         NEW p, NEW q, Lies(c, p, Node(type, rest), q)
  PROVE  /\ NodeAt(c, type, p) /\ p \in Nat \ {0} /\ q \in Nat
         /\ NodeEnd(c, p) = q /\ Lies(c, p + 1, rest, q)
<1> DEFINE h == [kind |-> "node", val |-> type, span |-> 1 + Len(rest)]
<1>1. rest \in Seq(CodeFields) /\ Len(rest) \in Nat
  BY LenProperties DEF Entire
<1>2. <<h>> \in Seq(CodeFields) /\ Len(<<h>>) = 1 /\ <<h>>[1] = h
  <2>1. type \in FieldValues
    BY DEF FieldValues
  <2>2. h \in CodeFields
    BY <1>1, <2>1 DEF CodeFields, FieldKinds
  <2> QED
    BY <2>2
<1>3. Node(type, rest) = <<h>> \o rest
  BY DEF Node
<1>4. h.kind = "node" /\ h.val = type /\ h.span = 1 + Len(rest)
  OBVIOUS
<1> HIDE DEF h
<1>5. Placed(c, p, <<h>> \o rest) /\ q = p + (1 + Len(rest))
  BY <1>1, <1>2, <1>3, PlacedHalves DEF Lies
<1>6. Placed(c, p, <<h>>) /\ Placed(c, p + 1, rest)
  BY <1>1, <1>2, <1>5, PlacedBoth
<1>7. p \in Nat \ {0} /\ p + 1 <= Len(c) + 1 /\ c[p] = h
  <2>1. p \in Nat \ {0} /\ p + 1 <= Len(c) + 1 /\ c[p + 1 - 1] = h
    BY <1>2, <1>6 DEF Placed
  <2> QED
    BY <2>1
<1>8. p \in DOMAIN c
  BY <1>7, LenProperties
<1>9. p + (1 + Len(rest)) = (p + 1) + Len(rest) /\ p + (1 + Len(rest)) \in Nat
  BY <1>1, <1>7
<1> QED
  BY <1>4, <1>5, <1>6, <1>7, <1>8, <1>9 DEF NodeAt, Has, NodeEnd, Lies

\* Every code is entire, and so are its parts'.
LEMMA TreeCoded ==
  ASSUME NEW n \in Trees
  PROVE  \/ n.type = "ExpressionStatement" /\ Encode[n] = Encode[n.expr] /\ n.expr \in PartsOf(n)
         \/ n.type # "ExpressionStatement" /\ Coded(n)
         \/ Encode[n] = Refused
<1>1. \A m \in PartsOf(n) : Entire(Encode[m])
  BY Parts, EntireEncode
<1> QED
  BY <1>1, TreeCode

\* Nothing that is refused is in accepted code.
LEMMA NotRefused ==
  ASSUME NEW c, Accepted(c), NEW p, NEW q, Lies(c, p, Refused, q)
  PROVE  FALSE
<1>1. c \in Seq(CodeFields) /\ \A i \in 1 .. Len(c) : c[i].kind # "refused"
  BY DEF Accepted, Entire
<1>2. Has(c, "refused", p)
  BY <1>1, SpansField DEF Refused
<1> QED
  BY <1>1, <1>2, LenProperties DEF Has

\* A tree's code is one node.
LEMMA SpansTree ==
  ASSUME NEW c, Accepted(c), NEW n \in Trees, NEW p, NEW q, Lies(c, p, Encode[n], q)
  PROVE  /\ Has(c, "node", p) /\ NodeEnd(c, p) = q /\ p \in Nat \ {0} /\ q \in Nat /\ p < q
         /\ n.type \notin StatementTrees => c[p].val \in ExpressionTypes
         /\ n.type = "Suite" => NodeAt(c, "StatementList", p)
<1>1. c \in Seq(CodeFields)
  BY DEF Accepted, Entire
<1>2. ASSUME NEW m \in Trees, Coded(m), Lies(c, p, Encode[m], q)
      PROVE  /\ Has(c, "node", p) /\ NodeEnd(c, p) = q /\ p \in Nat \ {0} /\ q \in Nat /\ p < q
             /\ m.type \notin StatementTrees => c[p].val \in ExpressionTypes
             /\ m.type = "Suite" => NodeAt(c, "StatementList", p)
  <2>1. PICK type \in NodeTypes : \E rest :
          /\ Entire(rest) /\ Encode[m] = Node(type, rest)
          /\ m.type \notin StatementTrees => type \in ExpressionTypes
          /\ m.type = "Suite" => type = "StatementList"
    BY <1>2 DEF Coded
  <2>2. NodeAt(c, type, p) /\ p \in Nat \ {0} /\ q \in Nat /\ NodeEnd(c, p) = q
    BY <1>1, <1>2, <2>1, SpansNode
  <2>3. p < q
    <3>1. p \in DOMAIN c /\ c[p].span \in Nat \ {0}
      BY <2>2, AcceptedIsCode DEF NodeAt, Has, IsCode, IsField
    <3> QED
      BY <2>2, <3>1 DEF NodeEnd
  <2> QED
    BY <2>1, <2>2, <2>3 DEF NodeAt
<1>3. CASE n.type # "ExpressionStatement" /\ Coded(n)
  BY <1>2, <1>3
<1>4. CASE Encode[n] = Refused
  BY <1>4, NotRefused
<1>5. CASE n.type = "ExpressionStatement" /\ Encode[n] = Encode[n.expr] /\ n.expr \in PartsOf(n)
  <2>1. n.expr \in Trees /\ n.expr.type \notin StatementTrees
    <3>1. IsTree(n) /\ n.expr \in ExpressionParts(n)
      BY <1>5, TreesAreTrees, PartsOfTree
    <3> QED
      BY <3>1 DEF IsTree
  <2>2. Lies(c, p, Encode[n.expr], q)
    BY <1>5
  <2>3. n.expr.type # "ExpressionStatement" /\ n.type \in StatementTrees /\ n.type # "Suite"
    BY <1>5, <2>1 DEF StatementTrees
  <2>4. Coded(n.expr)
    BY <2>1, <2>2, <2>3, TreeCoded, NotRefused
  <2> QED
    BY <1>2, <2>1, <2>2, <2>3, <2>4
<1> QED
  BY <1>3, <1>4, <1>5, TreeCoded

\* What is inside a node does not go beyond it.
LEMMA Within ==
  ASSUME NEW c, Accepted(c), NEW w \in Nat, Has(c, "node", w), NEW p \in Nat, w < p, p < NodeEnd(c, w)
  PROVE  NodeEnd(c, p) <= NodeEnd(c, w)
<1>1. /\ c \in Seq(CodeFields) /\ DOMAIN c = 1 .. Len(c) /\ Len(c) \in Nat
      /\ \A i \in 1 .. Len(c) : EntireAt(c, i)
  BY AcceptedIsCode DEF Accepted, Entire
<1>2. PICK m \in Trees : Placed(c, w, Encode[m])
  BY <1>1 DEF Has, EntireAt, Spot
<1>3. Entire(Encode[m])
  BY EntireEncode
<1> DEFINE e == Encode[m]
<1>4. e \in Seq(CodeFields) /\ Len(e) \in Nat /\ \A i \in 1 .. Len(e) : EntireAt(e, i)
  BY <1>3, LenProperties DEF Entire
<1>5. NodeEnd(c, w) = w + Len(e)
  <2>1. Lies(c, w, Encode[m], w + Len(e))
    BY <1>2 DEF Lies
  <2> QED
    BY <2>1, SpansTree
<1> HIDE DEF e
<1>6. Placed(c, w, e)
  BY <1>2 DEF e
<1> DEFINE i == (p - w) + 1
<1>7. i \in 1 .. Len(e) /\ w + i - 1 = p
  BY <1>4, <1>5
<1>8. c[p] = e[i] /\ i + e[i].span <= Len(e) + 1 /\ p \in DOMAIN c
  <2>1. c[w + i - 1] = e[i] /\ w + Len(e) <= Len(c) + 1
    BY <1>6, <1>7 DEF Placed
  <2>2. p \in 1 .. Len(c)
    BY <1>1, <1>4, <1>7, <2>1
  <2> HIDE DEF i
  <2> QED
    BY <1>1, <1>4, <1>7, <2>1, <2>2 DEF EntireAt
<1>9. e[i].span \in Nat
  <2> HIDE DEF i
  <2>1. e[i] \in CodeFields
    BY <1>4, <1>7, ElementOfSeq
  <2> QED
    BY <2>1 DEF CodeFields
<1>10. p + e[i].span <= w + Len(e)
  BY <1>4, <1>8, <1>9
<1> QED
  BY <1>5, <1>8, <1>10 DEF NodeEnd

\* Nothing between a node and its next part goes beyond the part's start.
LEMMA EndsBefore ==
  ASSUME NEW c \in Seq(CodeFields), NEW u, Entire(u), NEW n \in Nat, NEW p, Lies(c, n + 1, u, p),
         NEW f \in n + 1 .. p - 1
  PROVE  NodeEnd(c, f) <= p
<1>1. /\ u \in Seq(CodeFields) /\ Len(u) \in Nat /\ p = (n + 1) + Len(u)
      /\ \A i \in 1 .. Len(u) : EntireAt(u, i) /\ c[(n + 1) + i - 1] = u[i]
  BY LenProperties DEF Entire, Lies, Placed
<1>2. f - n \in 1 .. Len(u) /\ (n + 1) + (f - n) - 1 = f
  BY <1>1
<1>3. c[f] = u[f - n] /\ (f - n) + u[f - n].span <= Len(u) + 1 /\ u[f - n].span \in Nat
  <2>1. u[f - n] \in CodeFields
    BY <1>1, <1>2, ElementOfSeq
  <2> QED
    BY <1>1, <1>2, <2>1 DEF EntireAt, CodeFields
<1>4. f + u[f - n].span <= p
  BY <1>1, <1>3
<1>5. f <= p
  BY <1>1
<1> QED
  BY <1>3, <1>4, <1>5 DEF NodeEnd

\* The parts of a statement are in the while loop that the statement is in.
LEMMA StaysInWhile ==
  ASSUME NEW c, Accepted(c), NEW n \in Nat, Has(c, "node", n), ~ NodeAt(c, "ForLoop", n),
         NEW u, Entire(u), NEW p \in Nat, Lies(c, n + 1, u, p), p < NodeEnd(c, n)
  PROVE  InWhile(c, n) \/ NodeAt(c, "WhileLoop", n) => InWhile(c, p)
<1>1. c \in Seq(CodeFields) /\ IsCode(c) /\ n + 1 <= p
  <2>1. Len(u) \in Nat
    BY LenProperties DEF Entire
  <2> QED
    BY <2>1, AcceptedIsCode DEF Lies
<1>2. ASSUME InWhile(c, n) PROVE InWhile(c, p)
  <2>1. PICK w \in 1 .. n - 1 :
          /\ NodeAt(c, "WhileLoop", w) /\ n < NodeEnd(c, w)
          /\ \A f \in w + 1 .. n - 1 : NodeAt(c, "ForLoop", f) => NodeEnd(c, f) <= n
    BY <1>2 DEF InWhile
  <2>2. NodeEnd(c, n) <= NodeEnd(c, w) /\ NodeEnd(c, n) \in Nat /\ NodeEnd(c, w) \in Nat
    BY <1>1, <2>1, Within, NodeEndType DEF NodeAt
  <2>3. ASSUME NEW f \in w + 1 .. p - 1, NodeAt(c, "ForLoop", f) PROVE NodeEnd(c, f) <= p
    <3>1. CASE f < n
      <4>1. f \in w + 1 .. n - 1 /\ f \in Nat
        BY <3>1
      <4>2. NodeEnd(c, f) <= n /\ NodeEnd(c, f) \in Nat
        BY <1>1, <2>1, <2>3, <4>1, NodeEndType
      <4> QED
        BY <1>1, <4>2
    <3>2. CASE f = n
      BY <2>3, <3>2
    <3>3. CASE f > n
      <4>1. f \in n + 1 .. p - 1
        BY <3>3
      <4> QED
        BY <1>1, <4>1, EndsBefore
    <3> QED
      BY <3>1, <3>2, <3>3
  <2>4. w \in 1 .. p - 1 /\ p < NodeEnd(c, w)
    BY <1>1, <2>2
  <2> QED
    BY <2>1, <2>3, <2>4 DEF InWhile
<1>3. ASSUME NodeAt(c, "WhileLoop", n) PROVE InWhile(c, p)
  <2>1. \A f \in n + 1 .. p - 1 : NodeEnd(c, f) <= p
    BY <1>1, EndsBefore
  <2>2. n \in 1 .. p - 1
    <3>1. n \in DOMAIN c
      BY DEF Has
    <3> QED
      BY <1>1, <3>1, AcceptedIsCode
  <2> QED
    BY <1>3, <2>1, <2>2 DEF InWhile
<1> QED
  BY <1>2, <1>3

-----------------------------------------------------------------------------
(* One step. *)

\* Steps that read nothing stay where they are.
FreeSteps ==
  { "attribute", "load", "member", "bind", "unary", "binary", "undecided", "list", "append",
    "dictionary", "insert", "compare", "subscript", "decide", "callable", "call", "iterate",
    "augment", "terminate", "break", "continue" }

\* No such step moves the cursor.
LEMMA FreeReaches ==
  ASSUME NEW c, NEW n, NEW step \in FreeSteps, NEW p
  PROVE  Reaches(c, n, step, p, p)
<1>1. step \notin DOMAIN Repeats /\ step \notin NodeSteps \cup FieldSteps \cup {"alias", "choose"}
  BY CountsNames DEF FreeSteps, NodeSteps, FieldSteps, Dropped
<1>2. StopsAt(c, n, step, p) = p
  BY <1>1, Stops
<1>3. FieldRead(step) = "any"
  BY <1>1 DEF FieldRead, ChildSteps, FreeSteps, NodeSteps, FieldSteps
<1>4. Legible(c, n, step, p)
  BY <1>1, <1>3 DEF Legible, FreeSteps
<1> QED
  BY <1>1, <1>2, <1>4, StepReaches

\* Steps that read a field.
LEMMA FieldReaches ==
  ASSUME NEW c, NEW n, NEW p
  PROVE  /\ Has(c, "op", p) => Reaches(c, n, "op", p, p + 1) /\ Reaches(c, n, "dropOp", p, p + 1)
         /\ Has(c, "i32", p) => Reaches(c, n, "integer", p, p + 1)
              /\ Reaches(c, n, "dropInteger", p, p + 1)
         /\ Has(c, "str", p) => /\ Reaches(c, n, "lookup", p, p + 1) /\ Reaches(c, n, "string", p, p + 1)
                               /\ Reaches(c, n, "dropString", p, p + 1)
         /\ Has(c, "str", p) /\ Has(c, "str", p + 1) => Reaches(c, n, "alias", p, p + 2)
<1>1. /\ DOMAIN Dropped = {"dropString", "dropInteger", "dropOp"}
      /\ Dropped["dropString"] = "str" /\ Dropped["dropInteger"] = "i32" /\ Dropped["dropOp"] = "op"
  BY DEF Dropped
<1>2. ASSUME NEW step \in {"op", "lookup", "string", "integer", "dropString", "dropInteger", "dropOp"},
             FieldRead(step) # "any" => Has(c, FieldRead(step), p)
      PROVE  Reaches(c, n, step, p, p + 1)
  <2>1. step \in FieldSteps /\ step \notin DOMAIN Repeats
    BY <1>1, CountsNames DEF FieldSteps
  <2>2. Legible(c, n, step, p)
    BY <1>2 DEF Legible
  <2> QED
    BY <2>1, <2>2, Stops, StepReaches
<1>3. /\ FieldRead("op") = "op" /\ FieldRead("lookup") = "str" /\ FieldRead("string") = "str"
      /\ FieldRead("integer") = "i32" /\ FieldRead("alias") = "str"
      /\ FieldRead("dropString") = "str" /\ FieldRead("dropInteger") = "i32"
           /\ FieldRead("dropOp") = "op"
  BY <1>1, CountsNames DEF FieldRead, ChildSteps
<1>4. ASSUME Has(c, "str", p), Has(c, "str", p + 1) PROVE Reaches(c, n, "alias", p, p + 2)
  <2>1. Legible(c, n, "alias", p)
    BY <1>3, <1>4 DEF Legible
  <2>2. "alias" \notin DOMAIN Repeats
    BY CountsNames
  <2> QED
    BY <2>1, <2>2, Stops, StepReaches
<1> QED
  BY <1>2, <1>3, <1>4

\* Steps that read a tree.
LEMMA TreeReaches ==
  ASSUME NEW c, Accepted(c), NEW n, NEW m \in Trees, NEW p, NEW q, Lies(c, p, Encode[m], q)
  PROVE  /\ \A step \in {"skip", "name", "names", "dropNames", "fetch", "target"} :
              Reaches(c, n, step, p, q)
         /\ m.type \notin StatementTrees => Reaches(c, n, "expr", p, q) /\ Reaches(c, n, "test", p, q)
         /\ (InWhile(c, n) => InWhile(c, p)) => Reaches(c, n, "stmt", p, q)
         /\ m.type = "Suite" /\ (c[n].val = "WhileLoop" => InWhile(c, p))
              => Reaches(c, n, "while", p, q) /\ Reaches(c, n, "next", p, q)
<1>1. /\ Has(c, "node", p) /\ NodeEnd(c, p) = q
      /\ m.type \notin StatementTrees => c[p].val \in ExpressionTypes
      /\ m.type = "Suite" => NodeAt(c, "StatementList", p)
  BY SpansTree
<1>2. ASSUME NEW step \in NodeSteps, Legible(c, n, step, p) PROVE Reaches(c, n, step, p, q)
  <2>1. step \notin DOMAIN Repeats
    BY CountsNames DEF NodeSteps
  <2> QED
    BY <1>1, <1>2, <2>1, Stops, StepReaches
<1>3. ASSUME NEW step \in {"skip", "name", "names", "dropNames", "fetch", "target"}
      PROVE  Reaches(c, n, step, p, q)
  <2>1. Legible(c, n, step, p)
    <3>1. FieldRead(step) = "node"
      BY CountsNames DEF FieldRead, ChildSteps, Dropped
    <3> QED
      BY <1>1, <3>1 DEF Legible
  <2>2. step \in NodeSteps
    BY DEF NodeSteps
  <2> QED
    BY <1>2, <2>1, <2>2
<1>4. ASSUME m.type \notin StatementTrees, NEW step \in {"expr", "test"} PROVE Reaches(c, n, step, p, q)
  <2>1. Legible(c, n, step, p)
    <3>1. FieldRead(step) = "node"
      BY CountsNames DEF FieldRead, ChildSteps, Dropped
    <3> QED
      BY <1>1, <1>4, <3>1 DEF Legible
  <2>2. step \in NodeSteps
    BY DEF NodeSteps
  <2> QED
    BY <1>2, <2>1, <2>2
<1>5. ASSUME InWhile(c, n) => InWhile(c, p) PROVE Reaches(c, n, "stmt", p, q)
  <2>1. Legible(c, n, "stmt", p)
    <3>1. FieldRead("stmt") = "node"
      BY CountsNames DEF FieldRead, ChildSteps, Dropped
    <3> QED
      BY <1>1, <1>5, <3>1 DEF Legible
  <2>2. "stmt" \in NodeSteps
    BY DEF NodeSteps
  <2> QED
    BY <1>2, <2>1, <2>2
<1>6. ASSUME m.type = "Suite", c[n].val = "WhileLoop" => InWhile(c, p), NEW step \in {"while", "next"}
      PROVE  Reaches(c, n, step, p, q)
  <2>1. Legible(c, n, step, p)
    <3>1. FieldRead(step) = "any"
      BY CountsNames DEF FieldRead, ChildSteps, Dropped
    <3> QED
      BY <1>1, <1>6, <3>1 DEF Legible
  <2>2. step \in NodeSteps
    BY DEF NodeSteps
  <2> QED
    BY <1>2, <2>1, <2>2
<1> QED
  BY <1>3, <1>4, <1>5, <1>6

\* Which branch there is to choose.
LEMMA ChooseReaches ==
  ASSUME NEW c, NEW n, NEW p, Has(c, "node", p), InWhile(c, n) => InWhile(c, p)
  PROVE  /\ c[n].val = "If" => Reaches(c, n, "choose", p, NodeEnd(c, p))
         /\ /\ c[n].val # "If" /\ Has(c, "node", NodeEnd(c, p))
            /\ InWhile(c, n) => InWhile(c, NodeEnd(c, p))
            => Reaches(c, n, "choose", p, NodeEnd(c, NodeEnd(c, p)))
<1>1. "choose" \notin DOMAIN Repeats /\ FieldRead("choose") = "any"
  BY CountsNames DEF FieldRead, ChildSteps, Dropped
<1>2. c[n].val = "If" => Legible(c, n, "choose", p)
  BY <1>1 DEF Legible
<1>3. c[n].val # "If" /\ Has(c, "node", NodeEnd(c, p)) /\ (InWhile(c, n) => InWhile(c, NodeEnd(c, p)))
        => Legible(c, n, "choose", p)
  BY <1>1 DEF Legible
<1> QED
  BY <1>1, <1>2, <1>3, Stops, StepReaches

-----------------------------------------------------------------------------
(* Several steps. *)

\* Two elements and then some more.
LEMMA TwoAndMore ==
  ASSUME NEW S, NEW a \in S, NEW b \in S, NEW t \in Seq(S), NEW u \in Seq(S),
         Len(u) = 2 + Len(t), u[1] = a, u[2] = b, \A i \in 1 .. Len(t) : u[i + 2] = t[i]
  PROVE  <<a, b>> \o t = u
<1>1. <<a, b>> \in Seq(S) /\ Len(<<a, b>>) = 2 /\ <<a, b>>[1] = a /\ <<a, b>>[2] = b
  OBVIOUS
<1>2. /\ <<a, b>> \o t \in Seq(S) /\ Len(<<a, b>> \o t) = 2 + Len(t)
      /\ \A i \in 1 .. 2 + Len(t) : (<<a, b>> \o t)[i] = IF i <= 2 THEN <<a, b>>[i] ELSE t[i - 2]
  BY <1>1, ConcatProperties
<1>3. ASSUME NEW i \in 1 .. 2 + Len(t) PROVE (<<a, b>> \o t)[i] = u[i]
  <2>1. CASE i = 1
    BY <1>1, <1>2, <2>1
  <2>2. CASE i = 2
    BY <1>1, <1>2, <2>2
  <2>3. CASE i > 2
    <3>1. i - 2 \in 1 .. Len(t) /\ (i - 2) + 2 = i /\ ~ (i <= 2)
      BY <2>3
    <3> QED
      BY <1>2, <3>1
  <2> QED
    BY <2>1, <2>2, <2>3
<1> QED
  BY <1>2, <1>3, SeqEqual

\* One more.
LEMMA TwoAndOne ==
  ASSUME NEW S, NEW a \in S, NEW b \in S, NEW d \in S
  PROVE  <<a, b>> \o <<d>> = <<a, b, d>>
<1>1. <<d>> \in Seq(S) /\ <<a, b, d>> \in Seq(S)
  OBVIOUS
<1>2. /\ Len(<<a, b, d>>) = 2 + Len(<<d>>) /\ <<a, b, d>>[1] = a /\ <<a, b, d>>[2] = b
      /\ \A i \in 1 .. Len(<<d>>) : <<a, b, d>>[i + 2] = <<d>>[i]
  OBVIOUS
<1> QED
  BY <1>1, <1>2, TwoAndMore

\* Two more.
LEMMA TwoAndTwo ==
  ASSUME NEW S, NEW a \in S, NEW b \in S, NEW d \in S, NEW e \in S
  PROVE  <<a, b>> \o <<d, e>> = <<a, b, d, e>>
<1>1. <<d, e>> \in Seq(S) /\ <<a, b, d, e>> \in Seq(S)
  OBVIOUS
<1>2. /\ Len(<<a, b, d, e>>) = 2 + Len(<<d, e>>) /\ <<a, b, d, e>>[1] = a /\ <<a, b, d, e>>[2] = b
      /\ \A i \in 1 .. Len(<<d, e>>) : <<a, b, d, e>>[i + 2] = <<d, e>>[i]
  OBVIOUS
<1> QED
  BY <1>1, <1>2, TwoAndMore, ZenonT(40)

\* Three more.
LEMMA TwoAndThree ==
  ASSUME NEW S, NEW a \in S, NEW b \in S, NEW d \in S, NEW e \in S, NEW f \in S
  PROVE  <<a, b>> \o <<d, e, f>> = <<a, b, d, e, f>>
<1>1. <<d, e, f>> \in Seq(S) /\ <<a, b, d, e, f>> \in Seq(S)
  OBVIOUS
<1>2. /\ Len(<<a, b, d, e, f>>) = 2 + Len(<<d, e, f>>) /\ <<a, b, d, e, f>>[1] = a
           /\ <<a, b, d, e, f>>[2] = b
      /\ \A i \in 1 .. Len(<<d, e, f>>) : <<a, b, d, e, f>>[i + 2] = <<d, e, f>>[i]
  OBVIOUS
<1> QED
  BY <1>1, <1>2, TwoAndMore, ZenonT(40)

\* Three steps.
LEMMA LeadsThrice ==
  ASSUME NEW c, NEW n, NEW a, NEW b, NEW d, NEW p \in Nat, NEW q \in Nat, NEW r \in Nat, NEW s \in Nat,
         Reaches(c, n, a, p, q), Reaches(c, n, b, q, r), Reaches(c, n, d, r, s)
  PROVE  Leads(c, n, <<a, b, d>>, p, s)
<1>1. Leads(c, n, <<a, b>>, p, r) /\ Leads(c, n, <<d>>, r, s)
  BY LeadsTwice, LeadsOnce
<1> DEFINE S == {a, b, d}
<1>2. a \in S /\ b \in S /\ d \in S
  OBVIOUS
<1> HIDE DEF S
<1>3. <<a, b>> \in Seq(S) /\ <<d>> \in Seq(S)
  BY <1>2
<1>4. <<a, b>> \o <<d>> = <<a, b, d>>
  BY <1>2, TwoAndOne
<1> QED
  BY <1>1, <1>3, <1>4, LeadsJoin

\* Four.
LEMMA LeadsFour ==
  ASSUME NEW c, NEW n, NEW a, NEW b, NEW d, NEW e,
         NEW p \in Nat, NEW q \in Nat, NEW r \in Nat, NEW s \in Nat, NEW t \in Nat,
         Reaches(c, n, a, p, q), Reaches(c, n, b, q, r), Reaches(c, n, d, r, s), Reaches(c, n, e, s, t)
  PROVE  Leads(c, n, <<a, b, d, e>>, p, t)
<1>1. Leads(c, n, <<a, b>>, p, r) /\ Leads(c, n, <<d, e>>, r, t)
  BY LeadsTwice
<1> DEFINE S == {a, b, d, e}
<1>2. a \in S /\ b \in S /\ d \in S /\ e \in S
  OBVIOUS
<1> HIDE DEF S
<1>3. <<a, b>> \in Seq(S) /\ <<d, e>> \in Seq(S)
  BY <1>2
<1>4. <<a, b>> \o <<d, e>> = <<a, b, d, e>>
  BY <1>2, TwoAndTwo
<1> QED
  BY <1>1, <1>3, <1>4, LeadsJoin

\* Five.
LEMMA LeadsFive ==
  ASSUME NEW c, NEW n, NEW a, NEW b, NEW d, NEW e, NEW f,
         NEW p \in Nat, NEW q \in Nat, NEW r \in Nat, NEW s \in Nat, NEW t \in Nat, NEW u \in Nat,
         Reaches(c, n, a, p, q), Reaches(c, n, b, q, r), Reaches(c, n, d, r, s), Reaches(c, n, e, s, t),
         Reaches(c, n, f, t, u)
  PROVE  Leads(c, n, <<a, b, d, e, f>>, p, u)
<1>1. Leads(c, n, <<a, b>>, p, r) /\ Leads(c, n, <<d, e, f>>, r, u)
  BY LeadsTwice, LeadsThrice
<1> DEFINE S == {a, b, d, e, f}
<1>2. a \in S /\ b \in S /\ d \in S /\ e \in S /\ f \in S
  OBVIOUS
<1> HIDE DEF S
<1>3. <<a, b>> \in Seq(S) /\ <<d, e, f>> \in Seq(S)
  BY <1>2
<1>4. <<a, b>> \o <<d, e, f>> = <<a, b, d, e, f>>
  BY <1>2, TwoAndThree
<1> QED
  BY <1>1, <1>3, <1>4, LeadsJoin

\* Steps that are repeated.
LEMMA TimesNext ==
  ASSUME NEW S, NEW s \in Seq(S), Len(s) \in 1 .. 3, NEW k \in Nat
  PROVE  Times(0, s) = << >> /\ Times(k + 1, s) = Times(k, s) \o s
<1>1. ASSUME NEW l \in 1 .. 3, Len(s) = l, l = 1 \/ l = 2 \/ l = 3
      PROVE Times(k + 1, s) = Times(k, s) \o s
  <2>1. /\ Times(k, s) = [i \in 1 .. k * l |-> s[((i - 1) % l) + 1]]
        /\ Times(k + 1, s) = [i \in 1 .. (k + 1) * l |-> s[((i - 1) % l) + 1]]
    BY <1>1 DEF Times
  <2>2. Times(k, s) \in Seq(S) /\ Len(Times(k, s)) = k * l /\ k * l \in Nat /\ (k + 1) * l = k * l + l
    <3>1. Times(k, s) \in Seq(S)
      BY TimesType
    <3>2. k * l \in Nat /\ (k + 1) * l = k * l + l
      BY <1>1
    <3>3. Len(Times(k, s)) = k * l
      BY <2>1, <3>1, <3>2, LenProperties
    <3> QED
      BY <3>1, <3>2, <3>3
  <2>3. /\ Times(k, s) \o s \in Seq(S) /\ Len(Times(k, s) \o s) = k * l + l
        /\ \A i \in 1 .. k * l + l :
             (Times(k, s) \o s)[i] = IF i <= k * l THEN Times(k, s)[i] ELSE s[i - k * l]
    BY <1>1, <2>2, ConcatProperties
  <2>4. ASSUME NEW i \in 1 .. k * l + l PROVE Times(k + 1, s)[i] = (Times(k, s) \o s)[i]
    <3>1. Times(k + 1, s)[i] = s[((i - 1) % l) + 1]
      BY <2>1, <2>2
    <3>2. CASE i <= k * l
      <4>1. i \in 1 .. k * l
        BY <2>2, <3>2
      <4> QED
        BY <2>1, <2>3, <3>1, <3>2, <4>1
    <3>3. CASE ~ (i <= k * l)
      <4>1. ((i - 1) % l) + 1 = i - k * l
        BY <1>1, <2>2, <3>3
      <4> QED
        BY <2>3, <3>1, <3>3, <4>1
    <3> QED
      BY <3>2, <3>3
  <2>5. DOMAIN (Times(k, s) \o s) = 1 .. k * l + l
    BY <2>3, LenProperties
  <2>6. Times(k + 1, s) \in Seq(S) /\ Len(Times(k + 1, s)) = k * l + l
    <3>1. k + 1 \in Nat /\ Times(k + 1, s) \in Seq(S)
      BY TimesType
    <3>2. DOMAIN Times(k + 1, s) = 1 .. k * l + l
      BY <2>1, <2>2
    <3> QED
      BY <2>2, <3>1, <3>2, LenProperties
  <2> QED
    BY <2>3, <2>4, <2>6, SeqEqual
<1>2. Times(0, s) = << >>
  <2>1. 0 * Len(s) = 0 /\ 1 .. 0 = {}
    OBVIOUS
  <2>2. Times(0, s) = [i \in 1 .. 0 |-> s[((i - 1) % Len(s)) + 1]]
    BY <2>1 DEF Times
  <2> QED
    BY <2>1, <2>2
<1>3. Len(s) = 1 \/ Len(s) = 2 \/ Len(s) = 3
  OBVIOUS
<1> QED
  BY <1>1, <1>2, <1>3

\* They lead as far as each repetition leads.
LEMMA TimesLeads ==
  ASSUME NEW c, NEW n, NEW S, NEW s \in Seq(S), Len(s) \in 1 .. 3, NEW k \in Nat,
         NEW at \in [0 .. k -> Nat], \A i \in 1 .. k : Leads(c, n, s, at[i - 1], at[i])
  PROVE  Leads(c, n, Times(k, s), at[0], at[k])
<1> DEFINE Reached == { j \in Nat : j <= k => Leads(c, n, Times(j, s), at[0], at[j]) }
<1>1. 0 \in Reached
  <2>1. Times(0, s) = << >> /\ at[0] \in Nat
    BY TimesNext
  <2>2. Leads(c, n, Times(0, s), at[0], at[0])
    BY <2>1, LeadsNowhere
  <2> QED
    BY <2>2
<1>2. ASSUME NEW j \in Nat, j \in Reached PROVE j + 1 \in Reached
  <2> SUFFICES ASSUME j + 1 <= k PROVE Leads(c, n, Times(j + 1, s), at[0], at[j + 1])
    OBVIOUS
  <2>1. j + 1 \in 1 .. k /\ (j + 1) - 1 = j /\ j <= k
    OBVIOUS
  <2>2. Leads(c, n, Times(j, s), at[0], at[j]) /\ Leads(c, n, s, at[j], at[j + 1])
    BY <1>2, <2>1
  <2>3. Times(j, s) \in Seq(S)
    BY TimesType
  <2>4. Times(j + 1, s) = Times(j, s) \o s
    BY TimesNext
  <2> QED
    BY <2>2, <2>3, <2>4, LeadsJoin
<1>3. k \in Reached
  <2> HIDE DEF Reached
  <2> QED
    BY <1>1, <1>2, Induction
<1> QED
  BY <1>3

-----------------------------------------------------------------------------
(* Back to module Layout: where the fields are cut is determined. *)

\* Two ways through the same fields that part nowhere are the same.
SameUpTo(f, g, l) == \A i \in 1 .. l + 1 : f[i] = g[i]

\* They agree at each field when they agree at the first.
LEMMA SamePath ==
  ASSUME NEW l \in Nat, NEW f, NEW g, f[1] = g[1],
         \A i \in 1 .. l : f[i] = g[i] => f[i + 1] = g[i + 1]
  PROVE  SameUpTo(f, g, l)
<1> DEFINE S == { j \in Nat : j <= l => f[j + 1] = g[j + 1] }
<1>1. 0 \in S
  OBVIOUS
<1>2. ASSUME NEW j \in Nat, j \in S PROVE j + 1 \in S
  <2> SUFFICES ASSUME j + 1 <= l PROVE f[(j + 1) + 1] = g[(j + 1) + 1]
    OBVIOUS
  <2>1. j + 1 \in 1 .. l /\ j <= l
    OBVIOUS
  <2>2. f[j + 1] = g[j + 1]
    BY <1>2, <2>1
  <2> QED
    BY <2>1, <2>2
<1>3. \A j \in Nat : j \in S
  <2> HIDE DEF S
  <2> QED
    BY <1>1, <1>2, Induction
<1>4. ASSUME NEW i \in 1 .. l + 1 PROVE f[i] = g[i]
  <2>1. i - 1 \in Nat /\ i - 1 <= l /\ (i - 1) + 1 = i
    OBVIOUS
  <2>2. i - 1 \in S
    BY <1>3, <2>1
  <2> QED
    BY <2>1, <2>2
<1> QED
  BY <1>4 DEF SameUpTo

\* Uncounted steps are a row.
LEMMA LeadsCrosses ==
  ASSUME NEW c, NEW n, NEW steps \in Seq(Uncounted), NEW p, NEW q, Leads(c, n, steps, p, q)
  PROVE  Crosses(c, n, steps, p, q)
<1>1. DOMAIN steps = 1 .. Len(steps)
  BY LenProperties
<1>2. PICK at \in [1 .. Len(steps) + 1 -> Nat] :
        /\ at[1] = p /\ at[Len(steps) + 1] = q
        /\ \A i \in 1 .. Len(steps) : Reaches(c, n, steps[i], at[i], at[i + 1])
  BY DEF Leads
<1>3. ASSUME NEW i \in 1 .. Len(steps)
      PROVE  Legible(c, n, steps[i], at[i]) /\ at[i + 1] = StopsAt(c, n, steps[i], at[i])
  <2>1. steps[i] \notin DOMAIN Repeats
    BY ElementOfSeq DEF Uncounted
  <2>2. Reaches(c, n, steps[i], at[i], at[i + 1])
    BY <1>2
  <2> QED
    BY <2>1, <2>2, StepReaches
<1>4. RowCuts(c, n, steps, at)
  BY <1>1, <1>3 DEF RowCuts
<1> QED
  BY <1>2, <1>4 DEF Crosses

\* The cuts of a row.
IsCuts(f, c, n, steps, p) ==
  f = [i \in 1 .. Len(steps) + 1 |-> IF i = 1 THEN p ELSE StopsAt(c, n, steps[i - 1], f[i - 1])]

\* They are those that Layout computes.
LEMMA CrossesRow ==
  ASSUME NEW c, NEW n, NEW S, NEW steps \in Seq(S), NEW p, NEW q, Crosses(c, n, steps, p, q)
  PROVE  Row(c, n, steps, p, q) /\ Cuts(c, n, steps, p)[Len(steps) + 1] = q
<1>1. DOMAIN steps = 1 .. Len(steps) /\ Len(steps) \in Nat
  BY LenProperties
<1>2. PICK at : RowCuts(c, n, steps, at) /\ at[1] = p /\ at[Len(steps) + 1] = q
  BY DEF Crosses
<1>3. /\ DOMAIN at = 1 .. Len(steps) + 1 /\ at = [i \in 1 .. Len(steps) + 1 |-> at[i]]
      /\ \A i \in 1 .. Len(steps) : at[i + 1] = StopsAt(c, n, steps[i], at[i])
  BY <1>1, <1>2 DEF RowCuts
<1>4. IsCuts(at, c, n, steps, p)
  <2>1. ASSUME NEW i \in 1 .. Len(steps) + 1
        PROVE  at[i] = IF i = 1 THEN p ELSE StopsAt(c, n, steps[i - 1], at[i - 1])
    <3>1. CASE i = 1
      BY <1>2, <3>1
    <3>2. CASE i # 1
      <4>1. i - 1 \in 1 .. Len(steps) /\ (i - 1) + 1 = i
        BY <1>1, <3>2
      <4> QED
        BY <1>3, <3>2, <4>1
    <3> QED
      BY <3>1, <3>2
  <2> QED
    BY <1>3, <2>1 DEF IsCuts
<1> DEFINE f == CHOOSE f : IsCuts(f, c, n, steps, p)
<1>5. Cuts(c, n, steps, p) = f
  BY DEF Cuts, IsCuts
<1>6. IsCuts(f, c, n, steps, p)
  BY <1>4
<1> HIDE DEF f
<1>7. f = at
  <2>1. f = [i \in 1 .. Len(steps) + 1 |-> f[i]]
    BY <1>6 DEF IsCuts
  <2>2. ASSUME NEW i \in 1 .. Len(steps) + 1
        PROVE  f[i] = IF i = 1 THEN p ELSE StopsAt(c, n, steps[i - 1], f[i - 1])
    BY <1>6 DEF IsCuts
  <2>3. f[1] = p
    BY <1>1, <2>2
  <2>4. ASSUME NEW i \in 1 .. Len(steps), f[i] = at[i] PROVE f[i + 1] = at[i + 1]
    <3>1. i + 1 \in 1 .. Len(steps) + 1 /\ i + 1 # 1 /\ (i + 1) - 1 = i
      BY <1>1
    <3>2. f[i + 1] = StopsAt(c, n, steps[i], f[i])
      BY <2>2, <3>1
    <3> QED
      BY <1>3, <2>4, <3>2
  <2> QED
    <3>1. f[1] = at[1] /\ \A i \in 1 .. Len(steps) : f[i] = at[i] => f[i + 1] = at[i + 1]
      BY <1>2, <2>3, <2>4
    <3>2. SameUpTo(f, at, Len(steps))
      BY <1>1, <3>1, SamePath
    <3> QED
      BY <1>3, <2>1, <3>2 DEF SameUpTo
<1> QED
  BY <1>2, <1>5, <1>7 DEF Row

\* One step of a handler.
LEMMA ReachesPasses ==
  ASSUME NEW c, IsCode(c), NEW n, NEW step, NEW p, NEW q, Reaches(c, n, step, p, q)
  PROVE  Passes(c, n, step, p, q) /\ PassesTo(c, n, step, p) = q
<1>1. CASE step \in DOMAIN Repeats
  <2> DEFINE steps == Counted(c, step, p)
  <2>1. Has(c, "u32", p) /\ Crosses(c, n, steps, p + 1, q)
    BY <1>1 DEF Reaches
  <2>2. steps \in Seq(Uncounted)
    BY <1>1, <2>1, CountedType
  <2> HIDE DEF steps
  <2>3. Row(c, n, steps, p + 1, q) /\ Cuts(c, n, steps, p + 1)[Len(steps) + 1] = q
    BY <2>1, <2>2, CrossesRow
  <2> QED
    BY <1>1, <2>1, <2>3 DEF Passes, PassesTo, steps
<1>2. CASE step \notin DOMAIN Repeats
  BY <1>2, StepReaches DEF Passes, PassesTo
<1> QED
  BY <1>1, <1>2

\* The cuts of a handler's steps.
IsAlong(f, c, n, steps, p) ==
  f = [i \in 1 .. Len(steps) + 1 |-> IF i = 1 THEN p ELSE PassesTo(c, n, steps[i - 1], f[i - 1])]

\* They, too, are those that Layout computes.
LEMMA LeadsAlong ==
  ASSUME NEW c, IsCode(c), NEW n, NEW S, NEW steps \in Seq(S), NEW p, NEW q, Leads(c, n, steps, p, q)
  PROVE  Along(c, n, steps, p, q)
<1>1. DOMAIN steps = 1 .. Len(steps) /\ Len(steps) \in Nat
  BY LenProperties
<1>2. PICK at \in [1 .. Len(steps) + 1 -> Nat] :
        /\ at[1] = p /\ at[Len(steps) + 1] = q
        /\ \A i \in 1 .. Len(steps) : Reaches(c, n, steps[i], at[i], at[i + 1])
  BY DEF Leads
<1>3. ASSUME NEW i \in 1 .. Len(steps)
      PROVE  Passes(c, n, steps[i], at[i], at[i + 1]) /\ at[i + 1] = PassesTo(c, n, steps[i], at[i])
  BY <1>2, ReachesPasses
<1>4. IsAlong(at, c, n, steps, p)
  <2>1. ASSUME NEW i \in 1 .. Len(steps) + 1
        PROVE  at[i] = IF i = 1 THEN p ELSE PassesTo(c, n, steps[i - 1], at[i - 1])
    <3>1. CASE i = 1
      BY <1>2, <3>1
    <3>2. CASE i # 1
      <4>1. i - 1 \in 1 .. Len(steps) /\ (i - 1) + 1 = i
        BY <1>1, <3>2
      <4> QED
        BY <1>3, <3>2, <4>1
    <3> QED
      BY <3>1, <3>2
  <2> QED
    BY <1>2, <2>1 DEF IsAlong
<1> DEFINE f == CHOOSE f : IsAlong(f, c, n, steps, p)
<1>5. IsAlong(f, c, n, steps, p)
  BY <1>4
<1>6. Fits(c, n, steps, f) /\ f[1] = p /\ f[Len(steps) + 1] = q => Along(c, n, steps, p, q)
  BY DEF Along, IsAlong
<1> HIDE DEF f
<1>7. f = at
  <2>1. f = [i \in 1 .. Len(steps) + 1 |-> f[i]]
    BY <1>5 DEF IsAlong
  <2>2. ASSUME NEW i \in 1 .. Len(steps) + 1
        PROVE  f[i] = IF i = 1 THEN p ELSE PassesTo(c, n, steps[i - 1], f[i - 1])
    BY <1>5 DEF IsAlong
  <2>3. f[1] = p
    BY <1>1, <2>2
  <2>4. ASSUME NEW i \in 1 .. Len(steps), f[i] = at[i] PROVE f[i + 1] = at[i + 1]
    <3>1. i + 1 \in 1 .. Len(steps) + 1 /\ i + 1 # 1 /\ (i + 1) - 1 = i
      BY <1>1
    <3>2. f[i + 1] = PassesTo(c, n, steps[i], f[i])
      BY <2>2, <3>1
    <3> QED
      BY <1>3, <2>4, <3>2
  <2>5. at = [i \in 1 .. Len(steps) + 1 |-> at[i]]
    BY <1>2
  <2> QED
    <3>1. f[1] = at[1] /\ \A i \in 1 .. Len(steps) : f[i] = at[i] => f[i + 1] = at[i + 1]
      BY <1>2, <2>3, <2>4
    <3>2. SameUpTo(f, at, Len(steps))
      BY <1>1, <3>1, SamePath
    <3> QED
      BY <2>1, <2>5, <3>2 DEF SameUpTo
<1>8. Fits(c, n, steps, at)
  BY <1>1, <1>2, <1>3 DEF Fits
<1> QED
  BY <1>2, <1>6, <1>7, <1>8

-----------------------------------------------------------------------------
(* Counted steps. *)

\* One after the other.
LEMMA LiesBoth ==
  ASSUME NEW c, NEW s \in Seq(CodeFields), NEW t \in Seq(CodeFields),
         NEW p, NEW m, NEW q, Lies(c, p, s, m), Lies(c, m, t, q)
  PROVE  Lies(c, p, s \o t, q)
<1>1. /\ Len(s) \in Nat /\ Len(t) \in Nat /\ Len(s \o t) = Len(s) + Len(t)
      /\ \A i \in 1 .. Len(s) + Len(t) : (s \o t)[i] = IF i <= Len(s) THEN s[i] ELSE t[i - Len(s)]
  BY LenProperties, ConcatProperties
<1>2. p \in Nat \ {0} /\ m = p + Len(s) /\ m + Len(t) <= Len(c) + 1 /\ q = m + Len(t)
  BY DEF Lies, Placed
<1>3. p + (Len(s) + Len(t)) = m + Len(t)
  BY <1>1, <1>2
<1>4. ASSUME NEW i \in 1 .. Len(s) + Len(t) PROVE c[p + i - 1] = (s \o t)[i]
  <2>1. CASE i <= Len(s)
    <3>1. i \in 1 .. Len(s)
      BY <1>1, <2>1
    <3>2. c[p + i - 1] = s[i]
      BY <3>1 DEF Lies, Placed
    <3> QED
      BY <1>1, <2>1, <3>2
  <2>2. CASE ~ (i <= Len(s))
    <3>1. i - Len(s) \in 1 .. Len(t) /\ m + (i - Len(s)) - 1 = p + i - 1
      BY <1>1, <1>2, <2>2
    <3>2. c[m + (i - Len(s)) - 1] = t[i - Len(s)]
      BY <3>1 DEF Lies, Placed
    <3> QED
      BY <1>1, <2>2, <3>1, <3>2
  <2> QED
    BY <2>1, <2>2
<1> QED
  BY <1>1, <1>2, <1>3, <1>4 DEF Lies, Placed

\* The parts that a loop of the compiler writes follow each other.
LineUp(c, p, parts, k, q) ==
  \E at \in [0 .. k -> Nat] :
    /\ at[0] = p /\ at[k] = q
    /\ \A i \in 1 .. k : /\ Lies(c, at[i - 1], parts[i], at[i]) /\ at[i] <= q
                         /\ \E u : Entire(u) /\ Lies(c, p, u, at[i - 1])

\* So it is in the code that contains them.
LEMMA PartsLie ==
  ASSUME NEW c \in Seq(CodeFields), NEW k \in Nat, NEW parts, \A i \in 1 .. k : Entire(parts[i]),
         NEW p, NEW q, Lies(c, p, Joined(parts, k), q)
  PROVE  LineUp(c, p, parts, k, q)
<1>1. PICK u : /\ u[0] = << >> /\ Joined(parts, k) = u[k]
               /\ \A i \in 1 .. k : u[i] = u[i - 1] \o parts[i]
  BY JoinedSteps
<1> DEFINE S == { j \in Nat : j <= k => Entire(u[j]) }
           D == { j \in Nat : j <= k => Placed(c, p, u[k - j]) }
<1>2. \A j \in Nat : j \in S
  <2>1. 0 \in S
    BY <1>1, EntireFields
  <2>2. ASSUME NEW j \in Nat, j \in S PROVE j + 1 \in S
    <3> SUFFICES ASSUME j + 1 <= k PROVE Entire(u[j + 1])
      OBVIOUS
    <3>1. j + 1 \in 1 .. k /\ (j + 1) - 1 = j /\ j <= k
      OBVIOUS
    <3>2. u[j + 1] = u[j] \o parts[j + 1] /\ Entire(u[j]) /\ Entire(parts[j + 1])
      BY <1>1, <2>2, <3>1
    <3> QED
      BY <3>2, EntireConcat
  <2> HIDE DEF S
  <2> QED
    BY <2>1, <2>2, Induction
<1>3. \A i \in 0 .. k : Entire(u[i]) /\ u[i] \in Seq(CodeFields) /\ Len(u[i]) \in Nat
  BY <1>2, LenProperties DEF Entire
<1>4. ASSUME NEW i \in 1 .. k PROVE /\ i - 1 \in 0 .. k /\ i \in 0 .. k
                                    /\ u[i] = u[i - 1] \o parts[i] /\ parts[i] \in Seq(CodeFields)
  <2>1. i - 1 \in 0 .. k /\ i \in 0 .. k
    OBVIOUS
  <2>2. parts[i] \in Seq(CodeFields)
    BY DEF Entire
  <2> QED
    BY <1>1, <2>1, <2>2
<1>5. \A j \in Nat : j \in D
  <2>1. 0 \in D
    <3>1. k - 0 = k
      OBVIOUS
    <3> QED
      BY <1>1, <3>1 DEF Lies
  <2>2. ASSUME NEW j \in Nat, j \in D PROVE j + 1 \in D
    <3> SUFFICES ASSUME j + 1 <= k PROVE Placed(c, p, u[k - (j + 1)])
      OBVIOUS
    <3>1. k - j \in 1 .. k /\ (k - j) - 1 = k - (j + 1) /\ j <= k
      OBVIOUS
    <3>2. /\ u[k - j] = u[k - (j + 1)] \o parts[k - j]
          /\ u[k - (j + 1)] \in Seq(CodeFields) /\ parts[k - j] \in Seq(CodeFields)
      BY <1>3, <1>4, <3>1
    <3>3. Placed(c, p, u[k - j])
      BY <2>2, <3>1
    <3> QED
      BY <3>2, <3>3, PlacedBoth
  <2> HIDE DEF D
  <2> QED
    BY <2>1, <2>2, Induction
<1>6. ASSUME NEW i \in 0 .. k PROVE Placed(c, p, u[i])
  <2>1. k - i \in Nat /\ k - i <= k /\ k - (k - i) = i
    OBVIOUS
  <2>2. k - i \in D
    BY <1>5, <2>1
  <2> QED
    BY <2>1, <2>2
<1> HIDE DEF S, D
<1>7. p \in Nat
  BY DEF Lies, Placed
<1> DEFINE at == [i \in 0 .. k |-> p + Len(u[i])]
<1>8. at \in [0 .. k -> Nat] /\ \A i \in 0 .. k : at[i] = p + Len(u[i])
  BY <1>3, <1>7
<1> HIDE DEF at
<1>9. at[0] = p /\ at[k] = q
  <2>1. at[0] = p + Len(u[0]) /\ at[k] = p + Len(u[k])
    BY <1>8
  <2>2. Len(u[0]) = 0
    BY <1>1
  <2> QED
    BY <1>1, <1>7, <2>1, <2>2 DEF Lies
<1>10. ASSUME NEW i \in 1 .. k
       PROVE  /\ Lies(c, at[i - 1], parts[i], at[i])
              /\ \E v : Entire(v) /\ Lies(c, p, v, at[i - 1])
  <2>1. Placed(c, p, u[i]) /\ Placed(c, p, u[i - 1]) /\ at[i] = p + Len(u[i])
          /\ at[i - 1] = p + Len(u[i - 1])
    BY <1>4, <1>6, <1>8
  <2> DEFINE a == u[i - 1]
             b == parts[i]
  <2>2. /\ a \in Seq(CodeFields) /\ b \in Seq(CodeFields) /\ u[i] = a \o b /\ at[i - 1] = p + Len(a)
        /\ Placed(c, p, a \o b)
    BY <1>3, <1>4, <2>1
  <2> HIDE DEF a, b
  <2>3. Placed(c, p + Len(a), b) /\ Len(a \o b) = Len(a) + Len(b)
    BY <2>2, PlacedBoth, PlacedHalves
  <2>5. p + (Len(a) + Len(b)) = (p + Len(a)) + Len(b)
    <3>1. Len(a) \in Nat /\ Len(b) \in Nat
      BY <2>2, LenProperties
    <3> QED
      BY <1>7, <3>1
  <2>6. Lies(c, at[i - 1], b, at[i])
    BY <2>1, <2>2, <2>3, <2>5 DEF Lies
  <2>4. Entire(u[i - 1]) /\ Lies(c, p, u[i - 1], at[i - 1])
    BY <1>3, <1>4, <2>1 DEF Lies
  <2> QED
    BY <2>4, <2>6 DEF b
<1>11. ASSUME NEW i \in 1 .. k PROVE at[i] <= q
  <2> DEFINE G == { j \in Nat : j <= k => at[k - j] <= q }
  <2>1. \A j \in Nat : j \in G
    <3>1. 0 \in G
      <4>1. k - 0 = k /\ at[k] = q /\ q \in Nat
        BY <1>8, <1>9
      <4> QED
        BY <4>1
    <3>2. ASSUME NEW j \in Nat, j \in G PROVE j + 1 \in G
      <4> SUFFICES ASSUME j + 1 <= k PROVE at[k - (j + 1)] <= q
        OBVIOUS
      <4>1. k - j \in 1 .. k /\ (k - j) - 1 = k - (j + 1) /\ k - j \in 0 .. k
              /\ k - (j + 1) \in 0 .. k /\ j <= k
        OBVIOUS
      <4>2. at[k - j] <= q /\ at[k - j] \in Nat /\ at[k - (j + 1)] \in Nat /\ q \in Nat
        BY <1>8, <1>9, <3>2, <4>1
      <4>3. Lies(c, at[k - (j + 1)], parts[k - j], at[k - j]) /\ Len(parts[k - j]) \in Nat
        BY <1>4, <1>10, <4>1, LenProperties
      <4>4. at[k - j] = at[k - (j + 1)] + Len(parts[k - j])
        BY <4>3 DEF Lies
      <4> QED
        BY <4>2, <4>3, <4>4
    <3> HIDE DEF G
    <3> QED
      BY <3>1, <3>2, Induction
  <2>2. k - i \in Nat /\ k - i <= k /\ k - (k - i) = i
    OBVIOUS
  <2>3. k - i \in G
    BY <2>1, <2>2
  <2> QED
    BY <2>2, <2>3
<1> QED
  BY <1>8, <1>9, <1>10, <1>11 DEF LineUp

\* A counted step reads the number of its parts, and then each of them.
LEMMA CountedReaches ==
  ASSUME NEW c, Accepted(c), NEW n, NEW step \in DOMAIN Repeats, NEW k \in Nat, NEW parts,
         \A i \in 1 .. k : Entire(parts[i]), NEW p, NEW q, Lies(c, p, U32(k) \o Joined(parts, k), q),
         \A i \in 1 .. k : \A a, b \in Nat :
           Lies(c, a, parts[i], b) /\ b <= q /\ (\E u : Entire(u) /\ Lies(c, p, u, a))
             => Leads(c, n, Repeats[step], a, b)
  PROVE  Reaches(c, n, step, p, q)
<1>1. c \in Seq(CodeFields) /\ Entire(U32(k)) /\ Entire(Joined(parts, k))
  BY EntireFields, EntireJoined DEF Accepted, Entire
<1>2. PICK m \in Nat : Lies(c, p, U32(k), m) /\ Lies(c, m, Joined(parts, k), q)
  BY <1>1, SpansBoth
<1>3. Has(c, "u32", p) /\ c[p].val = k /\ p \in Nat \ {0} /\ m = p + 1
  BY <1>1, <1>2, SpansField DEF U32
<1>4. PICK at \in [0 .. k -> Nat] :
           /\ at[0] = m /\ at[k] = q
           /\ \A i \in 1 .. k : /\ Lies(c, at[i - 1], parts[i], at[i]) /\ at[i] <= q
                                /\ \E u : Entire(u) /\ Lies(c, m, u, at[i - 1])
  <2>1. LineUp(c, m, parts, k, q)
    BY <1>1, <1>2, PartsLie
  <2> QED
    BY <2>1 DEF LineUp
<1>5. ASSUME NEW i \in 1 .. k PROVE Leads(c, n, Repeats[step], at[i - 1], at[i])
  <2>1. PICK u : Entire(u) /\ Lies(c, m, u, at[i - 1])
    BY <1>4
  <2>2. Entire(U32(k) \o u)
    BY <1>1, <2>1, EntireConcat
  <2>3. Lies(c, p, U32(k) \o u, at[i - 1])
    BY <1>1, <1>2, <2>1, LiesBoth DEF Entire
  <2>4. i - 1 \in 0 .. k /\ at[i - 1] \in Nat /\ at[i] \in Nat
    OBVIOUS
  <2> QED
    BY <1>4, <2>2, <2>3, <2>4
<1>6. Leads(c, n, Times(k, Repeats[step]), m, q)
  <2>1. Repeats[step] \in Seq(Uncounted) /\ Len(Repeats[step]) \in 1 .. 3
    <3>1. Len(Repeats[step]) \in 1 .. 3
      BY CountsNames DEF Repeats, SkipComparison
    <3> QED
      BY <3>1, RepeatsUncounted
  <2> QED
    BY <1>4, <1>5, <2>1, TimesLeads
<1>7. Times(k, Repeats[step]) \in Seq(Uncounted)
  BY RepeatsUncounted, TimesType
<1>8. Crosses(c, n, Counted(c, step, p), p + 1, q)
  BY <1>3, <1>6, <1>7, LeadsCrosses DEF Counted
<1> QED
  BY <1>3, <1>8 DEF Reaches

-----------------------------------------------------------------------------
(* The lists that the compiler writes. *)

\* What is repeated in them.
LEMMA RepeatedSteps ==
  /\ Repeats["stmts"] = <<"stmt">> /\ Repeats["targets"] = <<"target">> /\ Repeats["args"] = <<"expr">>
  /\ Repeats["elements"] = <<"expr", "append">> /\ Repeats["entries"] = <<"name", "expr", "insert">>
  /\ Repeats["comparisons"] = <<"op", "expr", "compare">> /\ Repeats["conditions"] = <<"expr", "decide">>
  /\ Repeats["skips"] = <<"skip">> /\ Repeats["skippedEntries"] = <<"skip", "skip">>
  /\ Repeats["skippedComparisons"] = <<"dropOp", "skip">>
  /\ { "stmts", "targets", "args", "elements", "entries", "comparisons", "conditions", "skips",
       "skippedEntries", "skippedComparisons" } \subseteq DOMAIN Repeats
BY CountsNames DEF Repeats, SkipComparison

\* The elements of a list.
LEMMA ElementsLie ==
  ASSUME NEW c, Accepted(c), NEW n, NEW trees \in Seq(Trees), NEW p, NEW q,
         Lies(c, p, EncodeList(Encode, trees), q), NEW step \in DOMAIN Repeats,
         \A m \in Range(trees) : \A a, b \in Nat :
           Lies(c, a, Encode[m], b) /\ b <= q /\ (\E u : Entire(u) /\ Lies(c, p, u, a))
             => Leads(c, n, Repeats[step], a, b)
  PROVE  Reaches(c, n, step, p, q)
<1> DEFINE parts == [i \in DOMAIN trees |-> Encode[trees[i]]]
           k == Len(trees)
<1>1. k \in Nat /\ DOMAIN trees = 1 .. k
  BY LenProperties
<1>2. \A i \in 1 .. k : parts[i] = Encode[trees[i]] /\ trees[i] \in Range(trees) /\ trees[i] \in Trees
  <2>1. \A i \in 1 .. k : trees[i] \in Trees
    BY ElementOfSeq
  <2> QED
    BY <1>1, <2>1 DEF Range
<1>3. EncodeList(Encode, trees) = U32(k) \o Joined(parts, k)
  BY DEF EncodeList, EncodeAll
<1> HIDE DEF parts, k
<1>4. \A i \in 1 .. k : Entire(parts[i])
  BY <1>2, EntireEncode
<1>5. \A i \in 1 .. k : \A a, b \in Nat :
        Lies(c, a, parts[i], b) /\ b <= q /\ (\E u : Entire(u) /\ Lies(c, p, u, a))
          => Leads(c, n, Repeats[step], a, b)
  BY <1>2
<1>6. Lies(c, p, U32(k) \o Joined(parts, k), q)
  BY <1>3
<1> QED
  BY <1>1, <1>4, <1>5, <1>6, CountedReaches

\* Lists of trees, and of expressions.
LEMMA ListReaches ==
  ASSUME NEW c, Accepted(c), NEW n, NEW trees \in Seq(Trees), NEW p, NEW q,
         Lies(c, p, EncodeList(Encode, trees), q)
  PROVE  /\ Reaches(c, n, "skips", p, q) /\ Reaches(c, n, "targets", p, q)
         /\ (\A m \in Range(trees) : m.type \notin StatementTrees) =>
              /\ Reaches(c, n, "args", p, q) /\ Reaches(c, n, "elements", p, q)
              /\ Reaches(c, n, "conditions", p, q)
<1>1. \A m \in Range(trees) : m \in Trees
  <2>1. DOMAIN trees = 1 .. Len(trees) /\ \A i \in 1 .. Len(trees) : trees[i] \in Trees
    BY ElementOfSeq, LenProperties
  <2> QED
    BY <2>1 DEF Range
<1>2. ASSUME NEW m \in Range(trees), NEW a \in Nat, NEW b \in Nat, Lies(c, a, Encode[m], b)
      PROVE  /\ Leads(c, n, <<"skip">>, a, b) /\ Leads(c, n, <<"target">>, a, b)
             /\ m.type \notin StatementTrees =>
                  /\ Leads(c, n, <<"expr">>, a, b) /\ Leads(c, n, <<"expr", "append">>, a, b)
                  /\ Leads(c, n, <<"expr", "decide">>, a, b)
  <2>1. /\ Reaches(c, n, "skip", a, b) /\ Reaches(c, n, "target", a, b)
        /\ m.type \notin StatementTrees => Reaches(c, n, "expr", a, b)
    BY <1>1, <1>2, TreeReaches
  <2>2. Reaches(c, n, "append", b, b) /\ Reaches(c, n, "decide", b, b)
    BY FreeReaches DEF FreeSteps
  <2>3. Leads(c, n, <<"skip">>, a, b) /\ Leads(c, n, <<"target">>, a, b)
    BY <2>1, LeadsOnce
  <2>4. ASSUME m.type \notin StatementTrees
        PROVE  /\ Leads(c, n, <<"expr">>, a, b) /\ Leads(c, n, <<"expr", "append">>, a, b)
               /\ Leads(c, n, <<"expr", "decide">>, a, b)
    BY <2>1, <2>2, <2>4, LeadsOnce, LeadsTwice
  <2> QED
    BY <2>3, <2>4
<1>3. Reaches(c, n, "skips", p, q)
  <2>1. "skips" \in DOMAIN Repeats /\ \A m \in Range(trees) : \A a, b \in Nat :
          Lies(c, a, Encode[m], b) => Leads(c, n, Repeats["skips"], a, b)
    BY <1>2, RepeatedSteps
  <2> QED
    BY <2>1, ElementsLie
<1>4. Reaches(c, n, "targets", p, q)
  <2>1. "targets" \in DOMAIN Repeats /\ \A m \in Range(trees) : \A a, b \in Nat :
          Lies(c, a, Encode[m], b) => Leads(c, n, Repeats["targets"], a, b)
    BY <1>2, RepeatedSteps
  <2> QED
    BY <2>1, ElementsLie
<1>5. ASSUME \A m \in Range(trees) : m.type \notin StatementTrees,
             NEW step \in {"args", "elements", "conditions"}
      PROVE  Reaches(c, n, step, p, q)
  <2>1. step \in DOMAIN Repeats /\ \A m \in Range(trees) : \A a, b \in Nat :
          Lies(c, a, Encode[m], b) => Leads(c, n, Repeats[step], a, b)
    BY <1>2, <1>5, RepeatedSteps
  <2> QED
    BY <2>1, ElementsLie
<1> QED
  BY <1>3, <1>4, <1>5

\* The statements of a suite: they are in the loop that the suite is in.
LEMMA StatementsReach ==
  ASSUME NEW c, Accepted(c), NEW n \in Nat, NodeAt(c, "StatementList", n), NEW trees \in Seq(Trees),
         Lies(c, n + 1, EncodeList(Encode, trees), NodeEnd(c, n))
  PROVE  Reaches(c, n, "stmts", n + 1, NodeEnd(c, n))
<1>1. \A m \in Range(trees) : m \in Trees
  <2>1. DOMAIN trees = 1 .. Len(trees) /\ \A i \in 1 .. Len(trees) : trees[i] \in Trees
    BY ElementOfSeq, LenProperties
  <2> QED
    BY <2>1 DEF Range
<1>2. c \in Seq(CodeFields) /\ Has(c, "node", n) /\ ~ NodeAt(c, "ForLoop", n) /\ IsCode(c)
  BY AcceptedIsCode DEF NodeAt
<1>3. ASSUME NEW m \in Range(trees), NEW a \in Nat, NEW b \in Nat, Lies(c, a, Encode[m], b),
             b <= NodeEnd(c, n), \E u : Entire(u) /\ Lies(c, n + 1, u, a)
      PROVE  Leads(c, n, <<"stmt">>, a, b)
  <2>1. Has(c, "node", a) /\ NodeEnd(c, a) = b /\ a < b
    BY <1>1, <1>3, SpansTree
  <2>2. a < NodeEnd(c, n)
    BY <1>2, <1>3, <2>1, NodeEndType
  <2>3. InWhile(c, n) => InWhile(c, a)
    BY <1>2, <1>3, <2>2, StaysInWhile
  <2>4. Reaches(c, n, "stmt", a, b)
    BY <1>1, <1>3, <2>3, TreeReaches
  <2> QED
    BY <2>4, LeadsOnce
<1>4. "stmts" \in DOMAIN Repeats /\ \A m \in Range(trees) : \A a, b \in Nat :
        Lies(c, a, Encode[m], b) /\ b <= NodeEnd(c, n) /\ (\E u : Entire(u) /\ Lies(c, n + 1, u, a))
          => Leads(c, n, Repeats["stmts"], a, b)
  BY <1>3, RepeatedSteps
<1> QED
  BY <1>4, ElementsLie

\* The entries of a dictionary.
LEMMA EntriesReach ==
  ASSUME NEW c, Accepted(c), NEW n, NEW keys \in Seq(Trees), NEW values \in Seq(Trees),
         Len(values) = Len(keys), \A m \in Range(values) : m.type \notin StatementTrees, NEW p, NEW q,
         Lies(c, p, U32(Len(keys)) \o EncodeBoth(Encode, keys, values), q)
  PROVE  Reaches(c, n, "entries", p, q) /\ Reaches(c, n, "skippedEntries", p, q)
<1> DEFINE parts == [i \in DOMAIN keys |-> Encode[keys[i]] \o Encode[values[i]]]
           k == Len(keys)
<1>1. k \in Nat /\ DOMAIN keys = 1 .. k /\ DOMAIN values = 1 .. k
  BY LenProperties
<1>2. \A i \in 1 .. k : /\ parts[i] = Encode[keys[i]] \o Encode[values[i]]
                        /\ keys[i] \in Trees /\ values[i] \in Trees /\ values[i] \in Range(values)
  <2>1. \A i \in 1 .. k : keys[i] \in Trees /\ values[i] \in Trees
    BY ElementOfSeq
  <2>2. \A i \in 1 .. k : parts[i] = Encode[keys[i]] \o Encode[values[i]]
    BY <1>1
  <2>3. \A i \in 1 .. k : values[i] \in Range(values)
    BY <1>1 DEF Range
  <2> QED
    BY <2>1, <2>2, <2>3
<1>3. Lies(c, p, U32(k) \o Joined(parts, k), q)
  BY DEF EncodeBoth
<1> HIDE DEF parts, k
<1>4. \A i \in 1 .. k : Entire(Encode[keys[i]]) /\ Entire(Encode[values[i]])
  BY <1>2, EntireEncode
<1>5. ASSUME NEW i \in 1 .. k PROVE Entire(parts[i])
  <2>1. Entire(Encode[keys[i]] \o Encode[values[i]])
    BY <1>4, EntireConcat
  <2> QED
    BY <1>2, <2>1
<1>6. c \in Seq(CodeFields)
  BY DEF Accepted, Entire
<1>7. ASSUME NEW i \in 1 .. k, NEW a \in Nat, NEW b \in Nat, Lies(c, a, parts[i], b)
      PROVE  /\ Leads(c, n, <<"name", "expr", "insert">>, a, b)
             /\ Leads(c, n, <<"skip", "skip">>, a, b)
  <2>1. PICK m \in Nat : Lies(c, a, Encode[keys[i]], m) /\ Lies(c, m, Encode[values[i]], b)
    BY <1>2, <1>4, <1>6, <1>7, SpansBoth
  <2>2. Reaches(c, n, "name", a, m) /\ Reaches(c, n, "skip", a, m)
    BY <1>2, <2>1, TreeReaches
  <2>3. Reaches(c, n, "expr", m, b) /\ Reaches(c, n, "skip", m, b)
    BY <1>2, <2>1, TreeReaches
  <2>4. Reaches(c, n, "insert", b, b)
    BY FreeReaches DEF FreeSteps
  <2> QED
    BY <2>2, <2>3, <2>4, LeadsTwice, LeadsThrice
<1>8. "entries" \in DOMAIN Repeats /\ \A i \in 1 .. k : \A a, b \in Nat :
        Lies(c, a, parts[i], b) => Leads(c, n, Repeats["entries"], a, b)
  BY <1>7, RepeatedSteps
<1>9. "skippedEntries" \in DOMAIN Repeats /\ \A i \in 1 .. k : \A a, b \in Nat :
        Lies(c, a, parts[i], b) => Leads(c, n, Repeats["skippedEntries"], a, b)
  BY <1>7, RepeatedSteps
<1>10. Reaches(c, n, "entries", p, q)
  BY <1>1, <1>3, <1>5, <1>8, CountedReaches
<1>11. Reaches(c, n, "skippedEntries", p, q)
  BY <1>1, <1>3, <1>5, <1>9, CountedReaches
<1> QED
  BY <1>10, <1>11

\* A chain of comparisons.
LEMMA ComparisonsReach ==
  ASSUME NEW c, Accepted(c), NEW n, NEW ops \in Seq(STRING), NEW trees \in Seq(Trees),
         Len(ops) = Len(trees), \A m \in Range(trees) : m.type \notin StatementTrees, NEW p, NEW q,
         Lies(c, p, U32(Len(trees)) \o EncodeChain(Encode, ops, trees), q)
  PROVE  Reaches(c, n, "comparisons", p, q) /\ Reaches(c, n, "skippedComparisons", p, q)
<1> DEFINE parts == [i \in DOMAIN trees |-> Oper(ops[i]) \o Encode[trees[i]]]
           k == Len(trees)
<1>1. k \in Nat /\ DOMAIN trees = 1 .. k
  BY LenProperties
<1>2. \A i \in 1 .. k : /\ parts[i] = Oper(ops[i]) \o Encode[trees[i]]
                        /\ ops[i] \in STRING /\ trees[i] \in Trees /\ trees[i] \in Range(trees)
  <2>1. \A i \in 1 .. k : ops[i] \in STRING /\ trees[i] \in Trees
    BY ElementOfSeq
  <2>2. \A i \in 1 .. k : parts[i] = Oper(ops[i]) \o Encode[trees[i]]
    BY <1>1
  <2>3. \A i \in 1 .. k : trees[i] \in Range(trees)
    BY <1>1 DEF Range
  <2> QED
    BY <2>1, <2>2, <2>3
<1>3. Lies(c, p, U32(k) \o Joined(parts, k), q)
  BY DEF EncodeChain
<1> HIDE DEF parts, k
<1>4. \A i \in 1 .. k : Entire(Oper(ops[i])) /\ Entire(Encode[trees[i]])
  BY <1>2, EntireEncode, EntireFields
<1>5. ASSUME NEW i \in 1 .. k PROVE Entire(parts[i])
  <2>1. Entire(Oper(ops[i]) \o Encode[trees[i]])
    BY <1>4, EntireConcat
  <2> QED
    BY <1>2, <2>1
<1>6. c \in Seq(CodeFields)
  BY DEF Accepted, Entire
<1>7. ASSUME NEW i \in 1 .. k, NEW a \in Nat, NEW b \in Nat, Lies(c, a, parts[i], b)
      PROVE  /\ Leads(c, n, <<"op", "expr", "compare">>, a, b)
             /\ Leads(c, n, <<"dropOp", "skip">>, a, b)
  <2>1. PICK m \in Nat : Lies(c, a, Oper(ops[i]), m) /\ Lies(c, m, Encode[trees[i]], b)
    BY <1>2, <1>4, <1>6, <1>7, SpansBoth
  <2>2. Has(c, "op", a) /\ m = a + 1
    BY <1>6, <2>1, SpansField DEF Oper
  <2>3. Reaches(c, n, "op", a, m) /\ Reaches(c, n, "dropOp", a, m)
    BY <2>2, FieldReaches
  <2>4. Reaches(c, n, "expr", m, b) /\ Reaches(c, n, "skip", m, b)
    BY <1>2, <2>1, TreeReaches
  <2>5. Reaches(c, n, "compare", b, b)
    BY FreeReaches DEF FreeSteps
  <2> QED
    BY <2>3, <2>4, <2>5, LeadsTwice, LeadsThrice
<1>8. "comparisons" \in DOMAIN Repeats /\ \A i \in 1 .. k : \A a, b \in Nat :
        Lies(c, a, parts[i], b) => Leads(c, n, Repeats["comparisons"], a, b)
  BY <1>7, RepeatedSteps
<1>9. "skippedComparisons" \in DOMAIN Repeats /\ \A i \in 1 .. k : \A a, b \in Nat :
        Lies(c, a, parts[i], b) => Leads(c, n, Repeats["skippedComparisons"], a, b)
  BY <1>7, RepeatedSteps
<1>10. Reaches(c, n, "comparisons", p, q)
  BY <1>1, <1>3, <1>5, <1>8, CountedReaches
<1>11. Reaches(c, n, "skippedComparisons", p, q)
  BY <1>1, <1>3, <1>5, <1>9, CountedReaches
<1> QED
  BY <1>10, <1>11

-----------------------------------------------------------------------------
(* What parse_next writes is laid out. *)

\* A node's handler, and skip_next, end where the node ends.
Leading(c, p) ==
  /\ c[p].val \in DOMAIN Handler => Leads(c, p, Handler[c[p].val], p + 1, NodeEnd(c, p))
  /\ c[p].val \in DOMAIN Skipper => Leads(c, p, Skipper[c[p].val], p + 1, NodeEnd(c, p))

\* The trees of a sequence.
LEMMA RangeTrees ==
  ASSUME NEW trees \in Seq(Trees)
  PROVE  \A m \in Range(trees) : m \in Trees
<1>1. DOMAIN trees = 1 .. Len(trees) /\ \A i \in 1 .. Len(trees) : trees[i] \in Trees
  BY ElementOfSeq, LenProperties
<1> QED
  BY <1>1 DEF Range

\* ImportFrom.
LEMMA LaidImportFrom ==
  ASSUME NEW c, Accepted(c), NEW n \in Trees, n.type = "ImportFrom",
         NEW p, Placed(c, p, Encode[n])
  PROVE  Leading(c, p)
<1> DEFINE q == p + Len(Encode[n])
<1>1. /\ n.module \in Trees /\ n.module.type \notin StatementTrees
      /\ n.names \in Trees /\ n.names.type \notin StatementTrees
  <2>1. IsTree(n)
    BY TreesAreTrees
  <2> QED
    BY <2>1, PartsOfTree DEF IsTree
<1>2. /\ Entire(Encode[n.module])
      /\ Entire(Encode[n.names])
  <2>1. Entire(Encode[n.module])
    BY <1>1, EntireEncode
  <2>2. Entire(Encode[n.names])
    BY <1>1, EntireEncode
  <2> QED
    BY <2>1, <2>2
<1>3. Encode[n] = Node("ImportFrom", Encode[n.module] \o Encode[n.names])
  BY EncodeEquation, ParseNextCases
<1>4. Entire(Encode[n.module] \o Encode[n.names])
  BY <1>2, EntireConcat
<1>5. c \in Seq(CodeFields) /\ "ImportFrom" \in NodeTypes /\ Lies(c, p, Encode[n], q)
  BY DEF Accepted, Entire, NodeTypes, Lies
<1> HIDE DEF q
<1>6. /\ NodeAt(c, "ImportFrom", p) /\ p \in Nat \ {0} /\ q \in Nat /\ NodeEnd(c, p) = q
      /\ Lies(c, p + 1, Encode[n.module] \o Encode[n.names], q)
  BY <1>3, <1>4, <1>5, SpansNode
<1>7. PICK a \in Nat : Lies(c, p + 1, Encode[n.module], a) /\ Lies(c, a, Encode[n.names], q)
  BY <1>2, <1>5, <1>6, SpansBoth
<1>10. Leads(c, p, <<"name", "expr", "load", "member", "bind">>, p + 1, q)
  <2>1. Reaches(c, p, "name", p + 1, a)
    BY <1>1, <1>7, TreeReaches
  <2>2. Reaches(c, p, "expr", a, q)
    BY <1>1, <1>7, TreeReaches
  <2>3. Reaches(c, p, "load", q, q)
    BY FreeReaches DEF FreeSteps
  <2>4. Reaches(c, p, "member", q, q)
    BY FreeReaches DEF FreeSteps
  <2>5. Reaches(c, p, "bind", q, q)
    BY FreeReaches DEF FreeSteps
  <2> QED
    BY <1>6, <1>7, <2>1, <2>2, <2>3, <2>4, <2>5, LeadsFive
<1>12. Handler["ImportFrom"] = <<"name", "expr", "load", "member", "bind">>
  BY DEF Handler
<1>13. "ImportFrom" \notin DOMAIN Skipper
  BY DEF Skipper
<1> QED
  BY <1>6, <1>10, <1>12, <1>13 DEF Leading, NodeAt

\* Import.
LEMMA LaidImport ==
  ASSUME NEW c, Accepted(c), NEW n \in Trees, n.type = "Import",
         NEW p, Placed(c, p, Encode[n])
  PROVE  Leading(c, p)
<1> DEFINE q == p + Len(Encode[n])
<1>1. /\ n.names \in Trees /\ n.names.type \notin StatementTrees
  <2>1. IsTree(n)
    BY TreesAreTrees
  <2> QED
    BY <2>1, PartsOfTree DEF IsTree
<1>2. /\ Entire(Encode[n.names])
  <2>1. Entire(Encode[n.names])
    BY <1>1, EntireEncode
  <2> QED
    BY <2>1
<1>3. Encode[n] = Node("Import", Encode[n.names])
  BY EncodeEquation, ParseNextCases
<1>4. Entire(Encode[n.names])
  BY <1>2
<1>5. c \in Seq(CodeFields) /\ "Import" \in NodeTypes /\ Lies(c, p, Encode[n], q)
  BY DEF Accepted, Entire, NodeTypes, Lies
<1> HIDE DEF q
<1>6. /\ NodeAt(c, "Import", p) /\ p \in Nat \ {0} /\ q \in Nat /\ NodeEnd(c, p) = q
      /\ Lies(c, p + 1, Encode[n.names], q)
  BY <1>3, <1>4, <1>5, SpansNode
<1>7. p + 1 \in Nat
  BY <1>6
<1>10. Leads(c, p, <<"expr", "load", "bind">>, p + 1, q)
  <2>1. Reaches(c, p, "expr", p + 1, q)
    BY <1>1, <1>6, TreeReaches
  <2>2. Reaches(c, p, "load", q, q)
    BY FreeReaches DEF FreeSteps
  <2>3. Reaches(c, p, "bind", q, q)
    BY FreeReaches DEF FreeSteps
  <2> QED
    BY <1>6, <1>7, <2>1, <2>2, <2>3, LeadsThrice
<1>12. Handler["Import"] = <<"expr", "load", "bind">>
  BY DEF Handler
<1>13. "Import" \notin DOMAIN Skipper
  BY DEF Skipper
<1> QED
  BY <1>6, <1>10, <1>12, <1>13 DEF Leading, NodeAt

\* Alias.
LEMMA LaidAlias ==
  ASSUME NEW c, Accepted(c), NEW n \in Trees, n.type = "Alias",
         NEW p, Placed(c, p, Encode[n])
  PROVE  Leading(c, p)
<1> DEFINE q == p + Len(Encode[n])
<1>1. /\ n.name \in STRING
      /\ n.as_name \in STRING
  <2>1. IsTree(n)
    BY TreesAreTrees
  <2> QED
    BY <2>1, PartsOfTree DEF IsTree
<1>2. /\ Entire(Chars(n.name))
      /\ Entire(Chars(n.as_name))
  <2>1. Entire(Chars(n.name))
    BY <1>1, EntireFields
  <2>2. Entire(Chars(n.as_name))
    BY <1>1, EntireFields
  <2> QED
    BY <2>1, <2>2
<1>3. Encode[n] = Node("Alias", Chars(n.name) \o Chars(n.as_name))
  BY EncodeEquation, ParseNextCases
<1>4. Entire(Chars(n.name) \o Chars(n.as_name))
  BY <1>2, EntireConcat
<1>5. c \in Seq(CodeFields) /\ "Alias" \in NodeTypes /\ Lies(c, p, Encode[n], q)
  BY DEF Accepted, Entire, NodeTypes, Lies
<1> HIDE DEF q
<1>6. /\ NodeAt(c, "Alias", p) /\ p \in Nat \ {0} /\ q \in Nat /\ NodeEnd(c, p) = q
      /\ Lies(c, p + 1, Chars(n.name) \o Chars(n.as_name), q)
  BY <1>3, <1>4, <1>5, SpansNode
<1>7. PICK a \in Nat : Lies(c, p + 1, Chars(n.name), a) /\ Lies(c, a, Chars(n.as_name), q)
  BY <1>2, <1>5, <1>6, SpansBoth
<1>10. Leads(c, p, <<"alias">>, p + 1, q)
  <2>1. Reaches(c, p, "alias", p + 1, q)
    <3>1. Has(c, "str", p + 1) /\ a = (p + 1) + 1
      BY <1>5, <1>7, SpansField DEF Chars
    <3>2. Has(c, "str", a) /\ q = a + 1
      BY <1>5, <1>7, SpansField DEF Chars
    <3>3. q = (p + 1) + 2
      BY <1>6, <3>1, <3>2
    <3> QED
      BY <3>1, <3>2, <3>3, FieldReaches
  <2> QED
    BY <1>6, <1>7, <2>1, LeadsOnce
<1>12. Handler["Alias"] = <<"alias">>
  BY DEF Handler
<1>13. "Alias" \notin DOMAIN Skipper
  BY DEF Skipper
<1> QED
  BY <1>6, <1>10, <1>12, <1>13 DEF Leading, NodeAt

\* Name.
LEMMA LaidName ==
  ASSUME NEW c, Accepted(c), NEW n \in Trees, n.type = "Name",
         NEW p, Placed(c, p, Encode[n])
  PROVE  Leading(c, p)
<1> DEFINE q == p + Len(Encode[n])
<1>1. /\ n.id \in STRING
  <2>1. IsTree(n)
    BY TreesAreTrees
  <2> QED
    BY <2>1, PartsOfTree DEF IsTree
<1>2. /\ Entire(Chars(n.id))
  <2>1. Entire(Chars(n.id))
    BY <1>1, EntireFields
  <2> QED
    BY <2>1
<1>3. Encode[n] = Node("Name", Chars(n.id))
  BY EncodeEquation, ParseNextCases
<1>4. Entire(Chars(n.id))
  BY <1>2
<1>5. c \in Seq(CodeFields) /\ "Name" \in NodeTypes /\ Lies(c, p, Encode[n], q)
  BY DEF Accepted, Entire, NodeTypes, Lies
<1> HIDE DEF q
<1>6. /\ NodeAt(c, "Name", p) /\ p \in Nat \ {0} /\ q \in Nat /\ NodeEnd(c, p) = q
      /\ Lies(c, p + 1, Chars(n.id), q)
  BY <1>3, <1>4, <1>5, SpansNode
<1>7. p + 1 \in Nat
  BY <1>6
<1>10. Leads(c, p, <<"lookup">>, p + 1, q)
  <2>1. Reaches(c, p, "lookup", p + 1, q)
    <3>1. Has(c, "str", p + 1) /\ q = (p + 1) + 1
      BY <1>5, <1>6, SpansField DEF Chars
    <3> QED
      BY <3>1, FieldReaches
  <2> QED
    BY <1>6, <1>7, <2>1, LeadsOnce
<1>12. Handler["Name"] = <<"lookup">>
  BY DEF Handler
<1>11. Leads(c, p, <<"dropString">>, p + 1, q)
  <2>1. Reaches(c, p, "dropString", p + 1, q)
    <3>1. Has(c, "str", p + 1) /\ q = (p + 1) + 1
      BY <1>5, <1>6, SpansField DEF Chars
    <3> QED
      BY <3>1, FieldReaches
  <2> QED
    BY <1>6, <1>7, <2>1, LeadsOnce
<1>13. Skipper["Name"] = <<"dropString">>
  BY DEF Skipper
<1> QED
  BY <1>6, <1>10, <1>12, <1>11, <1>13 DEF Leading, NodeAt

\* Assign.
LEMMA LaidAssign ==
  ASSUME NEW c, Accepted(c), NEW n \in Trees, n.type = "Assign",
         NEW p, Placed(c, p, Encode[n])
  PROVE  Leading(c, p)
<1> DEFINE q == p + Len(Encode[n])
<1>1. /\ n.value \in Trees /\ n.value.type \notin StatementTrees
      /\ n.targets \in Seq(Trees)
  <2>1. IsTree(n)
    BY TreesAreTrees
  <2> QED
    BY <2>1, PartsOfTree DEF IsTree
<1>2. /\ Entire(Encode[n.value])
      /\ Entire(EncodeList(Encode, n.targets))
  <2>1. Entire(Encode[n.value])
    BY <1>1, EntireEncode
  <2>2. Entire(EncodeList(Encode, n.targets))
    <3>1. \A m \in Range(n.targets) : Entire(Encode[m])
      BY <1>1, RangeTrees, EntireEncode
    <3> QED
      BY <1>1, <3>1, EntireLists
  <2> QED
    BY <2>1, <2>2
<1>3. Encode[n] = Node("Assign", Encode[n.value] \o EncodeList(Encode, n.targets))
  BY EncodeEquation, ParseNextCases
<1>4. Entire(Encode[n.value] \o EncodeList(Encode, n.targets))
  BY <1>2, EntireConcat
<1>5. c \in Seq(CodeFields) /\ "Assign" \in NodeTypes /\ Lies(c, p, Encode[n], q)
  BY DEF Accepted, Entire, NodeTypes, Lies
<1> HIDE DEF q
<1>6. /\ NodeAt(c, "Assign", p) /\ p \in Nat \ {0} /\ q \in Nat /\ NodeEnd(c, p) = q
      /\ Lies(c, p + 1, Encode[n.value] \o EncodeList(Encode, n.targets), q)
  BY <1>3, <1>4, <1>5, SpansNode
<1>7. PICK a \in Nat : Lies(c, p + 1, Encode[n.value], a) /\ Lies(c, a, EncodeList(Encode, n.targets), q)
  BY <1>2, <1>5, <1>6, SpansBoth
<1>10. Leads(c, p, <<"expr", "targets">>, p + 1, q)
  <2>1. Reaches(c, p, "expr", p + 1, a)
    BY <1>1, <1>7, TreeReaches
  <2>2. Reaches(c, p, "targets", a, q)
    BY <1>1, <1>7, ListReaches
  <2> QED
    BY <1>6, <1>7, <2>1, <2>2, LeadsTwice
<1>12. Handler["Assign"] = <<"expr", "targets">>
  BY DEF Handler
<1>11. Leads(c, p, <<"skip", "skips">>, p + 1, q)
  <2>1. Reaches(c, p, "skip", p + 1, a)
    BY <1>1, <1>7, TreeReaches
  <2>2. Reaches(c, p, "skips", a, q)
    BY <1>1, <1>7, ListReaches
  <2> QED
    BY <1>6, <1>7, <2>1, <2>2, LeadsTwice
<1>13. Skipper["Assign"] = <<"skip", "skips">>
  BY DEF Skipper
<1> QED
  BY <1>6, <1>10, <1>12, <1>11, <1>13 DEF Leading, NodeAt

\* StatementList.
LEMMA LaidStatementList ==
  ASSUME NEW c, Accepted(c), NEW n \in Trees, n.type = "Suite",
         NEW p, Placed(c, p, Encode[n])
  PROVE  Leading(c, p)
<1> DEFINE q == p + Len(Encode[n])
<1>1. /\ n.items \in Seq(Trees)
  <2>1. IsTree(n)
    BY TreesAreTrees
  <2> QED
    BY <2>1, PartsOfTree DEF IsTree
<1>2. /\ Entire(EncodeList(Encode, n.items))
  <2>1. Entire(EncodeList(Encode, n.items))
    <3>1. \A m \in Range(n.items) : Entire(Encode[m])
      BY <1>1, RangeTrees, EntireEncode
    <3> QED
      BY <1>1, <3>1, EntireLists
  <2> QED
    BY <2>1
<1>3. Encode[n] = Node("StatementList", EncodeList(Encode, n.items))
  BY EncodeEquation, ParseNextCases
<1>4. Entire(EncodeList(Encode, n.items))
  BY <1>2
<1>5. c \in Seq(CodeFields) /\ "StatementList" \in NodeTypes /\ Lies(c, p, Encode[n], q)
  BY DEF Accepted, Entire, NodeTypes, Lies
<1> HIDE DEF q
<1>6. /\ NodeAt(c, "StatementList", p) /\ p \in Nat \ {0} /\ q \in Nat /\ NodeEnd(c, p) = q
      /\ Lies(c, p + 1, EncodeList(Encode, n.items), q)
  BY <1>3, <1>4, <1>5, SpansNode
<1>7. p + 1 \in Nat
  BY <1>6
<1>10. Leads(c, p, <<"stmts">>, p + 1, q)
  <2>1. Reaches(c, p, "stmts", p + 1, q)
    BY <1>1, <1>6, StatementsReach
  <2> QED
    BY <1>6, <1>7, <2>1, LeadsOnce
<1>12. Handler["StatementList"] = <<"stmts">>
  BY DEF Handler
<1>11. Leads(c, p, <<"skips">>, p + 1, q)
  <2>1. Reaches(c, p, "skips", p + 1, q)
    BY <1>1, <1>6, ListReaches
  <2> QED
    BY <1>6, <1>7, <2>1, LeadsOnce
<1>13. Skipper["StatementList"] = <<"skips">>
  BY DEF Skipper
<1> QED
  BY <1>6, <1>10, <1>12, <1>11, <1>13 DEF Leading, NodeAt

\* String.
LEMMA LaidString ==
  ASSUME NEW c, Accepted(c), NEW n \in Trees, n.type = "Str",
         NEW p, Placed(c, p, Encode[n])
  PROVE  Leading(c, p)
<1> DEFINE q == p + Len(Encode[n])
<1>1. /\ n.value \in STRING
  <2>1. IsTree(n)
    BY TreesAreTrees
  <2> QED
    BY <2>1, PartsOfTree DEF IsTree
<1>2. /\ Entire(Chars(n.value))
  <2>1. Entire(Chars(n.value))
    BY <1>1, EntireFields
  <2> QED
    BY <2>1
<1>3. Encode[n] = Node("String", Chars(n.value))
  BY EncodeEquation, ParseNextCases
<1>4. Entire(Chars(n.value))
  BY <1>2
<1>5. c \in Seq(CodeFields) /\ "String" \in NodeTypes /\ Lies(c, p, Encode[n], q)
  BY DEF Accepted, Entire, NodeTypes, Lies
<1> HIDE DEF q
<1>6. /\ NodeAt(c, "String", p) /\ p \in Nat \ {0} /\ q \in Nat /\ NodeEnd(c, p) = q
      /\ Lies(c, p + 1, Chars(n.value), q)
  BY <1>3, <1>4, <1>5, SpansNode
<1>7. p + 1 \in Nat
  BY <1>6
<1>10. Leads(c, p, <<"string">>, p + 1, q)
  <2>1. Reaches(c, p, "string", p + 1, q)
    <3>1. Has(c, "str", p + 1) /\ q = (p + 1) + 1
      BY <1>5, <1>6, SpansField DEF Chars
    <3> QED
      BY <3>1, FieldReaches
  <2> QED
    BY <1>6, <1>7, <2>1, LeadsOnce
<1>12. Handler["String"] = <<"string">>
  BY DEF Handler
<1>11. Leads(c, p, <<"dropString">>, p + 1, q)
  <2>1. Reaches(c, p, "dropString", p + 1, q)
    <3>1. Has(c, "str", p + 1) /\ q = (p + 1) + 1
      BY <1>5, <1>6, SpansField DEF Chars
    <3> QED
      BY <3>1, FieldReaches
  <2> QED
    BY <1>6, <1>7, <2>1, LeadsOnce
<1>13. Skipper["String"] = <<"dropString">>
  BY DEF Skipper
<1> QED
  BY <1>6, <1>10, <1>12, <1>11, <1>13 DEF Leading, NodeAt

\* Return.
LEMMA LaidReturn ==
  ASSUME NEW c, Accepted(c), NEW n \in Trees, n.type = "Return",
         NEW p, Placed(c, p, Encode[n])
  PROVE  Leading(c, p)
<1> DEFINE q == p + Len(Encode[n])
<1>1. /\ n.value \in Trees /\ n.value.type \notin StatementTrees
  <2>1. IsTree(n)
    BY TreesAreTrees
  <2> QED
    BY <2>1, PartsOfTree DEF IsTree
<1>2. /\ Entire(Encode[n.value])
  <2>1. Entire(Encode[n.value])
    BY <1>1, EntireEncode
  <2> QED
    BY <2>1
<1>3. Encode[n] = Node("Return", Encode[n.value])
  BY EncodeEquation, ParseNextCases
<1>4. Entire(Encode[n.value])
  BY <1>2
<1>5. c \in Seq(CodeFields) /\ "Return" \in NodeTypes /\ Lies(c, p, Encode[n], q)
  BY DEF Accepted, Entire, NodeTypes, Lies
<1> HIDE DEF q
<1>6. /\ NodeAt(c, "Return", p) /\ p \in Nat \ {0} /\ q \in Nat /\ NodeEnd(c, p) = q
      /\ Lies(c, p + 1, Encode[n.value], q)
  BY <1>3, <1>4, <1>5, SpansNode
<1>7. p + 1 \in Nat
  BY <1>6
<1>10. Leads(c, p, <<"expr", "terminate">>, p + 1, q)
  <2>1. Reaches(c, p, "expr", p + 1, q)
    BY <1>1, <1>6, TreeReaches
  <2>2. Reaches(c, p, "terminate", q, q)
    BY FreeReaches DEF FreeSteps
  <2> QED
    BY <1>6, <1>7, <2>1, <2>2, LeadsTwice
<1>12. Handler["Return"] = <<"expr", "terminate">>
  BY DEF Handler
<1>11. Leads(c, p, <<"skip">>, p + 1, q)
  <2>1. Reaches(c, p, "skip", p + 1, q)
    BY <1>1, <1>6, TreeReaches
  <2> QED
    BY <1>6, <1>7, <2>1, LeadsOnce
<1>13. Skipper["Return"] = <<"skip">>
  BY DEF Skipper
<1> QED
  BY <1>6, <1>10, <1>12, <1>11, <1>13 DEF Leading, NodeAt

\* Dictionary.
LEMMA LaidDictionary ==
  ASSUME NEW c, Accepted(c), NEW n \in Trees, n.type = "Dict",
         NEW p, Placed(c, p, Encode[n])
  PROVE  Leading(c, p)
<1> DEFINE q == p + Len(Encode[n])
<1>1. /\ n.keys \in Seq(Trees) /\ n.values \in Seq(Trees) /\ Len(n.values) = Len(n.keys)
      /\ \A m \in Range(n.values) : m.type \notin StatementTrees
  <2>1. IsTree(n)
    BY TreesAreTrees
  <2> QED
    BY <2>1, PartsOfTree DEF IsTree
<1>2. /\ Entire(U32(Len(n.keys)) \o EncodeBoth(Encode, n.keys, n.values))
  <2>1. Entire(U32(Len(n.keys)) \o EncodeBoth(Encode, n.keys, n.values))
    <3>1. \A m \in Range(n.keys) \cup Range(n.values) : Entire(Encode[m])
      BY <1>1, RangeTrees, EntireEncode
    <3>2. Entire(EncodeBoth(Encode, n.keys, n.values)) /\ Entire(U32(Len(n.keys)))
      BY <1>1, <3>1, EntireBoth, EntireFields
    <3> QED
      BY <3>2, EntireConcat
  <2> QED
    BY <2>1
<1>3. Encode[n] = Node("Dictionary", U32(Len(n.keys)) \o EncodeBoth(Encode, n.keys, n.values))
  BY EncodeEquation, ParseNextCases
<1>4. Entire(U32(Len(n.keys)) \o EncodeBoth(Encode, n.keys, n.values))
  BY <1>2
<1>5. c \in Seq(CodeFields) /\ "Dictionary" \in NodeTypes /\ Lies(c, p, Encode[n], q)
  BY DEF Accepted, Entire, NodeTypes, Lies
<1> HIDE DEF q
<1>6. /\ NodeAt(c, "Dictionary", p) /\ p \in Nat \ {0} /\ q \in Nat /\ NodeEnd(c, p) = q
      /\ Lies(c, p + 1, U32(Len(n.keys)) \o EncodeBoth(Encode, n.keys, n.values), q)
  BY <1>3, <1>4, <1>5, SpansNode
<1>7. p + 1 \in Nat
  BY <1>6
<1>10. Leads(c, p, <<"dictionary", "entries">>, p + 1, q)
  <2>1. Reaches(c, p, "dictionary", p + 1, p + 1)
    BY FreeReaches DEF FreeSteps
  <2>2. Reaches(c, p, "entries", p + 1, q)
    BY <1>1, <1>6, EntriesReach
  <2> QED
    BY <1>6, <1>7, <2>1, <2>2, LeadsTwice
<1>12. Handler["Dictionary"] = <<"dictionary", "entries">>
  BY DEF Handler
<1>11. Leads(c, p, <<"skippedEntries">>, p + 1, q)
  <2>1. Reaches(c, p, "skippedEntries", p + 1, q)
    BY <1>1, <1>6, EntriesReach
  <2> QED
    BY <1>6, <1>7, <2>1, LeadsOnce
<1>13. Skipper["Dictionary"] = <<"skippedEntries">>
  BY DEF Skipper
<1> QED
  BY <1>6, <1>10, <1>12, <1>11, <1>13 DEF Leading, NodeAt

\* Compare.
LEMMA LaidCompare ==
  ASSUME NEW c, Accepted(c), NEW n \in Trees, n.type = "Compare",
         NEW p, Placed(c, p, Encode[n])
  PROVE  Leading(c, p)
<1> DEFINE q == p + Len(Encode[n])
<1>1. /\ n.left \in Trees /\ n.left.type \notin StatementTrees
      /\ n.operators \in Seq(STRING) /\ n.comparators \in Seq(Trees)
           /\ Len(n.operators) = Len(n.comparators)
      /\ \A m \in Range(n.comparators) : m.type \notin StatementTrees
  <2>1. IsTree(n)
    BY TreesAreTrees
  <2> QED
    BY <2>1, PartsOfTree DEF IsTree
<1>2. /\ Entire(Encode[n.left])
      /\ Entire(U32(Len(n.comparators)) \o EncodeChain(Encode, n.operators, n.comparators))
  <2>1. Entire(Encode[n.left])
    BY <1>1, EntireEncode
  <2>2. Entire(U32(Len(n.comparators)) \o EncodeChain(Encode, n.operators, n.comparators))
    <3>1. \A m \in Range(n.comparators) : Entire(Encode[m])
      BY <1>1, RangeTrees, EntireEncode
    <3>2. Entire(EncodeChain(Encode, n.operators, n.comparators)) /\ Entire(U32(Len(n.comparators)))
      BY <1>1, <3>1, EntireLists, EntireFields
    <3> QED
      BY <3>2, EntireConcat
  <2> QED
    BY <2>1, <2>2
<1>3. Encode[n] = Node("Compare", Encode[n.left] \o (U32(Len(n.comparators))
        \o EncodeChain(Encode, n.operators, n.comparators)))
  <2>1. Encode[n] = Node("Compare", (Encode[n.left] \o U32(Len(n.comparators)))
          \o EncodeChain(Encode, n.operators, n.comparators))
    BY EncodeEquation, ParseNextCases
  <2>2. /\ Encode[n.left] \in Seq(CodeFields) /\ U32(Len(n.comparators)) \in Seq(CodeFields)
        /\ EncodeChain(Encode, n.operators, n.comparators) \in Seq(CodeFields)
    <3>1. \A m \in Range(n.comparators) : Entire(Encode[m])
      BY <1>1, RangeTrees, EntireEncode
    <3>2. Entire(EncodeChain(Encode, n.operators, n.comparators)) /\ Entire(U32(Len(n.comparators)))
      BY <1>1, <3>1, EntireLists, EntireFields
    <3> QED
      BY <1>2, <3>2 DEF Entire
  <2> DEFINE x == Encode[n.left]
             y == U32(Len(n.comparators))
             z == EncodeChain(Encode, n.operators, n.comparators)
  <2>3. Encode[n] = Node("Compare", (x \o y) \o z) /\ x \in Seq(CodeFields)
          /\ y \in Seq(CodeFields) /\ z \in Seq(CodeFields)
    BY <2>1, <2>2
  <2> HIDE DEF x, y, z
  <2>4. (x \o y) \o z = x \o (y \o z)
    BY <2>3, ConcatAssociative
  <2>5. Encode[n] = Node("Compare", x \o (y \o z))
    BY <2>3, <2>4
  <2> QED
    BY <2>5 DEF x, y, z
<1>4. Entire(Encode[n.left] \o (U32(Len(n.comparators))
        \o EncodeChain(Encode, n.operators, n.comparators)))
  BY <1>2, EntireConcat
<1>5. c \in Seq(CodeFields) /\ "Compare" \in NodeTypes /\ Lies(c, p, Encode[n], q)
  BY DEF Accepted, Entire, NodeTypes, Lies
<1> HIDE DEF q
<1>6. /\ NodeAt(c, "Compare", p) /\ p \in Nat \ {0} /\ q \in Nat /\ NodeEnd(c, p) = q
      /\ Lies(c, p + 1, Encode[n.left] \o (U32(Len(n.comparators))
           \o EncodeChain(Encode, n.operators, n.comparators)), q)
  BY <1>3, <1>4, <1>5, SpansNode
<1>7. PICK a \in Nat : Lies(c, p + 1, Encode[n.left], a)
        /\ Lies(c, a, U32(Len(n.comparators)) \o EncodeChain(Encode, n.operators, n.comparators), q)
  BY <1>2, <1>5, <1>6, SpansBoth
<1>10. Leads(c, p, <<"expr", "comparisons">>, p + 1, q)
  <2>1. Reaches(c, p, "expr", p + 1, a)
    BY <1>1, <1>7, TreeReaches
  <2>2. Reaches(c, p, "comparisons", a, q)
    BY <1>1, <1>7, ComparisonsReach
  <2> QED
    BY <1>6, <1>7, <2>1, <2>2, LeadsTwice
<1>12. Handler["Compare"] = <<"expr", "comparisons">>
  BY DEF Handler
<1>11. Leads(c, p, <<"skip", "skippedComparisons">>, p + 1, q)
  <2>1. Reaches(c, p, "skip", p + 1, a)
    BY <1>1, <1>7, TreeReaches
  <2>2. Reaches(c, p, "skippedComparisons", a, q)
    BY <1>1, <1>7, ComparisonsReach
  <2> QED
    BY <1>6, <1>7, <2>1, <2>2, LeadsTwice
<1>13. Skipper["Compare"] = <<"skip", "skippedComparisons">>
  BY DEF Skipper
<1> QED
  BY <1>6, <1>10, <1>12, <1>11, <1>13 DEF Leading, NodeAt

\* Integer.
LEMMA LaidInteger ==
  ASSUME NEW c, Accepted(c), NEW n \in Trees, n.type = "Number",
         NEW p, Placed(c, p, Encode[n])
  PROVE  Leading(c, p)
<1> DEFINE q == p + Len(Encode[n])
<1>1. /\ n.integer \in Int
  <2>1. IsTree(n)
    BY TreesAreTrees
  <2> QED
    BY <2>1, PartsOfTree DEF IsTree
<1>2. /\ Entire(I32(n.integer))
  <2>1. Entire(I32(n.integer))
    BY <1>1, EntireFields
  <2> QED
    BY <2>1
<1>3. Encode[n] = Node("Integer", I32(n.integer))
  BY EncodeEquation, ParseNextCases
<1>4. Entire(I32(n.integer))
  BY <1>2
<1>5. c \in Seq(CodeFields) /\ "Integer" \in NodeTypes /\ Lies(c, p, Encode[n], q)
  BY DEF Accepted, Entire, NodeTypes, Lies
<1> HIDE DEF q
<1>6. /\ NodeAt(c, "Integer", p) /\ p \in Nat \ {0} /\ q \in Nat /\ NodeEnd(c, p) = q
      /\ Lies(c, p + 1, I32(n.integer), q)
  BY <1>3, <1>4, <1>5, SpansNode
<1>7. p + 1 \in Nat
  BY <1>6
<1>10. Leads(c, p, <<"integer">>, p + 1, q)
  <2>1. Reaches(c, p, "integer", p + 1, q)
    <3>1. Has(c, "i32", p + 1) /\ q = (p + 1) + 1
      BY <1>5, <1>6, SpansField DEF I32
    <3> QED
      BY <3>1, FieldReaches
  <2> QED
    BY <1>6, <1>7, <2>1, LeadsOnce
<1>12. Handler["Integer"] = <<"integer">>
  BY DEF Handler
<1>11. Leads(c, p, <<"dropInteger">>, p + 1, q)
  <2>1. Reaches(c, p, "dropInteger", p + 1, q)
    <3>1. Has(c, "i32", p + 1) /\ q = (p + 1) + 1
      BY <1>5, <1>6, SpansField DEF I32
    <3> QED
      BY <3>1, FieldReaches
  <2> QED
    BY <1>6, <1>7, <2>1, LeadsOnce
<1>13. Skipper["Integer"] = <<"dropInteger">>
  BY DEF Skipper
<1> QED
  BY <1>6, <1>10, <1>12, <1>11, <1>13 DEF Leading, NodeAt

\* IfElse.
LEMMA LaidIfElse ==
  ASSUME NEW c, Accepted(c), NEW n \in Trees, n.type = "If" /\ n.orelse # Missing,
         NEW p, Placed(c, p, Encode[n])
  PROVE  Leading(c, p)
<1> DEFINE q == p + Len(Encode[n])
<1>1. /\ n.test \in Trees /\ n.test.type \notin StatementTrees
      /\ n.body \in Trees
      /\ n.orelse \in Trees
  <2>1. IsTree(n) /\ StatementParts(n) = {n.body, n.orelse} /\ ExpressionParts(n) = {n.test}
    BY TreesAreTrees, PartsOfTree
  <2> QED
    BY <2>1 DEF IsTree
<1>2. /\ Entire(Encode[n.test])
      /\ Entire(Encode[n.body])
      /\ Entire(Encode[n.orelse])
  <2>1. Entire(Encode[n.test])
    BY <1>1, EntireEncode
  <2>2. Entire(Encode[n.body])
    BY <1>1, EntireEncode
  <2>3. Entire(Encode[n.orelse])
    BY <1>1, EntireEncode
  <2> QED
    BY <2>1, <2>2, <2>3
<1>3. Encode[n] = Node("IfElse", Encode[n.test] \o Encode[n.body] \o Encode[n.orelse])
  BY EncodeEquation, ParseNextCases
<1>4. Entire(Encode[n.test] \o Encode[n.body] \o Encode[n.orelse])
  BY <1>2, EntireConcat
<1>5. c \in Seq(CodeFields) /\ "IfElse" \in NodeTypes /\ Lies(c, p, Encode[n], q)
  BY DEF Accepted, Entire, NodeTypes, Lies
<1> HIDE DEF q
<1>6. /\ NodeAt(c, "IfElse", p) /\ p \in Nat \ {0} /\ q \in Nat /\ NodeEnd(c, p) = q
      /\ Lies(c, p + 1, Encode[n.test] \o Encode[n.body] \o Encode[n.orelse], q)
  BY <1>3, <1>4, <1>5, SpansNode
<1>71. PICK b \in Nat : Lies(c, p + 1, Encode[n.test] \o Encode[n.body], b)
         /\ Lies(c, b, Encode[n.orelse], q)
  BY <1>2, <1>5, <1>6, EntireConcat, SpansBoth
<1>72. PICK a \in Nat : Lies(c, p + 1, Encode[n.test], a) /\ Lies(c, a, Encode[n.body], b)
  BY <1>2, <1>5, <1>71, SpansBoth
<1>7. Lies(c, p + 1, Encode[n.test], a) /\ Lies(c, a, Encode[n.body], b)
        /\ Lies(c, b, Encode[n.orelse], q)
  BY <1>71, <1>72
<1>8. InWhile(c, p) \/ NodeAt(c, "WhileLoop", p) => InWhile(c, a)
  <2>1. a < q
    BY <1>1, <1>7, SpansTree
  <2>2. Has(c, "node", p) /\ ~ NodeAt(c, "ForLoop", p)
    BY <1>6 DEF NodeAt
  <2> QED
    BY <1>2, <1>6, <1>7, <2>1, <2>2, StaysInWhile
<1>9. InWhile(c, p) \/ NodeAt(c, "WhileLoop", p) => InWhile(c, b)
  <2>1. b < q
    BY <1>1, <1>7, SpansTree
  <2>2. Has(c, "node", p) /\ ~ NodeAt(c, "ForLoop", p)
    BY <1>6 DEF NodeAt
  <2>3. Entire(Encode[n.test] \o Encode[n.body])
    BY <1>2, EntireConcat
  <2> QED
    BY <1>6, <1>71, <2>1, <2>2, <2>3, StaysInWhile
<1>10. Leads(c, p, <<"test", "choose">>, p + 1, q)
  <2>1. Reaches(c, p, "test", p + 1, a)
    BY <1>1, <1>7, TreeReaches
  <2>2. Reaches(c, p, "choose", a, q)
    <3>1. Has(c, "node", a) /\ NodeEnd(c, a) = b /\ Has(c, "node", b) /\ NodeEnd(c, b) = q
      BY <1>1, <1>7, SpansTree
    <3>2. c[p].val # "If"
      BY <1>6 DEF NodeAt
    <3> QED
      BY <1>8, <1>9, <3>1, <3>2, ChooseReaches
  <2> QED
    BY <1>6, <1>7, <2>1, <2>2, LeadsTwice
<1>12. Handler["IfElse"] = <<"test", "choose">>
  BY DEF Handler
<1>11. Leads(c, p, <<"skip", "skip", "skip">>, p + 1, q)
  <2>1. Reaches(c, p, "skip", p + 1, a)
    BY <1>1, <1>7, TreeReaches
  <2>2. Reaches(c, p, "skip", a, b)
    BY <1>1, <1>7, TreeReaches
  <2>3. Reaches(c, p, "skip", b, q)
    BY <1>1, <1>7, TreeReaches
  <2> QED
    BY <1>6, <1>7, <2>1, <2>2, <2>3, LeadsThrice
<1>13. Skipper["IfElse"] = <<"skip", "skip", "skip">>
  BY DEF Skipper
<1> QED
  BY <1>6, <1>10, <1>12, <1>11, <1>13 DEF Leading, NodeAt

\* If.
LEMMA LaidIf ==
  ASSUME NEW c, Accepted(c), NEW n \in Trees, n.type = "If" /\ n.orelse = Missing,
         NEW p, Placed(c, p, Encode[n])
  PROVE  Leading(c, p)
<1> DEFINE q == p + Len(Encode[n])
<1>1. /\ n.test \in Trees /\ n.test.type \notin StatementTrees
      /\ n.body \in Trees
  <2>1. IsTree(n)
    BY TreesAreTrees
  <2> QED
    BY <2>1, PartsOfTree DEF IsTree
<1>2. /\ Entire(Encode[n.test])
      /\ Entire(Encode[n.body])
  <2>1. Entire(Encode[n.test])
    BY <1>1, EntireEncode
  <2>2. Entire(Encode[n.body])
    BY <1>1, EntireEncode
  <2> QED
    BY <2>1, <2>2
<1>3. Encode[n] = Node("If", Encode[n.test] \o Encode[n.body])
  BY EncodeEquation, ParseNextCases
<1>4. Entire(Encode[n.test] \o Encode[n.body])
  BY <1>2, EntireConcat
<1>5. c \in Seq(CodeFields) /\ "If" \in NodeTypes /\ Lies(c, p, Encode[n], q)
  BY DEF Accepted, Entire, NodeTypes, Lies
<1> HIDE DEF q
<1>6. /\ NodeAt(c, "If", p) /\ p \in Nat \ {0} /\ q \in Nat /\ NodeEnd(c, p) = q
      /\ Lies(c, p + 1, Encode[n.test] \o Encode[n.body], q)
  BY <1>3, <1>4, <1>5, SpansNode
<1>7. PICK a \in Nat : Lies(c, p + 1, Encode[n.test], a) /\ Lies(c, a, Encode[n.body], q)
  BY <1>2, <1>5, <1>6, SpansBoth
<1>8. InWhile(c, p) \/ NodeAt(c, "WhileLoop", p) => InWhile(c, a)
  <2>1. a < q
    BY <1>1, <1>7, SpansTree
  <2>2. Has(c, "node", p) /\ ~ NodeAt(c, "ForLoop", p)
    BY <1>6 DEF NodeAt
  <2> QED
    BY <1>2, <1>6, <1>7, <2>1, <2>2, StaysInWhile
<1>10. Leads(c, p, <<"test", "choose">>, p + 1, q)
  <2>1. Reaches(c, p, "test", p + 1, a)
    BY <1>1, <1>7, TreeReaches
  <2>2. Reaches(c, p, "choose", a, q)
    <3>1. Has(c, "node", a) /\ NodeEnd(c, a) = q /\ c[p].val = "If"
      BY <1>1, <1>6, <1>7, SpansTree DEF NodeAt
    <3> QED
      BY <1>8, <3>1, ChooseReaches
  <2> QED
    BY <1>6, <1>7, <2>1, <2>2, LeadsTwice
<1>12. Handler["If"] = <<"test", "choose">>
  BY DEF Handler
<1>11. Leads(c, p, <<"skip", "skip">>, p + 1, q)
  <2>1. Reaches(c, p, "skip", p + 1, a)
    BY <1>1, <1>7, TreeReaches
  <2>2. Reaches(c, p, "skip", a, q)
    BY <1>1, <1>7, TreeReaches
  <2> QED
    BY <1>6, <1>7, <2>1, <2>2, LeadsTwice
<1>13. Skipper["If"] = <<"skip", "skip">>
  BY DEF Skipper
<1> QED
  BY <1>6, <1>10, <1>12, <1>11, <1>13 DEF Leading, NodeAt

\* Call.
LEMMA LaidCall ==
  ASSUME NEW c, Accepted(c), NEW n \in Trees, n.type = "Call",
         NEW p, Placed(c, p, Encode[n])
  PROVE  Leading(c, p)
<1> DEFINE q == p + Len(Encode[n])
<1>1. /\ n.function \in Trees /\ n.function.type \notin StatementTrees
      /\ n.arguments \in Seq(Trees)
      /\ \A m \in Range(n.arguments) : m.type \notin StatementTrees
  <2>1. IsTree(n)
    BY TreesAreTrees
  <2> QED
    BY <2>1, PartsOfTree DEF IsTree
<1>2. /\ Entire(Encode[n.function])
      /\ Entire(EncodeList(Encode, n.arguments))
  <2>1. Entire(Encode[n.function])
    BY <1>1, EntireEncode
  <2>2. Entire(EncodeList(Encode, n.arguments))
    <3>1. \A m \in Range(n.arguments) : Entire(Encode[m])
      BY <1>1, RangeTrees, EntireEncode
    <3> QED
      BY <1>1, <3>1, EntireLists
  <2> QED
    BY <2>1, <2>2
<1>3. Encode[n] = Node("Call", Encode[n.function] \o EncodeList(Encode, n.arguments))
  BY EncodeEquation, ParseNextCases
<1>4. Entire(Encode[n.function] \o EncodeList(Encode, n.arguments))
  BY <1>2, EntireConcat
<1>5. c \in Seq(CodeFields) /\ "Call" \in NodeTypes /\ Lies(c, p, Encode[n], q)
  BY DEF Accepted, Entire, NodeTypes, Lies
<1> HIDE DEF q
<1>6. /\ NodeAt(c, "Call", p) /\ p \in Nat \ {0} /\ q \in Nat /\ NodeEnd(c, p) = q
      /\ Lies(c, p + 1, Encode[n.function] \o EncodeList(Encode, n.arguments), q)
  BY <1>3, <1>4, <1>5, SpansNode
<1>7. PICK a \in Nat : Lies(c, p + 1, Encode[n.function], a)
        /\ Lies(c, a, EncodeList(Encode, n.arguments), q)
  BY <1>2, <1>5, <1>6, SpansBoth
<1>10. Leads(c, p, <<"expr", "callable", "args", "call">>, p + 1, q)
  <2>1. Reaches(c, p, "expr", p + 1, a)
    BY <1>1, <1>7, TreeReaches
  <2>2. Reaches(c, p, "callable", a, a)
    BY FreeReaches DEF FreeSteps
  <2>3. Reaches(c, p, "args", a, q)
    BY <1>1, <1>7, ListReaches
  <2>4. Reaches(c, p, "call", q, q)
    BY FreeReaches DEF FreeSteps
  <2> QED
    BY <1>6, <1>7, <2>1, <2>2, <2>3, <2>4, LeadsFour
<1>12. Handler["Call"] = <<"expr", "callable", "args", "call">>
  BY DEF Handler
<1>11. Leads(c, p, <<"skip", "skips">>, p + 1, q)
  <2>1. Reaches(c, p, "skip", p + 1, a)
    BY <1>1, <1>7, TreeReaches
  <2>2. Reaches(c, p, "skips", a, q)
    BY <1>1, <1>7, ListReaches
  <2> QED
    BY <1>6, <1>7, <2>1, <2>2, LeadsTwice
<1>13. Skipper["Call"] = <<"skip", "skips">>
  BY DEF Skipper
<1> QED
  BY <1>6, <1>10, <1>12, <1>11, <1>13 DEF Leading, NodeAt

\* Attribute.
LEMMA LaidAttribute ==
  ASSUME NEW c, Accepted(c), NEW n \in Trees, n.type = "Attribute",
         NEW p, Placed(c, p, Encode[n])
  PROVE  Leading(c, p)
<1> DEFINE q == p + Len(Encode[n])
<1>1. /\ n.value \in Trees /\ n.value.type \notin StatementTrees
      /\ n.attribute \in Trees /\ n.attribute.type \notin StatementTrees
  <2>1. IsTree(n)
    BY TreesAreTrees
  <2> QED
    BY <2>1, PartsOfTree DEF IsTree
<1>2. /\ Entire(Encode[n.value])
      /\ Entire(Encode[n.attribute])
  <2>1. Entire(Encode[n.value])
    BY <1>1, EntireEncode
  <2>2. Entire(Encode[n.attribute])
    BY <1>1, EntireEncode
  <2> QED
    BY <2>1, <2>2
<1>3. Encode[n] = Node("Attribute", Encode[n.value] \o Encode[n.attribute])
  BY EncodeEquation, ParseNextCases
<1>4. Entire(Encode[n.value] \o Encode[n.attribute])
  BY <1>2, EntireConcat
<1>5. c \in Seq(CodeFields) /\ "Attribute" \in NodeTypes /\ Lies(c, p, Encode[n], q)
  BY DEF Accepted, Entire, NodeTypes, Lies
<1> HIDE DEF q
<1>6. /\ NodeAt(c, "Attribute", p) /\ p \in Nat \ {0} /\ q \in Nat /\ NodeEnd(c, p) = q
      /\ Lies(c, p + 1, Encode[n.value] \o Encode[n.attribute], q)
  BY <1>3, <1>4, <1>5, SpansNode
<1>7. PICK a \in Nat : Lies(c, p + 1, Encode[n.value], a) /\ Lies(c, a, Encode[n.attribute], q)
  BY <1>2, <1>5, <1>6, SpansBoth
<1>10. Leads(c, p, <<"expr", "name", "attribute">>, p + 1, q)
  <2>1. Reaches(c, p, "expr", p + 1, a)
    BY <1>1, <1>7, TreeReaches
  <2>2. Reaches(c, p, "name", a, q)
    BY <1>1, <1>7, TreeReaches
  <2>3. Reaches(c, p, "attribute", q, q)
    BY FreeReaches DEF FreeSteps
  <2> QED
    BY <1>6, <1>7, <2>1, <2>2, <2>3, LeadsThrice
<1>12. Handler["Attribute"] = <<"expr", "name", "attribute">>
  BY DEF Handler
<1>11. Leads(c, p, <<"skip", "skip">>, p + 1, q)
  <2>1. Reaches(c, p, "skip", p + 1, a)
    BY <1>1, <1>7, TreeReaches
  <2>2. Reaches(c, p, "skip", a, q)
    BY <1>1, <1>7, TreeReaches
  <2> QED
    BY <1>6, <1>7, <2>1, <2>2, LeadsTwice
<1>13. Skipper["Attribute"] = <<"skip", "skip">>
  BY DEF Skipper
<1> QED
  BY <1>6, <1>10, <1>12, <1>11, <1>13 DEF Leading, NodeAt

\* UnaryOp.
LEMMA LaidUnaryOp ==
  ASSUME NEW c, Accepted(c), NEW n \in Trees, n.type = "UnaryOp",
         NEW p, Placed(c, p, Encode[n])
  PROVE  Leading(c, p)
<1> DEFINE q == p + Len(Encode[n])
<1>1. /\ n.op \in STRING
      /\ n.operand \in Trees /\ n.operand.type \notin StatementTrees
  <2>1. IsTree(n)
    BY TreesAreTrees
  <2> QED
    BY <2>1, PartsOfTree DEF IsTree
<1>2. /\ Entire(Oper(n.op))
      /\ Entire(Encode[n.operand])
  <2>1. Entire(Oper(n.op))
    BY <1>1, EntireFields
  <2>2. Entire(Encode[n.operand])
    BY <1>1, EntireEncode
  <2> QED
    BY <2>1, <2>2
<1>3. Encode[n] = Node("UnaryOp", Oper(n.op) \o Encode[n.operand])
  BY EncodeEquation, ParseNextCases
<1>4. Entire(Oper(n.op) \o Encode[n.operand])
  BY <1>2, EntireConcat
<1>5. c \in Seq(CodeFields) /\ "UnaryOp" \in NodeTypes /\ Lies(c, p, Encode[n], q)
  BY DEF Accepted, Entire, NodeTypes, Lies
<1> HIDE DEF q
<1>6. /\ NodeAt(c, "UnaryOp", p) /\ p \in Nat \ {0} /\ q \in Nat /\ NodeEnd(c, p) = q
      /\ Lies(c, p + 1, Oper(n.op) \o Encode[n.operand], q)
  BY <1>3, <1>4, <1>5, SpansNode
<1>7. PICK a \in Nat : Lies(c, p + 1, Oper(n.op), a) /\ Lies(c, a, Encode[n.operand], q)
  BY <1>2, <1>5, <1>6, SpansBoth
<1>10. Leads(c, p, <<"op", "expr", "unary">>, p + 1, q)
  <2>1. Reaches(c, p, "op", p + 1, a)
    <3>1. Has(c, "op", p + 1) /\ a = (p + 1) + 1
      BY <1>5, <1>7, SpansField DEF Oper
    <3> QED
      BY <3>1, FieldReaches
  <2>2. Reaches(c, p, "expr", a, q)
    BY <1>1, <1>7, TreeReaches
  <2>3. Reaches(c, p, "unary", q, q)
    BY FreeReaches DEF FreeSteps
  <2> QED
    BY <1>6, <1>7, <2>1, <2>2, <2>3, LeadsThrice
<1>12. Handler["UnaryOp"] = <<"op", "expr", "unary">>
  BY DEF Handler
<1>11. Leads(c, p, <<"dropOp", "skip">>, p + 1, q)
  <2>1. Reaches(c, p, "dropOp", p + 1, a)
    <3>1. Has(c, "op", p + 1) /\ a = (p + 1) + 1
      BY <1>5, <1>7, SpansField DEF Oper
    <3> QED
      BY <3>1, FieldReaches
  <2>2. Reaches(c, p, "skip", a, q)
    BY <1>1, <1>7, TreeReaches
  <2> QED
    BY <1>6, <1>7, <2>1, <2>2, LeadsTwice
<1>13. Skipper["UnaryOp"] = <<"dropOp", "skip">>
  BY DEF Skipper
<1> QED
  BY <1>6, <1>10, <1>12, <1>11, <1>13 DEF Leading, NodeAt

\* BoolOp.
LEMMA LaidBoolOp ==
  ASSUME NEW c, Accepted(c), NEW n \in Trees, n.type = "BoolOp",
         NEW p, Placed(c, p, Encode[n])
  PROVE  Leading(c, p)
<1> DEFINE q == p + Len(Encode[n])
<1>1. /\ n.op \in STRING
      /\ n.values \in Seq(Trees)
      /\ \A m \in Range(n.values) : m.type \notin StatementTrees
  <2>1. IsTree(n)
    BY TreesAreTrees
  <2> QED
    BY <2>1, PartsOfTree DEF IsTree
<1>2. /\ Entire(Oper(n.op))
      /\ Entire(EncodeList(Encode, n.values))
  <2>1. Entire(Oper(n.op))
    BY <1>1, EntireFields
  <2>2. Entire(EncodeList(Encode, n.values))
    <3>1. \A m \in Range(n.values) : Entire(Encode[m])
      BY <1>1, RangeTrees, EntireEncode
    <3> QED
      BY <1>1, <3>1, EntireLists
  <2> QED
    BY <2>1, <2>2
<1>3. Encode[n] = Node("BoolOp", Oper(n.op) \o EncodeList(Encode, n.values))
  BY EncodeEquation, ParseNextCases
<1>4. Entire(Oper(n.op) \o EncodeList(Encode, n.values))
  BY <1>2, EntireConcat
<1>5. c \in Seq(CodeFields) /\ "BoolOp" \in NodeTypes /\ Lies(c, p, Encode[n], q)
  BY DEF Accepted, Entire, NodeTypes, Lies
<1> HIDE DEF q
<1>6. /\ NodeAt(c, "BoolOp", p) /\ p \in Nat \ {0} /\ q \in Nat /\ NodeEnd(c, p) = q
      /\ Lies(c, p + 1, Oper(n.op) \o EncodeList(Encode, n.values), q)
  BY <1>3, <1>4, <1>5, SpansNode
<1>7. PICK a \in Nat : Lies(c, p + 1, Oper(n.op), a) /\ Lies(c, a, EncodeList(Encode, n.values), q)
  BY <1>2, <1>5, <1>6, SpansBoth
<1>10. Leads(c, p, <<"op", "conditions", "undecided">>, p + 1, q)
  <2>1. Reaches(c, p, "op", p + 1, a)
    <3>1. Has(c, "op", p + 1) /\ a = (p + 1) + 1
      BY <1>5, <1>7, SpansField DEF Oper
    <3> QED
      BY <3>1, FieldReaches
  <2>2. Reaches(c, p, "conditions", a, q)
    BY <1>1, <1>7, ListReaches
  <2>3. Reaches(c, p, "undecided", q, q)
    BY FreeReaches DEF FreeSteps
  <2> QED
    BY <1>6, <1>7, <2>1, <2>2, <2>3, LeadsThrice
<1>12. Handler["BoolOp"] = <<"op", "conditions", "undecided">>
  BY DEF Handler
<1>11. Leads(c, p, <<"dropOp", "skips">>, p + 1, q)
  <2>1. Reaches(c, p, "dropOp", p + 1, a)
    <3>1. Has(c, "op", p + 1) /\ a = (p + 1) + 1
      BY <1>5, <1>7, SpansField DEF Oper
    <3> QED
      BY <3>1, FieldReaches
  <2>2. Reaches(c, p, "skips", a, q)
    BY <1>1, <1>7, ListReaches
  <2> QED
    BY <1>6, <1>7, <2>1, <2>2, LeadsTwice
<1>13. Skipper["BoolOp"] = <<"dropOp", "skips">>
  BY DEF Skipper
<1> QED
  BY <1>6, <1>10, <1>12, <1>11, <1>13 DEF Leading, NodeAt

\* BinaryOp.
LEMMA LaidBinaryOp ==
  ASSUME NEW c, Accepted(c), NEW n \in Trees, n.type = "BinOp",
         NEW p, Placed(c, p, Encode[n])
  PROVE  Leading(c, p)
<1> DEFINE q == p + Len(Encode[n])
<1>1. /\ n.op \in STRING
      /\ n.left \in Trees /\ n.left.type \notin StatementTrees
      /\ n.right \in Trees /\ n.right.type \notin StatementTrees
  <2>1. IsTree(n)
    BY TreesAreTrees
  <2> QED
    BY <2>1, PartsOfTree DEF IsTree
<1>2. /\ Entire(Oper(n.op))
      /\ Entire(Encode[n.left])
      /\ Entire(Encode[n.right])
  <2>1. Entire(Oper(n.op))
    BY <1>1, EntireFields
  <2>2. Entire(Encode[n.left])
    BY <1>1, EntireEncode
  <2>3. Entire(Encode[n.right])
    BY <1>1, EntireEncode
  <2> QED
    BY <2>1, <2>2, <2>3
<1>3. Encode[n] = Node("BinaryOp", Oper(n.op) \o (Encode[n.left] \o Encode[n.right]))
  BY EncodeEquation, ParseNextCases
<1>4. Entire(Oper(n.op) \o (Encode[n.left] \o Encode[n.right]))
  BY <1>2, EntireConcat
<1>5. c \in Seq(CodeFields) /\ "BinaryOp" \in NodeTypes /\ Lies(c, p, Encode[n], q)
  BY DEF Accepted, Entire, NodeTypes, Lies
<1> HIDE DEF q
<1>6. /\ NodeAt(c, "BinaryOp", p) /\ p \in Nat \ {0} /\ q \in Nat /\ NodeEnd(c, p) = q
      /\ Lies(c, p + 1, Oper(n.op) \o (Encode[n.left] \o Encode[n.right]), q)
  BY <1>3, <1>4, <1>5, SpansNode
<1>71. PICK a \in Nat : Lies(c, p + 1, Oper(n.op), a) /\ Lies(c, a, Encode[n.left] \o Encode[n.right], q)
  BY <1>2, <1>5, <1>6, EntireConcat, SpansBoth
<1>72. PICK b \in Nat : Lies(c, a, Encode[n.left], b) /\ Lies(c, b, Encode[n.right], q)
  BY <1>2, <1>5, <1>71, SpansBoth
<1>7. Lies(c, p + 1, Oper(n.op), a) /\ Lies(c, a, Encode[n.left], b) /\ Lies(c, b, Encode[n.right], q)
  BY <1>71, <1>72
<1>10. Leads(c, p, <<"op", "expr", "expr", "binary">>, p + 1, q)
  <2>1. Reaches(c, p, "op", p + 1, a)
    <3>1. Has(c, "op", p + 1) /\ a = (p + 1) + 1
      BY <1>5, <1>7, SpansField DEF Oper
    <3> QED
      BY <3>1, FieldReaches
  <2>2. Reaches(c, p, "expr", a, b)
    BY <1>1, <1>7, TreeReaches
  <2>3. Reaches(c, p, "expr", b, q)
    BY <1>1, <1>7, TreeReaches
  <2>4. Reaches(c, p, "binary", q, q)
    BY FreeReaches DEF FreeSteps
  <2> QED
    BY <1>6, <1>7, <2>1, <2>2, <2>3, <2>4, LeadsFour
<1>12. Handler["BinaryOp"] = <<"op", "expr", "expr", "binary">>
  BY DEF Handler
<1>11. Leads(c, p, <<"dropOp", "skip", "skip">>, p + 1, q)
  <2>1. Reaches(c, p, "dropOp", p + 1, a)
    <3>1. Has(c, "op", p + 1) /\ a = (p + 1) + 1
      BY <1>5, <1>7, SpansField DEF Oper
    <3> QED
      BY <3>1, FieldReaches
  <2>2. Reaches(c, p, "skip", a, b)
    BY <1>1, <1>7, TreeReaches
  <2>3. Reaches(c, p, "skip", b, q)
    BY <1>1, <1>7, TreeReaches
  <2> QED
    BY <1>6, <1>7, <2>1, <2>2, <2>3, LeadsThrice
<1>13. Skipper["BinaryOp"] = <<"dropOp", "skip", "skip">>
  BY DEF Skipper
<1> QED
  BY <1>6, <1>10, <1>12, <1>11, <1>13 DEF Leading, NodeAt

\* List.
LEMMA LaidList ==
  ASSUME NEW c, Accepted(c), NEW n \in Trees, n.type = "List",
         NEW p, Placed(c, p, Encode[n])
  PROVE  Leading(c, p)
<1> DEFINE q == p + Len(Encode[n])
<1>1. /\ n.elements \in Seq(Trees)
      /\ \A m \in Range(n.elements) : m.type \notin StatementTrees
  <2>1. IsTree(n)
    BY TreesAreTrees
  <2> QED
    BY <2>1, PartsOfTree DEF IsTree
<1>2. /\ Entire(EncodeList(Encode, n.elements))
  <2>1. Entire(EncodeList(Encode, n.elements))
    <3>1. \A m \in Range(n.elements) : Entire(Encode[m])
      BY <1>1, RangeTrees, EntireEncode
    <3> QED
      BY <1>1, <3>1, EntireLists
  <2> QED
    BY <2>1
<1>3. Encode[n] = Node("List", EncodeList(Encode, n.elements))
  BY EncodeEquation, ParseNextCases
<1>4. Entire(EncodeList(Encode, n.elements))
  BY <1>2
<1>5. c \in Seq(CodeFields) /\ "List" \in NodeTypes /\ Lies(c, p, Encode[n], q)
  BY DEF Accepted, Entire, NodeTypes, Lies
<1> HIDE DEF q
<1>6. /\ NodeAt(c, "List", p) /\ p \in Nat \ {0} /\ q \in Nat /\ NodeEnd(c, p) = q
      /\ Lies(c, p + 1, EncodeList(Encode, n.elements), q)
  BY <1>3, <1>4, <1>5, SpansNode
<1>7. p + 1 \in Nat
  BY <1>6
<1>10. Leads(c, p, <<"list", "elements">>, p + 1, q)
  <2>1. Reaches(c, p, "list", p + 1, p + 1)
    BY FreeReaches DEF FreeSteps
  <2>2. Reaches(c, p, "elements", p + 1, q)
    BY <1>1, <1>6, ListReaches
  <2> QED
    BY <1>6, <1>7, <2>1, <2>2, LeadsTwice
<1>12. Handler["List"] = <<"list", "elements">>
  BY DEF Handler
<1>11. Leads(c, p, <<"skips">>, p + 1, q)
  <2>1. Reaches(c, p, "skips", p + 1, q)
    BY <1>1, <1>6, ListReaches
  <2> QED
    BY <1>6, <1>7, <2>1, LeadsOnce
<1>13. Skipper["List"] = <<"skips">>
  BY DEF Skipper
<1> QED
  BY <1>6, <1>10, <1>12, <1>11, <1>13 DEF Leading, NodeAt

\* Subscript.
LEMMA LaidSubscript ==
  ASSUME NEW c, Accepted(c), NEW n \in Trees, n.type = "Subscript",
         NEW p, Placed(c, p, Encode[n])
  PROVE  Leading(c, p)
<1> DEFINE q == p + Len(Encode[n])
<1>1. /\ n.slice \in Trees /\ n.slice.type \notin StatementTrees
      /\ n.value \in Trees /\ n.value.type \notin StatementTrees
  <2>1. IsTree(n)
    BY TreesAreTrees
  <2> QED
    BY <2>1, PartsOfTree DEF IsTree
<1>2. /\ Entire(Encode[n.slice])
      /\ Entire(Encode[n.value])
  <2>1. Entire(Encode[n.slice])
    BY <1>1, EntireEncode
  <2>2. Entire(Encode[n.value])
    BY <1>1, EntireEncode
  <2> QED
    BY <2>1, <2>2
<1>3. Encode[n] = Node("Subscript", Encode[n.slice] \o Encode[n.value])
  BY EncodeEquation, ParseNextCases
<1>4. Entire(Encode[n.slice] \o Encode[n.value])
  BY <1>2, EntireConcat
<1>5. c \in Seq(CodeFields) /\ "Subscript" \in NodeTypes /\ Lies(c, p, Encode[n], q)
  BY DEF Accepted, Entire, NodeTypes, Lies
<1> HIDE DEF q
<1>6. /\ NodeAt(c, "Subscript", p) /\ p \in Nat \ {0} /\ q \in Nat /\ NodeEnd(c, p) = q
      /\ Lies(c, p + 1, Encode[n.slice] \o Encode[n.value], q)
  BY <1>3, <1>4, <1>5, SpansNode
<1>7. PICK a \in Nat : Lies(c, p + 1, Encode[n.slice], a) /\ Lies(c, a, Encode[n.value], q)
  BY <1>2, <1>5, <1>6, SpansBoth
<1>10. Leads(c, p, <<"expr", "expr", "subscript">>, p + 1, q)
  <2>1. Reaches(c, p, "expr", p + 1, a)
    BY <1>1, <1>7, TreeReaches
  <2>2. Reaches(c, p, "expr", a, q)
    BY <1>1, <1>7, TreeReaches
  <2>3. Reaches(c, p, "subscript", q, q)
    BY FreeReaches DEF FreeSteps
  <2> QED
    BY <1>6, <1>7, <2>1, <2>2, <2>3, LeadsThrice
<1>12. Handler["Subscript"] = <<"expr", "expr", "subscript">>
  BY DEF Handler
<1>11. Leads(c, p, <<"skip", "skip">>, p + 1, q)
  <2>1. Reaches(c, p, "skip", p + 1, a)
    BY <1>1, <1>7, TreeReaches
  <2>2. Reaches(c, p, "skip", a, q)
    BY <1>1, <1>7, TreeReaches
  <2> QED
    BY <1>6, <1>7, <2>1, <2>2, LeadsTwice
<1>13. Skipper["Subscript"] = <<"skip", "skip">>
  BY DEF Skipper
<1> QED
  BY <1>6, <1>10, <1>12, <1>11, <1>13 DEF Leading, NodeAt

\* Index.
LEMMA LaidIndex ==
  ASSUME NEW c, Accepted(c), NEW n \in Trees, n.type = "Index",
         NEW p, Placed(c, p, Encode[n])
  PROVE  Leading(c, p)
<1> DEFINE q == p + Len(Encode[n])
<1>1. /\ n.value \in Trees /\ n.value.type \notin StatementTrees
  <2>1. IsTree(n)
    BY TreesAreTrees
  <2> QED
    BY <2>1, PartsOfTree DEF IsTree
<1>2. /\ Entire(Encode[n.value])
  <2>1. Entire(Encode[n.value])
    BY <1>1, EntireEncode
  <2> QED
    BY <2>1
<1>3. Encode[n] = Node("Index", Encode[n.value])
  BY EncodeEquation, ParseNextCases
<1>4. Entire(Encode[n.value])
  BY <1>2
<1>5. c \in Seq(CodeFields) /\ "Index" \in NodeTypes /\ Lies(c, p, Encode[n], q)
  BY DEF Accepted, Entire, NodeTypes, Lies
<1> HIDE DEF q
<1>6. /\ NodeAt(c, "Index", p) /\ p \in Nat \ {0} /\ q \in Nat /\ NodeEnd(c, p) = q
      /\ Lies(c, p + 1, Encode[n.value], q)
  BY <1>3, <1>4, <1>5, SpansNode
<1>7. p + 1 \in Nat
  BY <1>6
<1>10. Leads(c, p, <<"expr">>, p + 1, q)
  <2>1. Reaches(c, p, "expr", p + 1, q)
    BY <1>1, <1>6, TreeReaches
  <2> QED
    BY <1>6, <1>7, <2>1, LeadsOnce
<1>12. Handler["Index"] = <<"expr">>
  BY DEF Handler
<1>11. Leads(c, p, <<"skip">>, p + 1, q)
  <2>1. Reaches(c, p, "skip", p + 1, q)
    BY <1>1, <1>6, TreeReaches
  <2> QED
    BY <1>6, <1>7, <2>1, LeadsOnce
<1>13. Skipper["Index"] = <<"skip">>
  BY DEF Skipper
<1> QED
  BY <1>6, <1>10, <1>12, <1>11, <1>13 DEF Leading, NodeAt

\* ForLoop.
LEMMA LaidForLoop ==
  ASSUME NEW c, Accepted(c), NEW n \in Trees, n.type = "For",
         NEW p, Placed(c, p, Encode[n])
  PROVE  Leading(c, p)
<1> DEFINE q == p + Len(Encode[n])
<1>1. /\ n.target \in Trees /\ n.target.type \notin StatementTrees
      /\ n.iter \in Trees /\ n.iter.type \notin StatementTrees
      /\ n.body \in Trees /\ n.body.type = "Suite"
  <2>1. IsTree(n)
    BY TreesAreTrees
  <2> QED
    BY <2>1, PartsOfTree DEF IsTree
<1>2. /\ Entire(Encode[n.target])
      /\ Entire(Encode[n.iter])
      /\ Entire(Encode[n.body])
  <2>1. Entire(Encode[n.target])
    BY <1>1, EntireEncode
  <2>2. Entire(Encode[n.iter])
    BY <1>1, EntireEncode
  <2>3. Entire(Encode[n.body])
    BY <1>1, EntireEncode
  <2> QED
    BY <2>1, <2>2, <2>3
<1>3. Encode[n] = Node("ForLoop", Encode[n.target] \o Encode[n.iter] \o Encode[n.body])
  BY EncodeEquation, ParseNextCases
<1>4. Entire(Encode[n.target] \o Encode[n.iter] \o Encode[n.body])
  BY <1>2, EntireConcat
<1>5. c \in Seq(CodeFields) /\ "ForLoop" \in NodeTypes /\ Lies(c, p, Encode[n], q)
  BY DEF Accepted, Entire, NodeTypes, Lies
<1> HIDE DEF q
<1>6. /\ NodeAt(c, "ForLoop", p) /\ p \in Nat \ {0} /\ q \in Nat /\ NodeEnd(c, p) = q
      /\ Lies(c, p + 1, Encode[n.target] \o Encode[n.iter] \o Encode[n.body], q)
  BY <1>3, <1>4, <1>5, SpansNode
<1>71. PICK b \in Nat : Lies(c, p + 1, Encode[n.target] \o Encode[n.iter], b)
         /\ Lies(c, b, Encode[n.body], q)
  BY <1>2, <1>5, <1>6, EntireConcat, SpansBoth
<1>72. PICK a \in Nat : Lies(c, p + 1, Encode[n.target], a) /\ Lies(c, a, Encode[n.iter], b)
  BY <1>2, <1>5, <1>71, SpansBoth
<1>7. Lies(c, p + 1, Encode[n.target], a) /\ Lies(c, a, Encode[n.iter], b)
        /\ Lies(c, b, Encode[n.body], q)
  BY <1>71, <1>72
<1>10. Leads(c, p, <<"names", "expr", "iterate", "next">>, p + 1, q)
  <2>1. Reaches(c, p, "names", p + 1, a)
    BY <1>1, <1>7, TreeReaches
  <2>2. Reaches(c, p, "expr", a, b)
    BY <1>1, <1>7, TreeReaches
  <2>3. Reaches(c, p, "iterate", b, b)
    BY FreeReaches DEF FreeSteps
  <2>4. Reaches(c, p, "next", b, q)
    <3>1. c[p].val = "WhileLoop" => InWhile(c, b)
      BY <1>6 DEF NodeAt
    <3> QED
      BY <1>1, <1>7, <3>1, TreeReaches
  <2> QED
    BY <1>6, <1>7, <2>1, <2>2, <2>3, <2>4, LeadsFour
<1>12. Handler["ForLoop"] = <<"names", "expr", "iterate", "next">>
  BY DEF Handler
<1>11. Leads(c, p, <<"dropNames", "skip", "skip">>, p + 1, q)
  <2>1. Reaches(c, p, "dropNames", p + 1, a)
    BY <1>1, <1>7, TreeReaches
  <2>2. Reaches(c, p, "skip", a, b)
    BY <1>1, <1>7, TreeReaches
  <2>3. Reaches(c, p, "skip", b, q)
    BY <1>1, <1>7, TreeReaches
  <2> QED
    BY <1>6, <1>7, <2>1, <2>2, <2>3, LeadsThrice
<1>13. Skipper["ForLoop"] = <<"dropNames", "skip", "skip">>
  BY DEF Skipper
<1> QED
  BY <1>6, <1>10, <1>12, <1>11, <1>13 DEF Leading, NodeAt

\* WhileLoop.
LEMMA LaidWhileLoop ==
  ASSUME NEW c, Accepted(c), NEW n \in Trees, n.type = "While",
         NEW p, Placed(c, p, Encode[n])
  PROVE  Leading(c, p)
<1> DEFINE q == p + Len(Encode[n])
<1>1. /\ n.test \in Trees /\ n.test.type \notin StatementTrees
      /\ n.body \in Trees /\ n.body.type = "Suite"
  <2>1. IsTree(n)
    BY TreesAreTrees
  <2> QED
    BY <2>1, PartsOfTree DEF IsTree
<1>2. /\ Entire(Encode[n.test])
      /\ Entire(Encode[n.body])
  <2>1. Entire(Encode[n.test])
    BY <1>1, EntireEncode
  <2>2. Entire(Encode[n.body])
    BY <1>1, EntireEncode
  <2> QED
    BY <2>1, <2>2
<1>3. Encode[n] = Node("WhileLoop", Encode[n.test] \o Encode[n.body])
  BY EncodeEquation, ParseNextCases
<1>4. Entire(Encode[n.test] \o Encode[n.body])
  BY <1>2, EntireConcat
<1>5. c \in Seq(CodeFields) /\ "WhileLoop" \in NodeTypes /\ Lies(c, p, Encode[n], q)
  BY DEF Accepted, Entire, NodeTypes, Lies
<1> HIDE DEF q
<1>6. /\ NodeAt(c, "WhileLoop", p) /\ p \in Nat \ {0} /\ q \in Nat /\ NodeEnd(c, p) = q
      /\ Lies(c, p + 1, Encode[n.test] \o Encode[n.body], q)
  BY <1>3, <1>4, <1>5, SpansNode
<1>7. PICK a \in Nat : Lies(c, p + 1, Encode[n.test], a) /\ Lies(c, a, Encode[n.body], q)
  BY <1>2, <1>5, <1>6, SpansBoth
<1>8. InWhile(c, p) \/ NodeAt(c, "WhileLoop", p) => InWhile(c, a)
  <2>1. a < q
    BY <1>1, <1>7, SpansTree
  <2>2. Has(c, "node", p) /\ ~ NodeAt(c, "ForLoop", p)
    BY <1>6 DEF NodeAt
  <2> QED
    BY <1>2, <1>6, <1>7, <2>1, <2>2, StaysInWhile
<1>10. Leads(c, p, <<"expr", "while">>, p + 1, q)
  <2>1. Reaches(c, p, "expr", p + 1, a)
    BY <1>1, <1>7, TreeReaches
  <2>2. Reaches(c, p, "while", a, q)
    <3>1. c[p].val = "WhileLoop" => InWhile(c, a)
      BY <1>8, <1>6 DEF NodeAt
    <3> QED
      BY <1>1, <1>7, <3>1, TreeReaches
  <2> QED
    BY <1>6, <1>7, <2>1, <2>2, LeadsTwice
<1>12. Handler["WhileLoop"] = <<"expr", "while">>
  BY DEF Handler
<1>13. "WhileLoop" \notin DOMAIN Skipper
  BY DEF Skipper
<1> QED
  BY <1>6, <1>10, <1>12, <1>13 DEF Leading, NodeAt

\* AugmentedAssign.
LEMMA LaidAugmentedAssign ==
  ASSUME NEW c, Accepted(c), NEW n \in Trees, n.type = "AugAssign",
         NEW p, Placed(c, p, Encode[n])
  PROVE  Leading(c, p)
<1> DEFINE q == p + Len(Encode[n])
<1>1. /\ n.op \in STRING
      /\ n.target \in Trees /\ n.target.type \notin StatementTrees
      /\ n.value \in Trees /\ n.value.type \notin StatementTrees
  <2>1. IsTree(n)
    BY TreesAreTrees
  <2> QED
    BY <2>1, PartsOfTree DEF IsTree
<1>2. /\ Entire(Oper(n.op))
      /\ Entire(Encode[n.target])
      /\ Entire(Encode[n.value])
  <2>1. Entire(Oper(n.op))
    BY <1>1, EntireFields
  <2>2. Entire(Encode[n.target])
    BY <1>1, EntireEncode
  <2>3. Entire(Encode[n.value])
    BY <1>1, EntireEncode
  <2> QED
    BY <2>1, <2>2, <2>3
<1>3. Encode[n] = Node("AugmentedAssign", Oper(n.op) \o Encode[n.target] \o Encode[n.value])
  BY EncodeEquation, ParseNextCases
<1>4. Entire(Oper(n.op) \o Encode[n.target] \o Encode[n.value])
  BY <1>2, EntireConcat
<1>5. c \in Seq(CodeFields) /\ "AugmentedAssign" \in NodeTypes /\ Lies(c, p, Encode[n], q)
  BY DEF Accepted, Entire, NodeTypes, Lies
<1> HIDE DEF q
<1>6. /\ NodeAt(c, "AugmentedAssign", p) /\ p \in Nat \ {0} /\ q \in Nat /\ NodeEnd(c, p) = q
      /\ Lies(c, p + 1, Oper(n.op) \o Encode[n.target] \o Encode[n.value], q)
  BY <1>3, <1>4, <1>5, SpansNode
<1>71. PICK b \in Nat : Lies(c, p + 1, Oper(n.op) \o Encode[n.target], b)
         /\ Lies(c, b, Encode[n.value], q)
  BY <1>2, <1>5, <1>6, EntireConcat, SpansBoth
<1>72. PICK a \in Nat : Lies(c, p + 1, Oper(n.op), a) /\ Lies(c, a, Encode[n.target], b)
  BY <1>2, <1>5, <1>71, SpansBoth
<1>7. Lies(c, p + 1, Oper(n.op), a) /\ Lies(c, a, Encode[n.target], b) /\ Lies(c, b, Encode[n.value], q)
  BY <1>71, <1>72
<1>10. Leads(c, p, <<"op", "fetch", "expr", "augment">>, p + 1, q)
  <2>1. Reaches(c, p, "op", p + 1, a)
    <3>1. Has(c, "op", p + 1) /\ a = (p + 1) + 1
      BY <1>5, <1>7, SpansField DEF Oper
    <3> QED
      BY <3>1, FieldReaches
  <2>2. Reaches(c, p, "fetch", a, b)
    BY <1>1, <1>7, TreeReaches
  <2>3. Reaches(c, p, "expr", b, q)
    BY <1>1, <1>7, TreeReaches
  <2>4. Reaches(c, p, "augment", q, q)
    BY FreeReaches DEF FreeSteps
  <2> QED
    BY <1>6, <1>7, <2>1, <2>2, <2>3, <2>4, LeadsFour
<1>12. Handler["AugmentedAssign"] = <<"op", "fetch", "expr", "augment">>
  BY DEF Handler
<1>11. Leads(c, p, <<"dropOp", "skip", "skip">>, p + 1, q)
  <2>1. Reaches(c, p, "dropOp", p + 1, a)
    <3>1. Has(c, "op", p + 1) /\ a = (p + 1) + 1
      BY <1>5, <1>7, SpansField DEF Oper
    <3> QED
      BY <3>1, FieldReaches
  <2>2. Reaches(c, p, "skip", a, b)
    BY <1>1, <1>7, TreeReaches
  <2>3. Reaches(c, p, "skip", b, q)
    BY <1>1, <1>7, TreeReaches
  <2> QED
    BY <1>6, <1>7, <2>1, <2>2, <2>3, LeadsThrice
<1>13. Skipper["AugmentedAssign"] = <<"dropOp", "skip", "skip">>
  BY DEF Skipper
<1> QED
  BY <1>6, <1>10, <1>12, <1>11, <1>13 DEF Leading, NodeAt

\* Continue.
LEMMA LaidContinue ==
  ASSUME NEW c, Accepted(c), NEW n \in Trees, n.type = "Continue",
         NEW p, Placed(c, p, Encode[n])
  PROVE  Leading(c, p)
<1> DEFINE q == p + Len(Encode[n])
<1>1. IsTree(n)
  BY TreesAreTrees
<1>2. Entire(<< >>)
  BY EntireFields
<1>3. Encode[n] = Node("Continue", << >>)
  BY EncodeEquation, ParseNextCases
<1>4. Entire(<< >>)
  BY <1>2
<1>5. c \in Seq(CodeFields) /\ "Continue" \in NodeTypes /\ Lies(c, p, Encode[n], q)
  BY DEF Accepted, Entire, NodeTypes, Lies
<1> HIDE DEF q
<1>6. /\ NodeAt(c, "Continue", p) /\ p \in Nat \ {0} /\ q \in Nat /\ NodeEnd(c, p) = q
      /\ Lies(c, p + 1, << >>, q)
  BY <1>3, <1>4, <1>5, SpansNode
<1>7. p + 1 \in Nat
  BY <1>6
<1>10. Leads(c, p, <<"continue">>, p + 1, q)
  <2>1. Reaches(c, p, "continue", p + 1, p + 1) /\ p + 1 = q
    <3>1. p + 1 = q
      BY <1>6 DEF Lies
    <3> QED
      BY <3>1, FreeReaches DEF FreeSteps
  <2> QED
    BY <1>6, <1>7, <2>1, LeadsOnce
<1>12. Handler["Continue"] = <<"continue">>
  BY DEF Handler
<1>11. Leads(c, p, << >>, p + 1, q)
  <2>1. p + 1 = q
    BY <1>6 DEF Lies
  <2> QED
    BY <1>7, <2>1, LeadsNowhere
<1>13. Skipper["Continue"] = << >>
  BY DEF Skipper
<1> QED
  BY <1>6, <1>10, <1>12, <1>11, <1>13 DEF Leading, NodeAt

\* Break.
LEMMA LaidBreak ==
  ASSUME NEW c, Accepted(c), NEW n \in Trees, n.type = "Break",
         NEW p, Placed(c, p, Encode[n])
  PROVE  Leading(c, p)
<1> DEFINE q == p + Len(Encode[n])
<1>1. IsTree(n)
  BY TreesAreTrees
<1>2. Entire(<< >>)
  BY EntireFields
<1>3. Encode[n] = Node("Break", << >>)
  BY EncodeEquation, ParseNextCases
<1>4. Entire(<< >>)
  BY <1>2
<1>5. c \in Seq(CodeFields) /\ "Break" \in NodeTypes /\ Lies(c, p, Encode[n], q)
  BY DEF Accepted, Entire, NodeTypes, Lies
<1> HIDE DEF q
<1>6. /\ NodeAt(c, "Break", p) /\ p \in Nat \ {0} /\ q \in Nat /\ NodeEnd(c, p) = q
      /\ Lies(c, p + 1, << >>, q)
  BY <1>3, <1>4, <1>5, SpansNode
<1>7. p + 1 \in Nat
  BY <1>6
<1>10. Leads(c, p, <<"break">>, p + 1, q)
  <2>1. Reaches(c, p, "break", p + 1, p + 1) /\ p + 1 = q
    <3>1. p + 1 = q
      BY <1>6 DEF Lies
    <3> QED
      BY <3>1, FreeReaches DEF FreeSteps
  <2> QED
    BY <1>6, <1>7, <2>1, LeadsOnce
<1>12. Handler["Break"] = <<"break">>
  BY DEF Handler
<1>11. Leads(c, p, << >>, p + 1, q)
  <2>1. p + 1 = q
    BY <1>6 DEF Lies
  <2> QED
    BY <1>7, <2>1, LeadsNowhere
<1>13. Skipper["Break"] = << >>
  BY DEF Skipper
<1> QED
  BY <1>6, <1>10, <1>12, <1>11, <1>13 DEF Leading, NodeAt

\* Tuple.
LEMMA LaidTuple ==
  ASSUME NEW c, Accepted(c), NEW n \in Trees, n.type = "Tuple",
         NEW p, Placed(c, p, Encode[n])
  PROVE  Leading(c, p)
<1> DEFINE q == p + Len(Encode[n])
<1>1. /\ n.elements \in Seq(Trees)
  <2>1. IsTree(n)
    BY TreesAreTrees
  <2> QED
    BY <2>1, PartsOfTree DEF IsTree
<1>2. /\ Entire(EncodeList(Encode, n.elements))
  <2>1. Entire(EncodeList(Encode, n.elements))
    <3>1. \A m \in Range(n.elements) : Entire(Encode[m])
      BY <1>1, RangeTrees, EntireEncode
    <3> QED
      BY <1>1, <3>1, EntireLists
  <2> QED
    BY <2>1
<1>3. Encode[n] = Node("Tuple", EncodeList(Encode, n.elements))
  BY EncodeEquation, ParseNextCases
<1>4. Entire(EncodeList(Encode, n.elements))
  BY <1>2
<1>5. c \in Seq(CodeFields) /\ "Tuple" \in NodeTypes /\ Lies(c, p, Encode[n], q)
  BY DEF Accepted, Entire, NodeTypes, Lies
<1> HIDE DEF q
<1>6. /\ NodeAt(c, "Tuple", p) /\ p \in Nat \ {0} /\ q \in Nat /\ NodeEnd(c, p) = q
      /\ Lies(c, p + 1, EncodeList(Encode, n.elements), q)
  BY <1>3, <1>4, <1>5, SpansNode
<1>7. p + 1 \in Nat
  BY <1>6
<1>12. "Tuple" \notin DOMAIN Handler
  BY DEF Handler
<1>11. Leads(c, p, <<"skips">>, p + 1, q)
  <2>1. Reaches(c, p, "skips", p + 1, q)
    BY <1>1, <1>6, ListReaches
  <2> QED
    BY <1>6, <1>7, <2>1, LeadsOnce
<1>13. Skipper["Tuple"] = <<"skips">>
  BY DEF Skipper
<1> QED
  BY <1>6, <1>12, <1>11, <1>13 DEF Leading, NodeAt

\* Every node.
LEMMA LaidNode ==
  ASSUME NEW c, Accepted(c), NEW p \in 1 .. Len(c), c[p].kind = "node"
  PROVE  Leading(c, p)
<1>1. PICK n \in Trees : n.type # "ExpressionStatement" /\ Placed(c, p, Encode[n])
  BY DEF Accepted, Entire, EntireAt, Spot
<1>2. n.type \in TreeTypes
  <2> SUFFICES ASSUME n.type \notin TreeTypes PROVE FALSE
    OBVIOUS
  <2>1. Encode[n] = Refused
    BY EncodeEquation, ParseNextCases
  <2>2. Lies(c, p, Refused, p + Len(Refused))
    BY <1>1, <2>1 DEF Lies
  <2> QED
    BY <2>2, NotRefused
<1>3. CASE n.type = "ImportFrom"
  BY <1>1, <1>3, LaidImportFrom
<1>4. CASE n.type = "Import"
  BY <1>1, <1>4, LaidImport
<1>5. CASE n.type = "Alias"
  BY <1>1, <1>5, LaidAlias
<1>6. CASE n.type = "Name"
  BY <1>1, <1>6, LaidName
<1>7. CASE n.type = "Assign"
  BY <1>1, <1>7, LaidAssign
<1>8. CASE n.type = "Suite"
  BY <1>1, <1>8, LaidStatementList
<1>9. CASE n.type = "Str"
  BY <1>1, <1>9, LaidString
<1>10. CASE n.type = "Return"
  BY <1>1, <1>10, LaidReturn
<1>11. CASE n.type = "Dict"
  BY <1>1, <1>11, LaidDictionary
<1>12. CASE n.type = "Compare"
  BY <1>1, <1>12, LaidCompare
<1>13. CASE n.type = "Number"
  BY <1>1, <1>13, LaidInteger
<1>14. CASE n.type = "If" /\ n.orelse # Missing
  BY <1>1, <1>14, LaidIfElse
<1>15. CASE n.type = "If" /\ n.orelse = Missing
  BY <1>1, <1>15, LaidIf
<1>16. CASE n.type = "Call"
  BY <1>1, <1>16, LaidCall
<1>17. CASE n.type = "Attribute"
  BY <1>1, <1>17, LaidAttribute
<1>18. CASE n.type = "UnaryOp"
  BY <1>1, <1>18, LaidUnaryOp
<1>19. CASE n.type = "BoolOp"
  BY <1>1, <1>19, LaidBoolOp
<1>20. CASE n.type = "BinOp"
  BY <1>1, <1>20, LaidBinaryOp
<1>21. CASE n.type = "List"
  BY <1>1, <1>21, LaidList
<1>22. CASE n.type = "Subscript"
  BY <1>1, <1>22, LaidSubscript
<1>23. CASE n.type = "Index"
  BY <1>1, <1>23, LaidIndex
<1>24. CASE n.type = "For"
  BY <1>1, <1>24, LaidForLoop
<1>25. CASE n.type = "While"
  BY <1>1, <1>25, LaidWhileLoop
<1>26. CASE n.type = "AugAssign"
  BY <1>1, <1>26, LaidAugmentedAssign
<1>27. CASE n.type = "Continue"
  BY <1>1, <1>27, LaidContinue
<1>28. CASE n.type = "Break"
  BY <1>1, <1>28, LaidBreak
<1>29. CASE n.type = "Tuple"
  BY <1>1, <1>29, LaidTuple
<1> QED
  BY <1>1, <1>2, <1>3, <1>4, <1>5, <1>6, <1>7, <1>8, <1>9, <1>10, <1>11, <1>12, <1>13, <1>14,
     <1>15, <1>16, <1>17, <1>18, <1>19, <1>20, <1>21, <1>22, <1>23, <1>24, <1>25, <1>26, <1>27,
     <1>28, <1>29 DEF TreeTypes

-----------------------------------------------------------------------------
(* The theorems: of the compiler's output. *)

\* Accepted code is laid out.
LEMMA AcceptedLaidOut ==
  ASSUME NEW c, Accepted(c)
  PROVE  LaidOut(c)
<1>1. IsCode(c) /\ DOMAIN c = 1 .. Len(c)
  BY AcceptedIsCode
<1>2. ASSUME NEW p \in DOMAIN c, c[p].kind = "node"
      PROVE  /\ c[p].val \in DOMAIN Handler => Along(c, p, Handler[c[p].val], p + 1, NodeEnd(c, p))
             /\ c[p].val \in DOMAIN Skipper => Along(c, p, Skipper[c[p].val], p + 1, NodeEnd(c, p))
  <2>1. Leading(c, p)
    BY <1>1, <1>2, LaidNode
  <2>2. ASSUME c[p].val \in DOMAIN Handler
        PROVE  Along(c, p, Handler[c[p].val], p + 1, NodeEnd(c, p))
    <3>1. Handler[c[p].val] \in Seq(Steps)
      BY <2>2, HandlerType
    <3> QED
      BY <1>1, <2>1, <2>2, <3>1, LeadsAlong DEF Leading
  <2>3. ASSUME c[p].val \in DOMAIN Skipper
        PROVE  Along(c, p, Skipper[c[p].val], p + 1, NodeEnd(c, p))
    <3>1. Skipper[c[p].val] \in Seq(SkipSteps)
      BY <2>3, SkipperSteps
    <3> QED
      BY <1>1, <2>1, <2>3, <3>1, LeadsAlong DEF Leading
  <2> QED
    BY <2>2, <2>3
<1> QED
  BY <1>2 DEF LaidOut

(***************************************************************************)
(* Of every syntax tree, compile_code makes either nothing (where          *)
(* parse_next throws) or one node, with all of its fields; and it is laid  *)
(* out the way that each case of execute_next and of skip_next reads it.   *)
(***************************************************************************)
THEOREM CompiledIsLaidOut ==
  \A module \in Trees :
    LET c == Compile(module)
    IN  /\ IsCode(c) /\ LaidOut(c)
        /\ c # << >> => Has(c, "node", 1) /\ NodeEnd(c, 1) = Len(c) + 1
<1> SUFFICES ASSUME NEW module \in Trees
             PROVE  /\ IsCode(Compile(module)) /\ LaidOut(Compile(module))
                    /\ Compile(module) # << >> => /\ Has(Compile(module), "node", 1)
                                                  /\ NodeEnd(Compile(module), 1) = Len(Compile(module)) + 1
  OBVIOUS
<1> DEFINE c == Encode[module]
<1>1. Entire(c)
  BY EntireEncode
<1>2. c \in Seq(CodeFields) /\ DOMAIN c = 1 .. Len(c) /\ Len(c) \in Nat
  BY <1>1, LenProperties DEF Entire
<1>3. CASE \E i \in DOMAIN c : c[i].kind = "refused"
  <2>1. Compile(module) = << >>
    BY <1>3 DEF Compile, Written
  <2>2. IsCode(<< >>) /\ LaidOut(<< >>)
    BY DEF IsCode, LaidOut
  <2> QED
    BY <2>1, <2>2
<1>4. CASE ~ \E i \in DOMAIN c : c[i].kind = "refused"
  <2>1. Compile(module) = c
    BY <1>4 DEF Compile, Written
  <2>2. Accepted(c)
    BY <1>1, <1>2, <1>4 DEF Accepted
  <2>3. Lies(c, 1, Encode[module], Len(c) + 1)
    <3>1. \A i \in 1 .. Len(c) : 1 + i - 1 = i
      BY <1>2
    <3>2. 1 + Len(c) = Len(c) + 1
      BY <1>2
    <3> QED
      BY <1>2, <3>1, <3>2 DEF Lies, Placed
  <2>4. Has(c, "node", 1) /\ NodeEnd(c, 1) = Len(c) + 1
    BY <2>2, <2>3, SpansTree
  <2> HIDE DEF c
  <2> QED
    BY <2>1, <2>2, <2>4, AcceptedIsCode, AcceptedLaidOut
<1> QED
  BY <1>3, <1>4

\* The programs that the interpreter runs are compiled.
LEMMA ProgramsCompiled ==
  ASSUME NEW i \in DOMAIN Programs
  PROVE  i \in DOMAIN Modules /\ Modules[i] \in Trees /\ Programs[i] = Compile(Modules[i])
<1>1. Programs = [j \in DOMAIN Modules |-> Compile(Modules[j])]
  BY ProgramsAreCompiled DEF CompileAll, Compile
<1>2. i \in DOMAIN Modules /\ Programs[i] = Compile(Modules[i])
  BY <1>1
<1>3. Modules[i] \in Trees
  BY <1>2, ModulesAreTrees, ElementOfSeq, LenProperties
<1> QED
  BY <1>2, <1>3

(***************************************************************************)
(* What is asked of a program is only that none of its breaks leaves a     *)
(* while loop: of such a break chipy makes something else (the run         *)
(* "break_in_while").                                                      *)
(***************************************************************************)
NoBreakLeavesWhile == \A i \in DOMAIN Programs : BreaksLeaveFors(Programs[i])

\* The programs are then what the theorems about the cursor assume.
LEMMA CompiledAreWellFormed ==
  ASSUME NoBreakLeavesWhile
  PROVE  ProgramsWellFormed
<1> SUFFICES ASSUME NEW i \in DOMAIN Programs
             PROVE  WellFormed(Programs[i])
  BY DEF ProgramsWellFormed
<1> DEFINE c == Programs[i]
<1>1. Modules[i] \in Trees /\ c = Compile(Modules[i])
  BY ProgramsCompiled
<1>2. BreaksLeaveFors(c)
  BY DEF NoBreakLeavesWhile
<1> HIDE DEF c
<1>3. LaidOut(c) /\ (c # << >> => Has(c, "node", 1) /\ NodeEnd(c, 1) = Len(c) + 1)
  BY <1>1, CompiledIsLaidOut
<1> QED
  BY <1>2, <1>3 DEF WellFormed, c

(***************************************************************************)
(* The byte code that is executed is laid out well, whatever the program.  *)
(***************************************************************************)
THEOREM CodeIsWellFormedCorrect ==
  NoBreakLeavesWhile => (Spec => []CodeIsWellFormed)
<1> SUFFICES ASSUME NoBreakLeavesWhile
             PROVE  Spec => []CodeIsWellFormed
  OBVIOUS
<1>1. Init => CursorInd
  BY CompiledAreWellFormed, InitCursor
<1>2. CursorInd /\ [Next]_vars => CursorInd'
  BY NextCursor
<1>3. CursorInd => CodeIsWellFormed
  BY DEF CursorInd, CursorInv, CodeIsWellFormed
<1> QED
  BY <1>1, <1>2, <1>3, PTL DEF Spec

(***************************************************************************)
(* Compiler and interpreter together: execute_next and skip_next read      *)
(* every field of a compiled program as what parse_next wrote there, stop  *)
(* where each node ends, and stop at the end of the code; and a return in  *)
(* the global scope is final.                                              *)
(***************************************************************************)
THEOREM CompiledProgramsAreRead ==
  NoBreakLeavesWhile => /\ Spec => []ReadsWhatWasWritten
                        /\ Spec => []ConsumesItsNode
                        /\ Spec => []EndsAtTheEnd
                        /\ Spec => ReturnIsFinal
BY CompiledAreWellFormed, ReadsWhatWasWrittenCorrect, ConsumesItsNodeCorrect,
   EndsAtTheEndCorrect, ReturnIsFinalCorrect

=============================================================================
