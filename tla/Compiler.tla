------------------------------ MODULE Compiler ------------------------------
(***************************************************************************)
(* The compiler: from the syntax tree that pypa's parser builds to the     *)
(* fields of the byte code.                                                *)
(*                                                                         *)
(* A syntax tree is a record whose "type" is the AstType of pypa and whose *)
(* other fields are the members that the compiler uses.  pypa itself is    *)
(* not modelled; the constructors below say which trees it builds.         *)
(***************************************************************************)
EXTENDS Bytecode, Values, SequencesExt

CONSTANTS
  Trees,     \* syntax trees, with all of their parts
  Height     \* a number for each of them, greater than its parts'

\* Trees.  An absent member (a bare "return") is the tree Missing.
Missing              == [type |-> "Missing"]
Suite(items)         == [type |-> "Suite", items |-> items]
Name(id)             == [type |-> "Name", id |-> id]
Number(i)            == [type |-> "Number", integer |-> i]
Text(s)              == [type |-> "Str", value |-> s]
SetTo(targets, v)    == [type |-> "Assign", targets |-> targets, value |-> v]
AddTo(target, v)     == [type |-> "AugAssign", op |-> "Add", target |-> target, value |-> v]
Ret(v)               == [type |-> "Return", value |-> v]
ExprStmt(e)          == [type |-> "ExpressionStatement", expr |-> e]
Comparison(l, ops, cs) == [type |-> "Compare", left |-> l, operators |-> ops, comparators |-> cs]
UnOp(op, e)          == [type |-> "UnaryOp", op |-> op, operand |-> e]
BinOp(op, l, r)      == [type |-> "BinOp", op |-> op, left |-> l, right |-> r]
BoolOp(op, values)   == [type |-> "BoolOp", op |-> op, values |-> values]
ListOf(elements)     == [type |-> "List", elements |-> elements]
TupleOf2(elements)   == [type |-> "Tuple", elements |-> elements]
DictOf(keys, values) == [type |-> "Dict", keys |-> keys, values |-> values]
IndexOf(v)           == [type |-> "Index", value |-> v]
Item(v, slice)       == [type |-> "Subscript", value |-> v, slice |-> slice]
Dot(v, attribute)    == [type |-> "Attribute", value |-> v, attribute |-> attribute]
CallOf(f, arguments) == [type |-> "Call", function |-> f, arguments |-> arguments]
If(test, body)       == [type |-> "If", test |-> test, body |-> body, orelse |-> Missing]
IfElse(test, body, orelse) == [type |-> "If", test |-> test, body |-> body, orelse |-> orelse]
For(target, iter, body)    == [type |-> "For", target |-> target, iter |-> iter, body |-> body]
WhileDo(test, body)  == [type |-> "While", test |-> test, body |-> body]
BreakStmt            == [type |-> "Break"]
ContinueStmt         == [type |-> "Continue"]
As(name, as_name)    == [type |-> "Alias", name |-> name, as_name |-> as_name]
ImportStmt(names)    == [type |-> "Import", names |-> names]
FromImport(module, names) == [type |-> "ImportFrom", module |-> module, names |-> names]

-----------------------------------------------------------------------------
(* Which trees there are. *)

\* Statements; all other trees are expressions.
StatementTrees ==
  { "Suite", "Assign", "AugAssign", "Return", "ExpressionStatement", "If", "For",
    "While", "Break", "Continue", "Import", "ImportFrom" }

\* The parts of a tree that may be statements ...
StatementParts(n) ==
  CASE n.type = "Suite"            -> Range(n.items)
    [] n.type = "If"               -> {n.body} \cup ({n.orelse} \ {Missing})
    [] n.type \in {"For", "While"} -> {n.body}
    [] OTHER                       -> {}

\* ... and those that are expressions.
ExpressionParts(n) ==
  CASE n.type = "ImportFrom"         -> {n.module, n.names}
    [] n.type = "Import"             -> {n.names}
    [] n.type = "Assign"             -> {n.value} \cup Range(n.targets)
    [] n.type = "AugAssign"          -> {n.target, n.value}
    [] n.type \in {"Return", "Index"} -> {n.value}
    [] n.type = "ExpressionStatement" -> {n.expr}
    [] n.type \in {"If", "While"}    -> {n.test}
    [] n.type = "For"                -> {n.target, n.iter}
    [] n.type = "Dict"               -> Range(n.keys) \cup Range(n.values)
    [] n.type = "Compare"            -> {n.left} \cup Range(n.comparators)
    [] n.type = "Call"               -> {n.function} \cup Range(n.arguments)
    [] n.type = "Attribute"          -> {n.value, n.attribute}
    [] n.type = "UnaryOp"            -> {n.operand}
    [] n.type = "BinOp"              -> {n.left, n.right}
    [] n.type = "BoolOp"             -> Range(n.values)
    [] n.type \in {"List", "Tuple"}  -> Range(n.elements)
    [] n.type = "Subscript"          -> {n.value, n.slice}
    [] OTHER                         -> {}

\* What pypa's classes and its grammar say of a tree.
IsTree(n) ==
  /\ \A m \in StatementParts(n) \cup ExpressionParts(n) : m \in Trees /\ Height[m] < Height[n]
  /\ \A m \in ExpressionParts(n) : m.type \notin StatementTrees
  /\ n.type \in {"For", "While"}    => n.body.type = "Suite"
  /\ n.type = "Suite"               => n.items \in Seq(Trees)
  /\ n.type = "Assign"              => n.targets \in Seq(Trees)
  /\ n.type \in {"List", "Tuple"}   => n.elements \in Seq(Trees)
  /\ n.type = "Call"                => n.arguments \in Seq(Trees)
  /\ n.type = "BoolOp"              => n.values \in Seq(Trees)
  /\ n.type = "Dict"                => /\ n.keys \in Seq(Trees) /\ n.values \in Seq(Trees)
                                      /\ Len(n.values) = Len(n.keys)
  /\ n.type = "Compare"             => /\ n.operators \in Seq(STRING)
                                      /\ n.comparators \in Seq(Trees)
                                      /\ Len(n.operators) = Len(n.comparators)
  /\ n.type \in {"UnaryOp", "BoolOp", "BinOp", "AugAssign"} => n.op \in STRING
  /\ n.type = "Name"                => n.id \in STRING
  /\ n.type = "Str"                 => n.value \in STRING
  /\ n.type = "Alias"               => n.name \in STRING /\ n.as_name \in STRING
  /\ n.type = "Number"              => n.integer \in Int

ASSUME TreesAreTrees == Height \in [Trees -> Nat] /\ \A n \in Trees : IsTree(n)

-----------------------------------------------------------------------------
(* Fields. *)

Field(kind, val) == [kind |-> kind, val |-> val, span |-> 1]

U32(n)    == <<Field("u32", n)>>
Chars(s)  == <<Field("str", s)>>
Oper(op)  == <<Field("op", op)>>
I32(i)    == <<Field("i32", Wrap(i))>>

\* A NodeType and what follows it, with the extent of the whole.
Node(type, rest) ==
  <<[kind |-> "node", val |-> type, span |-> 1 + Len(rest)]>> \o rest

\* What a loop of the compiler writes: the first n parts, one by one.
Joined(parts, n) ==
  LET upTo[i \in 0 .. n] == IF i = 0 THEN << >> ELSE upTo[i - 1] \o parts[i]
  IN  upTo[n]

\* std::runtime_error("Unknown statement type!"), or a null member
\* dereferenced: there is no byte code.
Refused == <<Field("refused", "Unknown statement type!")>>

(***************************************************************************)
(* Compiler::parse_next.  The operators take the function "enc" that gives *)
(* the fields of each tree, for the recursive calls.                       *)
(***************************************************************************)
EncodeAll(enc, trees) == Joined([i \in DOMAIN trees |-> enc[trees[i]]], Len(trees))

EncodeBoth(enc, keys, values) ==
  Joined([i \in DOMAIN keys |-> enc[keys[i]] \o enc[values[i]]], Len(keys))

EncodeChain(enc, ops, trees) ==
  Joined([i \in DOMAIN trees |-> Oper(ops[i]) \o enc[trees[i]]], Len(trees))

\* Mutant of EncodeList: the number of the elements is not written.
EncodeUncounted(enc, trees) == EncodeAll(enc, trees)

\* parse_expr_list and parse_stmt_list
EncodeList(enc, trees) == U32(Len(trees)) \o EncodeAll(enc, trees)

EncodeOperator(enc, n) ==
  Node(IF n.type = "BinOp" THEN "BinaryOp" ELSE n.type,
       Oper(n.op) \o CASE n.type = "UnaryOp" -> enc[n.operand]
                       [] n.type = "BoolOp"  -> EncodeList(enc, n.values)
                       [] n.type = "BinOp"   -> enc[n.left] \o enc[n.right])

\* The slice of a subscript comes before the value.
EncodeAccess(enc, n) ==
  Node(n.type, CASE n.type = "List"      -> EncodeList(enc, n.elements)
                 [] n.type = "Subscript" -> enc[n.slice] \o enc[n.value]
                 [] n.type = "Index"     -> enc[n.value])

EncodeLoop(enc, n) ==
  IF n.type = "For" THEN Node("ForLoop", enc[n.target] \o enc[n.iter] \o enc[n.body])
                    ELSE Node("WhileLoop", enc[n.test] \o enc[n.body])

ParseNext(enc, n) ==
  CASE n.type = "ImportFrom" -> Node("ImportFrom", enc[n.module] \o enc[n.names])
    [] n.type = "Import"     -> Node("Import", enc[n.names])
    [] n.type = "Alias"      -> Node("Alias", Chars(n.name) \o Chars(n.as_name))
    [] n.type = "Name"       -> Node("Name", Chars(n.id))
    [] n.type = "Assign"     -> Node("Assign", enc[n.value] \o EncodeList(enc, n.targets))
    [] n.type = "Suite"      -> Node("StatementList", EncodeList(enc, n.items))
    [] n.type = "Str"        -> Node("String", Chars(n.value))
    [] n.type = "Return"     -> Node("Return", enc[n.value])
    [] n.type = "Dict"       ->
         Node("Dictionary", U32(Len(n.keys)) \o EncodeBoth(enc, n.keys, n.values))
    [] n.type = "Compare"    ->
         Node("Compare", enc[n.left] \o U32(Len(n.comparators))
                           \o EncodeChain(enc, n.operators, n.comparators))
    [] n.type = "Number"     -> Node("Integer", I32(n.integer))
    [] n.type = "If" /\ n.orelse # Missing ->
         Node("IfElse", enc[n.test] \o enc[n.body] \o enc[n.orelse])
    [] n.type = "If" /\ n.orelse = Missing -> Node("If", enc[n.test] \o enc[n.body])
    [] n.type = "Call"       -> Node("Call", enc[n.function] \o EncodeList(enc, n.arguments))
    [] n.type = "Attribute"  -> Node("Attribute", enc[n.value] \o enc[n.attribute])
    [] n.type \in {"UnaryOp", "BoolOp", "BinOp"}  -> EncodeOperator(enc, n)
    [] n.type \in {"List", "Subscript", "Index"}  -> EncodeAccess(enc, n)
    [] n.type \in {"For", "While"}                -> EncodeLoop(enc, n)
    [] n.type = "AugAssign"  ->
         Node("AugmentedAssign", Oper(n.op) \o enc[n.target] \o enc[n.value])
    [] n.type = "ExpressionStatement" -> enc[n.expr]
    [] n.type = "Continue"   -> Node("Continue", << >>)
    [] n.type = "Break"      -> Node("Break", << >>)
    [] n.type = "Tuple"      -> Node("Tuple", EncodeList(enc, n.elements))
    [] OTHER                 -> Refused

Encode[n \in Trees] == ParseNext(Encode, n)

\* compile_code and compile_file write no code when parse_next throws.
Written(code) == IF \E i \in DOMAIN code : code[i].kind = "refused" THEN << >> ELSE code

Compile(module) == Written(Encode[module])

=============================================================================
