------------------------------ MODULE Bytecode ------------------------------
(***************************************************************************)
(* The byte code that the compiler writes and the interpreter reads.       *)
(*                                                                         *)
(* A program is a sequence of fields, the way Compiler writes them to a    *)
(* BitStream: a NodeType, then the node's own fields (32-bit counts,       *)
(* strings, operator codes, 32-bit integers) interleaved with its          *)
(* children.  Three pieces of C++ must agree on this layout node by node:  *)
(* Compiler::parse_next, Interpreter::execute_next and                     *)
(* Interpreter::skip_next.  The last two are given here as tables: for     *)
(* each node type, the sequence of steps its case of the switch performs.  *)
(***************************************************************************)
EXTENDS Integers, Sequences

NodeTypes ==
  { "StatementList", "Name", "Assign", "Return", "String", "Compare",
    "Dictionary", "Integer", "IfElse", "If", "Call", "Attribute", "UnaryOp",
    "BinaryOp", "BoolOp", "List", "Tuple", "Subscript", "Index", "ForLoop",
    "WhileLoop", "AugmentedAssign", "Continue", "Break", "Import",
    "ImportFrom", "Alias" }

\* What a loop_state variable can hold.
LoopStates == { "None", "TopLevel", "Normal", "Break", "Continue" }

(***************************************************************************)
(* One field of the stream.  "span" is a ghost: on a node field it is the  *)
(* number of fields of the whole node, children included, on the others 1. *)
(* The interpreter never reads it; properties compare the cursor with it.  *)
(***************************************************************************)
FieldKinds == { "node", "u32", "str", "op", "i32" }

IsField(f) ==
  /\ f.kind \in FieldKinds
  /\ f.span \in Nat \ {0}
  /\ f.kind = "node" => f.val \in NodeTypes
  /\ f.kind = "u32"  => f.val \in Nat
  /\ f.kind = "i32"  => f.val \in Int
  /\ f.kind \in {"str", "op"} => f.val \in STRING

(***************************************************************************)
(* execute_next, case by case.  The steps that run a child node:           *)
(*   expr     execute_next with the handler's dummy_loop_state             *)
(*   test     the condition of an If or IfElse: execute_next with the      *)
(*            handler's own loop_state                                     *)
(*   branch   the chosen branch, also with the handler's own loop_state    *)
(*   stmt     an item of a StatementList, executed or skipped              *)
(*   body     a loop body, with the loop's for_loop_state                  *)
(* Steps named in Repeats read a count and repeat the steps listed there;  *)
(* every other step is an action of module Interpreter.                    *)
(* A Tuple has no case: it is an assignment target only.                   *)
(***************************************************************************)
Handler ==
  [ ImportFrom      |-> <<"name", "expr", "load", "member", "bind">>,
    Import          |-> <<"expr", "load", "bind">>,
    Alias           |-> <<"alias">>,
    Attribute       |-> <<"expr", "name", "attribute">>,
    Name            |-> <<"lookup">>,
    Continue        |-> <<"continue">>,
    Break           |-> <<"break">>,
    Assign          |-> <<"expr", "targets">>,
    StatementList   |-> <<"stmts">>,
    UnaryOp         |-> <<"op", "expr", "unary">>,
    BoolOp          |-> <<"op", "conditions", "undecided">>,
    BinaryOp        |-> <<"op", "expr", "expr", "binary">>,
    Return          |-> <<"expr", "terminate">>,
    List            |-> <<"list", "elements">>,
    String          |-> <<"string">>,
    Compare         |-> <<"expr", "comparisons">>,
    Index           |-> <<"expr">>,
    Integer         |-> <<"integer">>,
    Call            |-> <<"expr", "callable", "args", "call">>,
    If              |-> <<"test", "choose">>,
    IfElse          |-> <<"test", "choose">>,
    Dictionary      |-> <<"dictionary", "entries">>,
    Subscript       |-> <<"expr", "expr", "subscript">>,
    WhileLoop       |-> <<"expr", "while">>,
    ForLoop         |-> <<"names", "expr", "iterate", "next">>,
    AugmentedAssign |-> <<"op", "fetch", "expr", "augment">> ]

(***************************************************************************)
(* skip_next, case by case.  "skip" is the recursive call; the steps that  *)
(* begin with "drop" read one field (or the names of a loop target) and    *)
(* ignore it.  WhileLoop, Import, ImportFrom and Alias have no case.       *)
(***************************************************************************)
Skipper ==
  [ Name            |-> <<"dropString">>,
    ForLoop         |-> <<"dropNames", "skip", "skip">>,
    Assign          |-> <<"skip", "skips">>,
    StatementList   |-> <<"skips">>,
    Index           |-> <<"skip">>,
    Return          |-> <<"skip">>,
    String          |-> <<"dropString">>,
    Compare         |-> <<"skip", "skippedComparisons">>,
    Integer         |-> <<"dropInteger">>,
    Call            |-> <<"skip", "skips">>,
    IfElse          |-> <<"skip", "skip", "skip">>,
    List            |-> <<"skips">>,
    Tuple           |-> <<"skips">>,
    Dictionary      |-> <<"skippedEntries">>,
    UnaryOp         |-> <<"dropOp", "skip">>,
    BoolOp          |-> <<"dropOp", "skips">>,
    AugmentedAssign |-> <<"dropOp", "skip", "skip">>,
    BinaryOp        |-> <<"dropOp", "skip", "skip">>,
    If              |-> <<"skip", "skip">>,
    Attribute       |-> <<"skip", "skip">>,
    Subscript       |-> <<"skip", "skip">>,
    Break           |-> << >>,
    Continue        |-> << >> ]

\* How skip_next passes one comparison of a chain: the operator, the operand.
\* (OperandOnly, a mutant of it, forgets the operator.)
OperandOnly    == <<"skip">>
SkipComparison == <<"dropOp", "skip">>

\* The bodies of the handlers' counted for-loops.
Repeats ==
  [ stmts              |-> <<"stmt">>,
    targets            |-> <<"target">>,
    args               |-> <<"expr">>,
    elements           |-> <<"expr", "append">>,
    entries            |-> <<"name", "expr", "insert">>,
    comparisons        |-> <<"op", "expr", "compare">>,
    conditions         |-> <<"expr", "decide">>,
    skips              |-> <<"skip">>,
    skippedEntries     |-> <<"skip", "skip">>,
    skippedComparisons |-> SkipComparison ]

ChildSteps == { "expr", "test", "branch", "stmt", "body" }

\* A step that ignores one field, and the kind of field it reads.
Dropped == [ dropString |-> "str", dropInteger |-> "i32", dropOp |-> "op" ]

Steps ==
  ChildSteps \cup DOMAIN Repeats \cup DOMAIN Dropped \cup
  { "skip", "dropNames", "op", "name", "names", "lookup", "string", "integer",
    "alias", "list", "dictionary", "append", "insert", "target", "unary",
    "binary", "compare", "subscript", "attribute", "decide", "undecided",
    "decided", "callable", "call", "choose", "iterate", "next", "while",
    "again", "fetch", "augment", "terminate", "break", "continue", "load",
    "member", "bind" }

\* n copies of the steps s, one after the other.
Times(n, s) == [i \in 1 .. n * Len(s) |-> s[((i - 1) % Len(s)) + 1]]

\* What the next field must be for a step to read it the way it was written;
\* "any" when the step reads nothing, or starts a new iteration elsewhere.
FieldRead(step) ==
  CASE step \in ChildSteps \cup {"skip", "name", "names", "dropNames",
                                 "fetch", "target"}   -> "node"
    [] step \in DOMAIN Repeats                        -> "u32"
    [] step \in DOMAIN Dropped                        -> Dropped[step]
    [] step = "op"                                    -> "op"
    [] step \in {"lookup", "string", "alias"}         -> "str"
    [] step = "integer"                               -> "i32"
    [] OTHER                                          -> "any"

=============================================================================
