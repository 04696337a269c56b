--------------------------- MODULE MCInterpreter ---------------------------
(***************************************************************************)
(* Instances of Interpreter for TLC: the constants of Values and families  *)
(* of programs.  A run's cfg names the family; Programs is its byte code.  *)
(***************************************************************************)
EXTENDS Chipy, Python

\* A small int32_t, the strings of the programs, an arbitrary fixed draw.
MCIntMin        == -16
MCConcat(s, t)  == s \o t
MCToStr(i)      == ToString(i)
MCNumeral       == [s \in {"0", "1", "2", "3"} |->
                     CASE s = "0" -> 0 [] s = "1" -> 1 [] s = "2" -> 2 [] OTHER -> 3]
MCBefore(s, t)  == s = "a" /\ t # "a"     \* the keys used are a and b
MCRandInt(a, b) == a

-----------------------------------------------------------------------------
(* Syntax. *)

x == Name("x")
y == Name("y")
i_ == Name("i")
j_ == Name("j")
l_ == Name("l")
d_ == Name("d")
True_ == Name("True")
False_ == Name("False")
None_ == Name("None")
Num(n) == Number(n)
Minus(n) == UnOp("Sub", Num(n))

Set(target, e)  == SetTo(<<target>>, e)
Cmp(l, op, r)   == Comparison(l, <<op>>, <<r>>)
Fn(f, args)     == CallOf(Name(f), args)
Range_(n)       == Fn("range", <<Num(n)>>)
Do(s)           == Suite(<<s>>)
Both2(s, t)     == Suite(<<s, t>>)

\* All the combinations of the members of two sequences.
Cross(s, t, F(_, _)) ==
  [k \in 1 .. Len(s) * Len(t) |->
     F(s[(k - 1) \div Len(t) + 1], t[((k - 1) % Len(t)) + 1])]

-----------------------------------------------------------------------------
(* The property that compares the interpreter with the reference.          *)

\* execute() returns the Boolean that the program returns in Python 3, and
\* returns none where Python raises or returns something else.
AgreesWithPython ==
  outcome \notin {"idle", "running"} =>
    LET meaning == Meaning(Modules[prog])
    IN  IF meaning = "error" THEN outcome \notin {"true", "false"}
                             ELSE outcome = meaning

\* What is left of it for programs that raise or that chipy does not support:
\* one may be refused, but if it is answered then as Python does.  It holds of
\* the RefusedPrograms below; the programs at the end, one for each known wrong
\* answer, are not among them and violate it.
NeverWrong ==
  prog \notin HostedPrograms /\ outcome \in {"true", "false"}
    => outcome = Meaning(Modules[prog])

-----------------------------------------------------------------------------
(* Loops: every pair of statements below as the body of each kind of loop, *)
(* followed by each of two questions about the result.                     *)

InnerBreak == For(j_, Range_(2), Both2(If(Cmp(j_, "Equals", Num(1)), Do(BreakStmt)),
                                       AddTo(x, Num(1))))

LoopStatements ==
  << AddTo(x, Num(1)),
     AddTo(x, i_),
     Set(y, BinOp("Add", x, i_)),
     If(Cmp(x, "More", Num(1)), Do(BreakStmt)),
     IfElse(Cmp(i_, "Less", Num(1)), Do(AddTo(x, Num(1))), Do(AddTo(x, Num(2)))),
     IfElse(Cmp(x, "Equals", i_), Both2(AddTo(x, Num(1)), BreakStmt),
            If(True_, Do(BreakStmt))),
     InnerBreak >>

Bodies == Cross(LoopStatements, LoopStatements, Both2)

Iterables == << Range_(3), ListOf(<<Num(1), Num(0)>>) >>

\* The body of a while loop must come to an end without break.
WhileStatements ==
  << Set(y, x),
     If(Cmp(x, "Equals", Num(1)), Do(Set(y, Num(2)))),
     IfElse(Cmp(y, "Less", Num(1)), Do(Set(y, Num(2))), Do(Set(x, BinOp("Add", x, Num(1))))),
     InnerBreak >>

Whiles ==
  [k \in DOMAIN WhileStatements |->
     WhileDo(Cmp(x, "Less", Num(3)),
             Both2(WhileStatements[k], Set(x, BinOp("Add", x, Num(1)))))]

Fors == Cross(Iterables, Bodies, LAMBDA e, b : For(i_, e, b))

Questions == << Cmp(x, "More", Num(2)), Cmp(y, "Equals", Num(2)) >>

LoopPrograms ==
  Cross(Fors \o Whiles, Questions,
        LAMBDA loop, q : Suite(<<Set(x, Num(0)), Set(y, Num(0)), loop, Ret(q)>>))

-----------------------------------------------------------------------------
(* Expressions: conditions over an integer, a string, a list and a         *)
(* dictionary, alone, negated and combined.                                *)

Str_(s) == Text(s)

Conditions ==
  << Cmp(x, "Less", Num(2)), Cmp(Num(2), "LessEqual", x), Cmp(x, "NotEqual", Minus(1)),
     Cmp(BinOp("Mult", x, Num(2)), "MoreEqual", BinOp("Sub", Num(5), x)),
     Cmp(x, "In", l_), Cmp(Str_("b"), "NotIn", ListOf(<<Num(1), Str_("b")>>)),
     Cmp(Item(l_, IndexOf(Num(1))), "Equals", x),
     Cmp(Item(d_, IndexOf(Str_("a"))), "Equals", BinOp("Add", Str_("b"), Str_("a"))),
     Cmp(BinOp("Add", Fn("int", <<Str_("1")>>), Fn("int", <<x>>)), "More", Num(2)),
     Cmp(BinOp("Add", Fn("str", <<x>>), Fn("str", <<Str_("a")>>)), "Equals", Str_("1a")),
     True_, UnOp("Not", True_) >>

Prelude(n) ==
  << Set(x, Num(n)), Set(l_, ListOf(<<Num(1), x>>)),
     Set(d_, DictOf(<<Str_("a"), Str_("b")>>, <<Str_("ba"), Num(3)>>)) >>

Negations   == [k \in DOMAIN Conditions |-> UnOp("Not", Conditions[k])]
Junctions   ==
  Cross(Conditions, Conditions, LAMBDA e, f : BoolOp("And", <<e, f, True_>>)) \o
  Cross(Conditions, Conditions, LAMBDA e, f : BoolOp("Or", <<e, False_, f>>))

\* The same conditions to choose between statements, one of them skipped.
Branches ==
  [k \in DOMAIN Conditions |->
     IfElse(Conditions[k], Both2(If(Num(1), Ret(True_)), Ret(False_)),
            Both2(If(Num(0), Ret(True_)), Ret(False_)))]

ExpressionPrograms ==
  Cross(<<1, 2>>, Conditions \o Negations \o Junctions,
        LAMBDA n, e : Suite(Append(Prelude(n), Ret(e)))) \o
  Cross(<<1, 2>>, Branches, LAMBDA n, s : Suite(Append(Prelude(n), s)))

-----------------------------------------------------------------------------
(* Statements of every kind, executed, and in both places where they are   *)
(* skipped: in a branch not taken and after a return.                      *)

k_ == Name("k")
v_ == Name("v")
ItemsOf(d) == CallOf(Dot(d, Name("items")), << >>)
Pair_      == TupleOf2(<<k_, v_>>)

Setup ==
  << Set(x, Num(1)), Set(y, Str_("a")), Set(l_, ListOf(<<Num(2), Num(1)>>)),
     Set(d_, DictOf(<<Str_("a"), Str_("b")>>, <<Num(2), Num(0)>>)) >>

StatementKinds ==
  << For(Pair_, ItemsOf(d_), Both2(AddTo(x, v_), If(Cmp(k_, "Equals", y), Do(BreakStmt)))),
     For(j_, ItemsOf(d_), Both2(Set(Pair_, j_), AddTo(x, v_))),
     For(j_, l_, Do(Set(y, j_))),
     For(j_, l_, Do(For(i_, Range_(1), Both2(AddTo(x, j_), BreakStmt)))),
     SetTo(<<x, y>>, Item(l_, IndexOf(Num(0)))),
     SetTo(<<y, l_>>, DictOf(<<Str_("a"), Str_("b")>>, <<None_, BinOp("Add", x, Num(1))>>)),
     IfElse(Cmp(x, "Equals", Num(2)), Do(AddTo(x, Num(1))), Do(Set(x, UnOp("Sub", x)))),
     If(UnOp("Not", False_), Both2(Set(x, BinOp("Mult", x, Num(3))), Set(y, x))),
     Set(y, BoolOp("And", <<Cmp(x, "In", l_), Cmp(y, "NotEqual", Str_("b"))>>)),
     ExprStmt(Fn("print", <<Fn("str", <<x>>)>>)),
     Ret(Comparison(x, <<"Equals">>, <<Num(3)>>)) >>

Done_ == Ret(Cmp(x, "LessEqual", Num(1)))

Executed  == [k \in DOMAIN StatementKinds |-> Suite(Setup \o <<StatementKinds[k], Done_>>)]
NotTaken  == [k \in DOMAIN StatementKinds |->
                Suite(Setup \o <<If(False_, Do(StatementKinds[k])), Done_>>)]
AfterBreak == [k \in DOMAIN StatementKinds |->
                Suite(Setup \o <<For(i_, Range_(2), Both2(BreakStmt, StatementKinds[k])), Done_>>)]
Returned  == [k \in DOMAIN StatementKinds |->
                Suite(Setup \o << If(True_, Both2(Done_, StatementKinds[k])),
                                  StatementKinds[k], Set(x, Num(5)) >>)]

StatementPrograms == Executed \o NotTaken \o AfterBreak \o Returned

SupportedPrograms == LoopPrograms \o ExpressionPrograms \o StatementPrograms


-----------------------------------------------------------------------------
(* Programs that end in an exception or in undefined behaviour: in Python  *)
(* too, or because chipy does not support what they do.                    *)

BadExpressions ==
  << Name("nosuch"), BinOp("Add", x, y), BinOp("Sub", x, None_), BinOp("Sub", y, y),
     BinOp("Mult", x, y), BinOp("Mult", None_, x), BinOp("Add", None_, x), BinOp("Div", x, x),
     UnOp("Sub", y), UnOp("Sub", True_), UnOp("Invert", x),
     Item(l_, IndexOf(Num(2))), Cmp(Item(l_, IndexOf(Minus(1))), "Equals", x), Item(x, IndexOf(Num(0))), Item(None_, IndexOf(Num(0))),
     Dot(x, Name("items")), Dot(None_, Name("items")),
     CallOf(x, << >>), CallOf(None_, << >>), Fn("range", <<y>>), Fn("range", << >>),
     Fn("int", <<l_>>), Fn("str", <<l_>>), Fn("str", <<None_>>), Fn("print", <<x>>),
     CallOf(Dot(d_, Name("items")), <<x>>),
     Cmp(x, "In", y), Cmp(x, "In", None_), Cmp(x, "Is", y), Cmp(None_, "Less", x),
     Cmp(None_, "Equals", None_), Cmp(x, "MoreEqual", None_),
     BoolOp("And", <<x, True_>>), BoolOp("Or", <<None_, Num(1)>>), BoolOp("Or", <<None_, True_>>),
     TupleOf2(<<x, y>>), x >>

BadStatements ==
  << For(i_, x, Do(Set(y, i_))), For(i_, None_, Do(Set(y, i_))),
     For(Pair_, l_, Do(Set(y, k_))), For(TupleOf2(<<x, y, k_>>), l_, Do(Set(y, k_))),
     Set(Pair_, x), Set(Pair_, None_), Set(TupleOf2(<<x, y, k_>>), l_), Set(Item(l_, IndexOf(x)), x),
     AddTo(y, Num(1)), AddTo(Item(l_, IndexOf(x)), Num(1)),
     [type |-> "AugAssign", op |-> "Sub", target |-> x, value |-> Num(1)],
     IfElse(x, Do(Set(y, x)), Do(Set(y, x))), IfElse(None_, Do(Set(y, x)), Do(Set(y, x))),
     If(None_, Do(Set(y, x))), BreakStmt, ContinueStmt,
     If(False_, Do(WhileDo(True_, Do(BreakStmt)))),
     ImportStmt(As("nosuch", "")), FromImport(Name("rand"), As("nosuch", "")),
     AddTo(x, Num(15)), WhileDo(True_, Do(Set(y, Num(1)))) >>

RefusedPrograms ==
  [k \in DOMAIN BadExpressions |-> Suite(Setup \o <<Ret(BadExpressions[k])>>)] \o
  [k \in DOMAIN BadStatements |-> Suite(Setup \o <<BadStatements[k], Ret(True_)>>)]

-----------------------------------------------------------------------------
(* Programs that use what the host has set: a string x, a list l, and the  *)
(* module foo.                                                             *)

HostPrograms ==
  << Do(Ret(Cmp(x, "In", l_))),
     Suite(<<ImportStmt(As("rand", "")), ImportStmt(As("rand", "j")),
             FromImport(Name("foo"), As("double", "")), ImportStmt(As("foo", "k")),
             Set(y, CallOf(Dot(j_, Name("randint")), <<Num(1), CallOf(Dot(k_, Name("get")), << >>)>>)),
             FromImport(Name("rand"), As("randint", "i")),
             Ret(Cmp(CallOf(Name("double"), <<y>>), "Equals",
                     BinOp("Mult", CallOf(i_, <<Num(1), Num(2)>>), Num(2))))>>) >>

EmbeddedPrograms == HostPrograms \o RefusedPrograms

\* Program 1, "return x in l", answers whether the string that the host left
\* under x is in the list that it left under l, whatever it set before, and
\* gives no answer unless both are there.  This looks at what the global scope
\* holds in the end; that it is what was set last is LastPresetWins.
AnswersFromPresets ==
  prog = 1 /\ outcome \notin {"idle", "running"} =>
    LET set(name, type) == /\ name \in DOMAIN scopes[1].values
                           /\ Is(heap, scopes[1].values[name], type)
        text == heap[scopes[1].values["x"]].val
        list == heap[scopes[1].values["l"]].val
    IN  IF set("x", "String") /\ set("l", "List")
        THEN outcome = IF \E i \in DOMAIN list : heap[list[i]].val = text
                       THEN "true" ELSE "false"
        ELSE outcome \notin {"true", "false"} \/ set("x", "List")

-----------------------------------------------------------------------------
(* One program for each finding. *)

\* for i in range(3):
\*   if i == 0: continue
\*   x += 1
ContinueProgram ==
  << Suite(<<Set(x, Num(0)),
             For(i_, Range_(3), Both2(If(Cmp(i_, "Equals", Num(0)), Do(ContinueStmt)),
                                      AddTo(x, Num(1)))),
             Ret(Cmp(x, "Equals", Num(2)))>>) >>

\* for i in range(3):
\*   if i == 1: return True
ReturnProgram ==
  << Suite(<<For(i_, Range_(3), Do(If(Cmp(i_, "Equals", Num(1)), Do(Ret(True_))))),
             Ret(False_)>>) >>

\* while True:
\*   x += 1
\*   break
BreakProgram ==
  << Suite(<<Set(x, Num(0)), WhileDo(True_, Both2(AddTo(x, Num(1)), BreakStmt)),
             Ret(Cmp(x, "Equals", Num(1)))>>) >>

\* y = x
\* x += 1
AliasProgram ==
  << Suite(<<Set(x, Num(1)), Set(y, x), AddTo(x, Num(1)), Ret(Cmp(y, "Equals", Num(1)))>>) >>

\* for k, v in {'a': 1}.items(): ...
TemporaryProgram ==
  << Suite(<<Set(x, Num(0)), For(Pair_, ItemsOf(DictOf(<<Str_("a")>>, <<Num(1)>>)),
                                 Do(AddTo(x, v_))), Ret(Cmp(x, "Equals", Num(1)))>>) >>

-----------------------------------------------------------------------------
(* The trees of the programs with their parts, how many levels each has,   *)
(* and the byte code.                                                      *)

PartsOf(n) == StatementParts(n) \cup ExpressionParts(n)

MaxLevels == 12   \* bound: no tree of the runs has more

AllTrees ==
  LET level[k \in 0 .. MaxLevels] ==
        IF k = 0 THEN <<Range(Modules)>>
        ELSE LET upper == level[k - 1]
             IN  Append(upper, UNION {PartsOf(n) : n \in upper[k]})
  IN  UNION Range(level[MaxLevels])

Levels[n \in AllTrees] == Max({0} \cup { 1 + Levels[m] : m \in PartsOf(n) })

MCTrees  == AllTrees
MCHeight == Levels

CompiledPrograms == CompileAll(Modules)
MCPrograms       == CompiledPrograms

=============================================================================
