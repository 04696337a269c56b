------------------------------- MODULE Python -------------------------------
(***************************************************************************)
(* What Python 3 (the language the compiler asks pypa to parse) makes of   *)
(* the programs of the model: a reference interpreter over syntax trees,   *)
(* independent of the byte code, the cursor, the scopes and the objects.   *)
(*                                                                         *)
(* Nothing in the language chipy accepts changes a list or a dictionary,   *)
(* so values are plain, and a map of variables is all the state there is.  *)
(* A program is the body of a function: what it returns is what counts.    *)
(*                                                                         *)
(* The module is for TLC's runs only; its operators are recursive.         *)
(***************************************************************************)
EXTENDS Integers, Sequences, FiniteSets, TLC

\* Values, tagged so that any two can be compared.
PyBool(b)    == [t |-> "bool",  v |-> IF b THEN 1 ELSE 0]
PyInt(i)     == [t |-> "int",   v |-> i]
PyStr(s)     == [t |-> "str",   s |-> s]
PySeq(s)     == [t |-> "seq",   elems |-> s]      \* a list, a tuple or a range
PyDict(k, v) == [t |-> "dict",  keys |-> k, elems |-> v]
PyFun(f)     == [t |-> "fun",   f |-> f]
PyNone       == [t |-> "none"]
PyError      == [t |-> "error"]

Fails(v) == v.t = "error"
IsNum(v) == v.t \in {"bool", "int"}

Truthy(v) ==
  CASE IsNum(v)        -> v.v # 0
    [] v.t = "none"    -> FALSE
    [] v.t = "str"     -> v.s # ""
    [] v.t = "seq"     -> v.elems # << >>
    [] v.t = "dict"    -> v.keys # << >>
    [] OTHER           -> TRUE

PyEq(v, w) == IF IsNum(v) /\ IsNum(w) THEN v.v = w.v ELSE v.t = w.t /\ v = w

PyCompare(op, v, w) ==
  CASE op = "Equals"   -> PyBool(PyEq(v, w))
    [] op = "NotEqual" -> PyBool(~ PyEq(v, w))
    [] op \in {"In", "NotIn"} /\ w.t = "seq" ->
         PyBool((\E i \in DOMAIN w.elems : PyEq(v, w.elems[i])) = (op = "In"))
    [] op = "Less" /\ IsNum(v) /\ IsNum(w)      -> PyBool(v.v < w.v)
    [] op = "LessEqual" /\ IsNum(v) /\ IsNum(w) -> PyBool(v.v <= w.v)
    [] op = "More" /\ IsNum(v) /\ IsNum(w)      -> PyBool(v.v > w.v)
    [] op = "MoreEqual" /\ IsNum(v) /\ IsNum(w) -> PyBool(v.v >= w.v)
    [] OTHER -> PyError

PyArith(op, v, w) ==
  CASE op = "Add" /\ IsNum(v) /\ IsNum(w)  -> PyInt(v.v + w.v)
    [] op = "Sub" /\ IsNum(v) /\ IsNum(w)  -> PyInt(v.v - w.v)
    [] op = "Mult" /\ IsNum(v) /\ IsNum(w) -> PyInt(v.v * w.v)
    [] op = "Add" /\ v.t = "str" /\ w.t = "str" -> PyStr(v.s \o w.s)
    [] OTHER -> PyError

PyItem(v, k) ==
  CASE v.t = "seq" /\ IsNum(k) ->
         LET n == Len(v.elems)
             i == IF k.v < 0 THEN k.v + n + 1 ELSE k.v + 1
         IN  IF i \in 1 .. n THEN v.elems[i] ELSE PyError
    [] v.t = "dict" /\ (\E i \in DOMAIN v.keys : PyEq(v.keys[i], k)) ->
         v.elems[CHOOSE i \in DOMAIN v.keys : PyEq(v.keys[i], k)]
    [] OTHER -> PyError

PyCall(f, args) ==
  CASE f.t # "fun" -> PyError
    [] f.f[1] = "range" /\ Len(args) = 1 /\ IsNum(args[1]) ->
         PySeq([i \in 1 .. args[1].v |-> PyInt(i - 1)])
    [] f.f[1] = "str" /\ Len(args) = 1 /\ args[1].t = "str" -> args[1]
    [] f.f[1] = "str" /\ Len(args) = 1 /\ args[1].t = "int" -> PyStr(ToString(args[1].v))
    [] f.f[1] = "int" /\ Len(args) = 1 /\ IsNum(args[1]) -> PyInt(args[1].v)
    [] f.f[1] = "int" /\ Len(args) = 1 /\ args[1].t = "str" /\
         (\E i \in 0 .. 9 : ToString(i) = args[1].s) ->
         PyInt(CHOOSE i \in 0 .. 9 : ToString(i) = args[1].s)
    [] f.f[1] = "print" -> PyNone
    [] f.f[1] = "items" /\ args = << >> ->
         PySeq([i \in DOMAIN f.f[2].keys |-> PySeq(<<f.f[2].keys[i], f.f[2].elems[i]>>)])
    [] OTHER -> PyError

\* What a for loop iterates over, or << >> and a failure.
Iterable(v) == v.t \in {"seq", "dict"}
ElementsOf(v) == IF v.t = "dict" THEN v.keys ELSE v.elems

RECURSIVE Eval(_, _), EvalAll(_, _), EvalChain(_, _, _, _, _), EvalBool(_, _, _, _)

\* The value of the expression e in the environment env.
Eval(e, env) ==
  CASE e.type = "Number" -> PyInt(e.integer)
    [] e.type = "Str"    -> PyStr(e.value)
    [] e.type = "Name" /\ e.id \in {"True", "False"} -> PyBool(e.id = "True")
    [] e.type = "Name" /\ e.id = "None" -> PyNone
    [] e.type = "Name" /\ e.id \in DOMAIN env -> env[e.id]
    [] e.type = "Name" /\ e.id \in {"range", "str", "int", "print"} -> PyFun(<<e.id>>)
    [] e.type \in {"List", "Tuple"} ->
         LET vs == EvalAll(e.elements, env)
         IN  IF \E i \in DOMAIN vs : Fails(vs[i]) THEN PyError ELSE PySeq(vs)
    [] e.type = "Dict" ->
         LET ks == EvalAll(e.keys, env)
             vs == EvalAll(e.values, env)
         IN  IF \E i \in DOMAIN ks : Fails(vs[i]) \/ ks[i].t # "str" THEN PyError
             ELSE PyDict(ks, vs)
    [] e.type = "UnaryOp" ->
         LET v == Eval(e.operand, env)
         IN  CASE Fails(v)                    -> PyError
               [] e.op = "Not" /\ ~ Fails(v)  -> PyBool(~ Truthy(v))
               [] e.op = "Sub" /\ IsNum(v)    -> PyInt(-1 * v.v)
               [] OTHER                       -> PyError
    [] e.type = "BinOp"   -> PyArith(e.op, Eval(e.left, env), Eval(e.right, env))
    [] e.type = "BoolOp"  -> EvalBool(e.op, e.values, 1, env)
    [] e.type = "Compare" ->
         EvalChain(Eval(e.left, env), e.operators, e.comparators, 1, env)
    [] e.type = "Index"     -> Eval(e.value, env)
    [] e.type = "Subscript" -> PyItem(Eval(e.value, env), Eval(e.slice, env))
    [] e.type = "Attribute" ->
         LET v == Eval(e.value, env)
         IN  IF v.t = "dict" /\ e.attribute.id = "items" THEN PyFun(<<"items", v>>) ELSE PyError
    [] e.type = "Call" ->
         LET f  == Eval(e.function, env)
             vs == EvalAll(e.arguments, env)
         IN  IF \E i \in DOMAIN vs : Fails(vs[i]) THEN PyError ELSE PyCall(f, vs)
    [] OTHER -> PyError

EvalAll(es, env) == [i \in DOMAIN es |-> Eval(es[i], env)]

\* a op b op c ... is (a op b) and (b op c) and ...
EvalChain(v, ops, es, i, env) ==
  LET w == Eval(es[i], env)
      r == IF Fails(v) \/ Fails(w) THEN PyError ELSE PyCompare(ops[i], v, w)
  IN  IF Fails(r) \/ ~ Truthy(r) \/ i = Len(es) THEN r
      ELSE EvalChain(w, ops, es, i + 1, env)

EvalBool(op, es, i, env) ==
  LET v == Eval(es[i], env)
  IN  IF Fails(v) \/ i = Len(es) \/ Truthy(v) = (op = "Or") THEN v
      ELSE EvalBool(op, es, i + 1, env)

-----------------------------------------------------------------------------
(* Statements: the environment and the flow of control they lead to. *)

State(env, flow, val) == [env |-> env, flow |-> flow, val |-> val]
Normally(env) == State(env, "next", PyNone)
Raised(env)   == State(env, "raise", PyError)

Store(env, x, v) == (x :> v) @@ env

\* Assignment of v to a name or to a pair of names.
StoreTo(target, v, env) ==
  CASE target.type = "Name" -> Normally(Store(env, target.id, v))
    [] target.type = "Tuple" /\ v.t = "seq" /\ Len(target.elements) = 2 ->
         IF Len(v.elems) # 2 THEN Raised(env)
         ELSE Normally(Store(Store(env, target.elements[1].id, v.elems[1]),
                             target.elements[2].id, v.elems[2]))
    [] OTHER -> Raised(env)

RECURSIVE Exec(_, _), ExecFrom(_, _, _), ExecFor(_, _, _, _, _), StoreAll(_, _, _, _)

ExecFrom(items, i, env) ==
  IF i > Len(items) THEN Normally(env)
  ELSE LET s == Exec(items[i], env)
       IN  IF s.flow = "next" THEN ExecFrom(items, i + 1, s.env) ELSE s

ExecFor(n, elems, i, env, body) ==
  IF i > Len(elems) THEN Normally(env)
  ELSE LET bound == StoreTo(n.target, elems[i], env)
           s == IF bound.flow = "next" THEN Exec(body, bound.env) ELSE bound
       IN  CASE s.flow = "break"               -> Normally(s.env)
             [] s.flow \in {"next", "continue"} -> ExecFor(n, elems, i + 1, s.env, body)
             [] OTHER                          -> s

StoreAll(targets, i, v, env) ==
  IF i > Len(targets) THEN Normally(env)
  ELSE LET s == StoreTo(targets[i], v, env)
       IN  IF s.flow = "next" THEN StoreAll(targets, i + 1, v, s.env) ELSE s

Exec(n, env) ==
  CASE n.type = "Suite" -> ExecFrom(n.items, 1, env)
    [] n.type = "Assign" ->
         LET v == Eval(n.value, env)
         IN  IF Fails(v) THEN Raised(env) ELSE StoreAll(n.targets, 1, v, env)
    [] n.type = "AugAssign" ->
         LET v == PyArith(n.op, Eval(n.target, env), Eval(n.value, env))
         IN  IF Fails(v) THEN Raised(env) ELSE StoreTo(n.target, v, env)
    [] n.type = "Return" ->
         LET v == Eval(n.value, env)
         IN  IF Fails(v) THEN Raised(env) ELSE State(env, "return", v)
    [] n.type = "If" ->
         LET v == Eval(n.test, env)
         IN  CASE Fails(v)                          -> Raised(env)
               [] ~ Fails(v) /\ Truthy(v)           -> Exec(n.body, env)
               [] ~ Fails(v) /\ ~ Truthy(v) /\ n.orelse.type # "Missing" -> Exec(n.orelse, env)
               [] OTHER                             -> Normally(env)
    [] n.type = "For" ->
         LET v == Eval(n.iter, env)
         IN  IF Iterable(v) THEN ExecFor(n, ElementsOf(v), 1, env, n.body) ELSE Raised(env)
    [] n.type = "While" ->
         LET v == Eval(n.test, env)
             s == Exec(n.body, env)
         IN  CASE Fails(v)                     -> Raised(env)
               [] ~ Fails(v) /\ ~ Truthy(v)    -> Normally(env)
               [] s.flow = "break"             -> Normally(s.env)
               [] s.flow \in {"next", "continue"} -> Exec(n, s.env)
               [] OTHER                        -> s
    [] n.type = "Break"    -> State(env, "break", PyNone)
    [] n.type = "Continue" -> State(env, "continue", PyNone)
    [] n.type = "ExpressionStatement" ->
         IF Fails(Eval(n.expr, env)) THEN Raised(env) ELSE Normally(env)
    [] OTHER -> Raised(env)

(***************************************************************************)
(* How execute() should end: with the Boolean that the program returns,    *)
(* with an error (of any kind), or with a result that is not a Boolean.    *)
(***************************************************************************)
Meaning(module) ==
  LET s == Exec(module, [x \in {} |-> PyNone])
  IN  CASE s.flow = "return" /\ s.val.t = "bool" -> IF s.val.v = 1 THEN "true" ELSE "false"
        [] OTHER -> "error"

=============================================================================
