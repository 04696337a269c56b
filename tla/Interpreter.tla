---------------------------- MODULE Interpreter ----------------------------
(***************************************************************************)
(* The interpreter of chipy: one Interpreter object, its program, its      *)
(* scopes and its objects.                                                 *)
(*                                                                         *)
(* The C++ interpreter recurses on the byte code: execute_next reads a     *)
(* node, runs the node's children through itself, and moves the cursor     *)
(* back to the node's start when it leaves with a loop_state other than    *)
(* None and Normal.  Here the recursion is a stack of frames, one for each *)
(* activation of execute_next, and a step is one entry of the tables of    *)
(* module Bytecode.  A frame that waits for a child keeps the child's step *)
(* at the head of "todo" until the child returns; skip_next, which has no  *)
(* state but the cursor, is unfolded in the "todo" of its caller.          *)
(***************************************************************************)
EXTENDS Bytecode, Values, SequencesExt

CONSTANTS
  Programs,      \* the programs (sequences of fields), numbered
  ArenaObjects,  \* how many objects a run may make: a bound of the model
  HostedPrograms, \* the programs whose host sets names and modules first
  HostNames,     \* the names that the host may set
  HostTexts,     \* the strings that it may set them to
  HostModules,   \* the modules that it may provide (not one called rand)
  HostObjects    \* bound: the host adds no object beyond this one

IsCode(c) == \A p \in DOMAIN c : IsField(c[p])

ASSUME ProgramsAreCode == \A i \in DOMAIN Programs : IsCode(Programs[i])

ASSUME Sizes == ArenaObjects \in Nat /\ HostObjects \in Nat

ASSUME HostPresets ==
  /\ HostNames \in SUBSET STRING
  /\ HostModules \in SUBSET STRING /\ "rand" \notin HostModules

VARIABLES
  prog,      \* the program that this interpreter was built with
  code,      \* its fields, in m_data
  pos,       \* the cursor of m_data, the number of the next field
  stack,     \* the activations of execute_next, the innermost one last
  scopes,    \* the chain of scopes, m_global_scope first
  heap,      \* the live objects
  brk,       \* m_buffer_pos: the objects allocated so far
  modules,   \* m_loaded_modules
  outcome    \* "idle", "running", or how execute() ended

vars == <<prog, code, pos, stack, scopes, heap, brk, modules, outcome>>

-----------------------------------------------------------------------------
(* Frames. *)

(***************************************************************************)
(* An activation of execute_next: its node and where that starts, the      *)
(* caller's loop_state (the in-out parameter) and the for_loop_state of a  *)
(* loop, the steps left, and the local variables: the pointers held        *)
(* ("vals") and the operator or the one or two names read ("rd").          *)
(***************************************************************************)
Texts == [1 .. 0 -> STRING] \cup [1 .. 1 -> STRING] \cup [1 .. 2 -> STRING]

Frame ==
  [ node : NodeTypes, start : Nat, ls : LoopStates, body : LoopStates,
    todo : Seq(Steps), vals : Seq(Ptr), rd : Texts ]

NewFrame(type, start, ls) ==
  [ node |-> type, start |-> start, ls |-> ls, body |-> "TopLevel",
    todo |-> Handler[type], vals |-> << >>, rd |-> << >> ]

Top == Last(stack)

\* The running interpreter's next step, with at least n pointers at hand.
At(step, n) ==
  /\ outcome = "running" /\ stack # << >>
  /\ Top.todo # << >> /\ Head(Top.todo) = step
  /\ Len(Top.vals) >= n

\* The top frame once its step is done and its last n pointers are consumed.
Done(n) ==
  [Top EXCEPT !.todo = Tail(@), !.vals = SubSeq(@, 1, Len(@) - n)]

Then(f, steps) == [f EXCEPT !.todo = steps \o @]
Push(f, p)     == [f EXCEPT !.vals = Append(@, p)]
Reading(f, s)  == [f EXCEPT !.rd = s]

\* The field at p, if it is of that kind.
Reads(kind, p) == p \in DOMAIN code /\ code[p].kind = kind

-----------------------------------------------------------------------------
(* Scopes. *)

Fresh == [values |-> Empty, terminated |-> FALSE]

IsScope(s) ==
  /\ DOMAIN s = {"values", "terminated"}
  /\ DOMAIN s.values \in SUBSET STRING
  /\ \A x \in DOMAIN s.values : s.values[x] \in Ptr
  /\ s.terminated \in BOOLEAN

Holders(sc, x) == { i \in DOMAIN sc : x \in DOMAIN sc[i].values }

\* Mutant of SetValue: a name that is bound keeps its value.
SetOnce(sc, x, p) ==
  IF Holders(sc, x) # {} THEN sc
  ELSE [sc EXCEPT ![Len(sc)].values = Put(@, x, p)]

\* Mutant of SetValue: the name is always bound in the innermost scope.
SetInnermost(sc, x, p) == [sc EXCEPT ![Len(sc)].values = Put(@, x, p)]

(***************************************************************************)
(* Scope::set_value on the innermost scope: the recursion over m_parent    *)
(* ends at the outermost scope that has the name, or where it started.     *)
(***************************************************************************)
SetValue(sc, x, p) ==
  LET holders == Holders(sc, x)
      target(i) == IF holders = {} THEN i = Len(sc)
                   ELSE i \in holders /\ \A j \in holders : i <= j
  IN  [i \in DOMAIN sc |->
         IF target(i) THEN [sc[i] EXCEPT !.values = Put(@, x, p)] ELSE sc[i]]

\* Scope::get_value: the builtins, then the innermost scope with the name.
\* A set with one Result.
GetValue(sc, x) ==
  LET holders == Holders(sc, x)
  IN  CASE x = "None"       -> { Use(Null) }
        [] x \in Builtins   -> { New(Builtin(x)) }
        [] x \notin Builtins \cup {"None"} /\ holders = {} -> { Raise("No such value") }
        [] OTHER -> { Use(sc[i].values[x]) :
                        i \in { i \in holders : \A j \in holders : j <= i } }

\* Mutant of Abandoned: is_terminated() is not asked.
JumpsOnly == Top.ls \in {"Break", "Continue"}

Abandoned ==
  Last(scopes).terminated \/ Top.ls \in {"Break", "Continue"}

-----------------------------------------------------------------------------
(* What every step does. *)

\* The pointers held by frames, scopes and m_loaded_modules.
Owners(st, sc, mo) ==
  (UNION { Range(f.vals) : f \in Range(st) }) \cup
  (UNION { Range(s.values) : s \in Range(sc) }) \cup Range(mo)

\* The last shared_ptr to an object frees it.
Settle(h) == heap' = Collect(h, Owners(stack', scopes', modules'))

\* The top frame becomes f, the cursor p, the heap h.
Resume(f, p, h) ==
  /\ stack' = Append(Front(stack), f)
  /\ pos' = p
  /\ UNCHANGED <<prog, code, scopes, modules, outcome>>
  /\ Settle(h)

\* An exception leaves execute(), or the process dies.
Fail(msg) ==
  /\ outcome' = msg
  /\ stack' = << >>
  /\ scopes' = <<scopes[1]>>
  /\ UNCHANGED <<prog, code, pos, brk, modules>>
  /\ Settle(heap)

\* How a run stops at ArenaObjects.  MemoryManager::malloc has no such test: it
\* goes on past its buffer (the run arena_overrun), so this stop is the model's
\* and no property may count it as an end of execute().
Full == "arena exhausted"

\* Mutant of Yield: objects are numbered by how many are alive.
YieldCounted(r, f, p) ==
  \/ r.kind = "raise" /\ Fail(r.msg)
  \/ r.kind = "use" /\ Resume(Push(f, r.ptr), p, heap) /\ UNCHANGED brk
  \/ /\ r.kind = "new"
     /\ brk' = Cardinality(DOMAIN heap) + 2
     /\ Resume(Push(f, brk'), p, Put(heap, brk', r.obj))

\* The top frame becomes f and receives a result.
Yield(r, f, p) ==
  \/ r.kind = "raise" /\ Fail(r.msg)
  \/ r.kind = "use" /\ Resume(Push(f, r.ptr), p, heap) /\ UNCHANGED brk
  \/ r.kind = "new" /\ brk >= ArenaObjects /\ Fail(Full)
  \/ /\ r.kind = "new" /\ brk < ArenaObjects
     /\ brk' = brk + 1
     /\ Resume(Push(f, brk + 1), p, Put(heap, brk + 1, r.obj))

\* The top frame becomes f, with nothing more to say.
Step(f, p) == Resume(f, p, heap) /\ UNCHANGED brk

-----------------------------------------------------------------------------
(* Entering, skipping and leaving nodes. *)

\* Mutant of ChildLoopState: there is no dummy_loop_state.
SharedLoopState(f, step) ==
  CASE step = "body" -> f.body
    [] step = "stmt" /\ f.ls = "TopLevel" -> "Normal"
    [] OTHER         -> f.ls

\* The loop_state that a child starts with: dummy_loop_state, the loop's
\* for_loop_state, the caller's own, or the copy a statement list makes.
ChildLoopState(f, step) ==
  CASE step = "expr" -> "None"
    [] step = "body" -> f.body
    [] step = "stmt" /\ f.ls = "TopLevel" -> "Normal"
    [] OTHER         -> f.ls

\* execute_next on the node under the cursor.
Enter(step) ==
  /\ At(step, 0) /\ Reads("node", pos)
  /\ ~ (step = "stmt" /\ Abandoned)
  /\ LET type == code[pos].val IN
       IF type \notin DOMAIN Handler THEN Fail("Unknown node type!")
       ELSE /\ stack' = Append(stack, NewFrame(type, pos, ChildLoopState(Top, step)))
            /\ pos' = pos + 1
            /\ UNCHANGED <<prog, code, scopes, heap, brk, modules, outcome>>

\* Mutant of Skip: after a return a statement list ends at once.
LeaveList ==
  \/ /\ At("skip", 0) /\ Reads("node", pos) /\ code[pos].val \in DOMAIN Skipper
     /\ Step(Then(Done(0), Skipper[code[pos].val]), pos + 1)
  \/ At("stmt", 0) /\ Abandoned /\ Step([Top EXCEPT !.todo = << >>], pos)

\* skip_next on the node under the cursor; a statement list skips the
\* statements after a break, a continue or a return.
Skip ==
  /\ At("skip", 0) \/ (At("stmt", 0) /\ Abandoned)
  /\ Reads("node", pos)
  /\ LET type == code[pos].val IN
       IF type \notin DOMAIN Skipper
       THEN Fail("Failed to skip unknown node type!")
       ELSE Step(Then(Done(0), Skipper[type]), pos + 1)

Drop ==
  \E step \in DOMAIN Dropped :
    At(step, 0) /\ Reads(Dropped[step], pos) /\ Step(Done(0), pos + 1)

\* A counted loop of a handler.
Count ==
  \E step \in DOMAIN Repeats :
    /\ At(step, 0) /\ Reads("u32", pos)
    /\ Step(Then(Done(0), Times(code[pos].val, Repeats[step])), pos + 1)

\* The value that execute_next returns; statements leave returnval null.
Statements == { "ImportFrom", "Import", "Continue", "Break", "Assign",
                "WhileLoop", "ForLoop", "AugmentedAssign" }

ReturnValue(f) ==
  IF f.node \in Statements \/ f.vals = << >> THEN Null ELSE Last(f.vals)

\* Mutant of Received: a statement list keeps its own loop_state.
ReceivedValue(p, v, l) ==
  LET step == Head(p.todo)
  IN  [p EXCEPT
         !.todo = Tail(@),
         !.body = IF step = "body" THEN l ELSE @,
         !.vals = CASE step = "stmt" -> <<v>>
                    [] step = "body" -> @
                    [] OTHER         -> Append(@, v)]

\* The caller p gets the value v and, where it shares it, the loop_state l.
Received(p, v, l) ==
  LET step == Head(p.todo)
      kept == step = "stmt" /\ (p.ls = "None" \/ l = "Normal")
  IN  [p EXCEPT
         !.todo = Tail(@),
         !.ls   = IF step \in {"test", "branch", "stmt"} /\ ~ kept THEN l ELSE @,
         !.body = IF step = "body" THEN l ELSE @,
         !.vals = CASE step = "stmt" -> <<v>>
                    [] step = "body" -> @
                    [] OTHER         -> Append(@, v)]

\* The end of execute_next: the cursor goes back to the node's start when
\* the loop_state is TopLevel, Break or Continue.
Return ==
  /\ outcome = "running" /\ Len(stack) > 1 /\ Top.todo = << >>
  /\ LET caller == stack[Len(stack) - 1] IN
       /\ caller.todo # << >>
       /\ stack' = Append(Front(Front(stack)),
                          Received(caller, ReturnValue(Top), Top.ls))
       /\ pos' = IF Top.ls \in {"None", "Normal"} THEN pos ELSE Top.start
       /\ UNCHANGED <<prog, code, scopes, brk, modules, outcome>>
       /\ Settle(heap)

-----------------------------------------------------------------------------
(* Reading names and operators. *)

ReadOp == At("op", 0) /\ Reads("op", pos) /\ Step(Reading(Done(0), <<code[pos].val>>), pos + 1)

IsName(p) ==
  Reads("node", p) /\ code[p].val \in {"Name", "String"} /\ Reads("str", p + 1)

IsPair(p) ==
  /\ Reads("node", p) /\ code[p].val = "Tuple"
  /\ Reads("u32", p + 1) /\ code[p + 1].val = 2
  /\ IsName(p + 2) /\ IsName(p + 4)

NamesAt(p) == IF IsName(p) THEN <<code[p + 1].val>>
                           ELSE <<code[p + 3].val, code[p + 5].val>>

PastNames(p) == IF IsName(p) THEN p + 2 ELSE p + 6

NamesFault(p) ==
  IF code[p].val = "Tuple" /\ Reads("u32", p + 1) /\ code[p + 1].val # 2
  THEN "Can only handle pairs" ELSE "Not a valid name"

\* read_name
ReadName ==
  /\ At("name", 0) /\ Reads("node", pos)
  /\ IF IsName(pos) THEN Step(Reading(Done(0), NamesAt(pos)), PastNames(pos))
                    ELSE Fail("Not a valid name")

\* read_names, for a loop that is run or for one that is skipped
ReadNames ==
  /\ At("names", 0) \/ At("dropNames", 0)
  /\ Reads("node", pos)
  /\ IF IsName(pos) \/ IsPair(pos)
     THEN LET f == Done(0)
          IN  Step(IF At("names", 0) THEN Reading(f, NamesAt(pos)) ELSE f, PastNames(pos))
     ELSE Fail(NamesFault(pos))

-----------------------------------------------------------------------------
(* Names and assignments. *)

\* NodeType::Name
Lookup ==
  /\ At("lookup", 0) /\ Reads("str", pos)
  /\ LET x == code[pos].val
         found == CASE x = "False" -> { New(Bool(FALSE)) }
                    [] x = "True"  -> { New(Bool(TRUE)) }
                    [] OTHER       -> GetValue(scopes, x)
     IN  \E r \in found : Yield(r, Done(0), pos + 1)

\* Mutant of Bound: the members of the pair are swapped.
BoundSwapped(sc, names, h, p) ==
  IF Len(names) = 1 THEN SetValue(sc, names[1], p)
  ELSE SetValue(SetValue(sc, names[1], h[p].val[2]), names[2], h[p].val[1])

\* The values bound to the names: the pointer, or the members of the pair.
Bound(sc, names, h, p) ==
  IF Len(names) = 1 THEN SetValue(sc, names[1], p)
  ELSE SetValue(SetValue(sc, names[1], h[p].val[1]), names[2], h[p].val[2])

\* NodeType::Assign, one target
Assign ==
  /\ At("target", 1) /\ Reads("node", pos)
  /\ LET v == Top.vals[1] IN
       CASE ~ (IsName(pos) \/ IsPair(pos))       -> Fail(NamesFault(pos))
         [] IsPair(pos) /\ v \notin DOMAIN heap  -> Fail("null dereference")
         [] IsPair(pos) /\ v \in DOMAIN heap /\ ~ Is(heap, v, "Tuple") ->
              Fail("cannot unpack value")
         [] OTHER ->
              /\ scopes' = Bound(scopes, NamesAt(pos), heap, v)
              /\ stack' = Append(Front(stack), Done(0))
              /\ pos' = PastNames(pos)
              /\ UNCHANGED <<prog, code, brk, modules, outcome>>
              /\ Settle(heap)

\* NodeType::AugmentedAssign: the target is looked up first ...
Fetch ==
  /\ At("fetch", 0) /\ Reads("node", pos)
  /\ IF IsName(pos)
     THEN \E r \in GetValue(scopes, code[pos + 1].val) : Yield(r, Done(0), pos + 2)
     ELSE Fail("Not a valid name")

\* ... and the object it points to, not the name, gets the sum.
Augment ==
  /\ At("augment", 2)
  /\ LET target == Top.vals[1]
         value  == Top.vals[2]
     IN  CASE Top.rd[1] # "Add" -> Fail("Unknown binary op")
           [] Top.rd[1] = "Add" /\ ~ Both(heap, target, value, "Integer") ->
                Fail("Values need to be numerics")
           [] OTHER ->
                /\ Resume(Done(2), pos,
                     Put(heap, target, Int32(heap[target].val + heap[value].val)))
                /\ UNCHANGED brk

-----------------------------------------------------------------------------
(* Literals and operators. *)

String ==
  At("string", 0) /\ Reads("str", pos) /\ Yield(New(Str(code[pos].val)), Done(0), pos + 1)

Integer ==
  At("integer", 0) /\ Reads("i32", pos) /\ Yield(New(Int32(code[pos].val)), Done(0), pos + 1)

NewList == At("list", 0) /\ Yield(New(List(<< >>)), Done(0), pos)

NewDictionary == At("dictionary", 0) /\ Yield(New(Dict(Empty)), Done(0), pos)

\* Mutant of AppendElement: the list is appended to itself.
AppendItself ==
  /\ At("append", 2) /\ Is(heap, Top.vals[1], "List")
  /\ Resume(Done(1), pos,
       Put(heap, Top.vals[1], List(Append(heap[Top.vals[1]].val, Top.vals[1]))))
  /\ UNCHANGED brk

\* List::append; the guards say what the list under construction is.
AppendElement ==
  /\ At("append", 2) /\ Is(heap, Top.vals[1], "List")
  /\ Resume(Done(1), pos,
       Put(heap, Top.vals[1], List(Append(heap[Top.vals[1]].val, Top.vals[2]))))
  /\ UNCHANGED brk

\* Dictionary::insert
InsertEntry ==
  /\ At("insert", 2) /\ Top.rd # << >> /\ Is(heap, Top.vals[1], "Dictionary")
  /\ Resume(Done(1), pos,
       Put(heap, Top.vals[1], Dict(Put(heap[Top.vals[1]].val, Top.rd[1], Top.vals[2]))))
  /\ UNCHANGED brk

Unary == At("unary", 1) /\ Yield(UnaryResult(heap, Top.rd[1], Top.vals[1]), Done(1), pos)

Binary ==
  At("binary", 2) /\ Yield(BinaryResult(heap, Top.rd[1], Top.vals[1], Top.vals[2]), Done(2), pos)

\* One comparison of a chain; its result is the next one's left operand.
Compare ==
  At("compare", 2) /\ Yield(CompareResult(heap, Top.rd[1], Top.vals[1], Top.vals[2]), Done(2), pos)

Subscript ==
  At("subscript", 2) /\ Yield(SubscriptResult(heap, Top.vals[1], Top.vals[2]), Done(2), pos)

Attribute ==
  /\ At("attribute", 1) /\ Top.rd # << >>
  /\ Yield(AttributeResult(heap, Top.vals[1], Top.rd[1]), Done(1), pos)

\* NodeType::BoolOp, after one operand: And stops at a false one, Or at a
\* true one, and both skip the operands that are left.
Decide ==
  /\ At("decide", 1)
  /\ LET v == Last(Top.vals)
         is == IF Is(heap, v, "Bool") THEN heap[v].val ELSE FALSE
         left == (Len(Top.todo) - 2) \div 2
         f == Done(1)
     IN  CASE v \in DOMAIN heap /\ ~ Is(heap, v, "Bool") ->
                Fail("not a valid bool operation")
           [] v \notin DOMAIN heap \/ Is(heap, v, "Bool") ->
                IF is = (Top.rd[1] = "And") THEN Step(f, pos)
                ELSE Step([f EXCEPT !.todo = Times(left, <<"skip">>) \o <<"decided">>], pos)

Decided == At("decided", 0) /\ Yield(New(Bool(Top.rd[1] = "Or")), Done(0), pos)

Undecided == At("undecided", 0) /\ Yield(New(Bool(Top.rd[1] = "And")), Done(0), pos)

-----------------------------------------------------------------------------
(* Calls and modules. *)

\* NodeType::Call checks the callable before it runs the arguments.
CheckCallable ==
  /\ At("callable", 1)
  /\ LET p == Last(Top.vals) IN
       CASE p \notin DOMAIN heap -> Fail("null dereference")
         [] p \in DOMAIN heap /\ ~ Callable(heap[p]) -> Fail("Cannot call un-callable!")
         [] OTHER -> Step(Done(0), pos)

Call ==
  /\ At("call", 1) /\ Top.vals[1] \in DOMAIN heap
  /\ Yield(CallResult(heap, Top.vals[1], Tail(Top.vals)), Done(Len(Top.vals)), pos)

MakeAlias ==
  /\ At("alias", 0) /\ Reads("str", pos) /\ Reads("str", pos + 1)
  /\ Yield(New(Alias(code[pos].val, code[pos + 1].val)), Done(0), pos + 2)

NeverLoaded(m) == FALSE                  \* mutant of Loaded
Loaded(m) == m \in DOMAIN modules

\* get_module, for "from module import alias" and "import alias"
Load ==
  /\ At("load", 1) /\ Is(heap, Top.vals[1], "Alias")
  /\ Top.node = "ImportFrom" => Top.rd # << >>
  /\ LET m == IF Top.node = "ImportFrom" THEN Top.rd[1] ELSE heap[Top.vals[1]].val[1] IN
       IF Loaded(m) THEN Yield(Use(modules[m]), Done(0), pos)
       ELSE IF m # "rand" THEN Fail("Unknown module")
       ELSE IF brk >= ArenaObjects THEN Fail(Full)
       ELSE /\ brk' = brk + 1
            /\ modules' = Put(modules, m, brk + 1)
            /\ stack' = Append(Front(stack), Push(Done(0), brk + 1))
            /\ UNCHANGED <<prog, code, pos, scopes, outcome>>
            /\ Settle(Put(heap, brk + 1, Module(m)))

\* load_from_module
Member ==
  /\ At("member", 2) /\ Is(heap, Top.vals[1], "Alias") /\ Is(heap, Top.vals[2], "Module")
  /\ Yield(MemberResult(heap[Top.vals[2]].val, heap[Top.vals[1]].val[1]), Done(0), pos)

\* set_value with the alias, or with the name if there is none
BindImport ==
  /\ At("bind", 2) /\ Is(heap, Top.vals[1], "Alias")
  /\ LET alias == heap[Top.vals[1]].val
         name  == IF alias[2] = "" THEN alias[1] ELSE alias[2]
     IN  scopes' = SetValue(scopes, name, Last(Top.vals))
  /\ stack' = Append(Front(stack), Done(0))
  /\ UNCHANGED <<prog, code, pos, brk, modules, outcome>>
  /\ Settle(heap)

-----------------------------------------------------------------------------
(* Conditionals. *)

\* NodeType::If: any value can be tested; IfElse: only a Bool.
Choose ==
  /\ At("choose", 1)
  /\ LET v == Last(Top.vals)
         f == Done(0)
     IN  CASE v \notin DOMAIN heap -> Fail("null dereference")
           [] v \in DOMAIN heap /\ Top.node = "If" ->
                IF BoolTest(heap[v]) THEN Step(Then(f, <<"branch">>), pos)
                                     ELSE Step(Push(Then(f, <<"skip">>), Null), pos)
           [] v \in DOMAIN heap /\ Top.node # "If" ->
                IF ~ Is(heap, v, "Bool") THEN Fail("not a boolean!")
                ELSE Step(Then(f, IF heap[v].val THEN <<"branch", "skip">>
                                                 ELSE <<"skip", "branch">>), pos)

-----------------------------------------------------------------------------
(* Loops. *)

\* Mutant of OpenBody: the body runs in the scope around the loop.
OpenNothing(f) ==
  /\ stack' = Append(Front(stack), Then(f, <<"body", "again">>))
  /\ UNCHANGED <<prog, code, pos, scopes, brk, modules, outcome>>
  /\ Settle(heap)

\* The loop opens a body_scope.
OpenBody(f) ==
  /\ stack' = Append(Front(stack), Then(f, <<"body", "again">>))
  /\ scopes' = Append(scopes, Fresh)
  /\ UNCHANGED <<prog, code, pos, brk, modules, outcome>>
  /\ Settle(heap)

\* NodeType::WhileLoop, after the condition
While ==
  /\ At("while", 1)
  /\ LET v == Last(Top.vals) IN
       IF v \in DOMAIN heap /\ BoolTest(heap[v])
       THEN OpenBody(Done(0))
       ELSE Step(Then(Done(0), <<"skip">>), pos)

\* Mutant of Iterate: the loop lets go of what the iterator is over.
IterateOnly ==
  At("iterate", 1) /\ Yield(IterateResult(heap, Top.vals[1]), Push(Done(1), Null), pos)

\* NodeType::ForLoop, after the iterable
Iterate == At("iterate", 1) /\ Yield(IterateResult(heap, Top.vals[1]), Done(0), pos)

\* The iterator at hand yields p: "fresh" lists the objects it makes for
\* that, "it" is the iterator afterwards.
Bind(fresh, p, it) ==
  IF brk + Len(fresh) > ArenaObjects THEN Fail(Full)
  ELSE LET h == [r \in DOMAIN heap \cup brk + 1 .. brk + Len(fresh) |->
                   IF r > brk THEN fresh[r - brk]
                   ELSE IF r = Top.vals[2] THEN it ELSE heap[r]]
       IN  IF Len(Top.rd) # 1 /\ ~ Is(h, p, "Tuple") THEN Fail("value_exception")
           ELSE /\ stack' = Append(Front(stack),
                              Push(Then(Done(0), <<"body", "again">>), p))
                /\ scopes' = Bound(Append(scopes, Fresh), Top.rd, h, p)
                /\ brk' = brk + Len(fresh)
                /\ UNCHANGED <<prog, code, pos, modules, outcome>>
                /\ Settle(h)

\* Mutant of Stop: the body is not skipped.
StopThere == Step(Done(0), pos)

\* stop_iteration_exception: the loop skips its body and ends.
Stop == Step(Then(Done(0), <<"skip">>), pos)

Least(K) == { k \in K : \A other \in K \ {k} : Before(k, other) }

\* (Unmoved, a mutant of Moved, forgets to advance m_pos.)
Unmoved(it, at, done) == Iter(it.kind, it.over, it.at, it.stop, it.done)
Moved(it, at, done) == Iter(it.kind, it.over, at, it.stop, done)

\* RangeIterator::next
NextOfRange(it) ==
  /\ it.kind = "Range"
  /\ IF it.at >= it.stop THEN Stop
     ELSE Bind(<<Int32(it.at)>>, brk + 1, Moved(it, it.at + 1, {}))

\* ListIterator::next, List::get
NextOfList(it) ==
  /\ it.kind = "List" /\ Is(heap, it.over, "List")
  /\ IF it.at >= Len(heap[it.over].val) THEN Stop
     ELSE Bind(<< >>, heap[it.over].val[it.at + 1], Moved(it, it.at + 1, {}))

\* The keys from m_it on.
Left(it) == DOMAIN heap[it.over].val \ it.done

\* DictItemIterator::next makes a key and a pair.
NextOfItems(it) ==
  /\ it.kind = "DictItem" /\ Is(heap, it.over, "Dictionary")
  /\ IF Left(it) = {} THEN Stop
     ELSE \E k \in Least(Left(it)) :
            Bind(<<Str(k), Pair(brk + 1, heap[it.over].val[k])>>, brk + 2,
                 Moved(it, 0, it.done \cup {k}))

\* DictKeyIterator::next yields the value, not the key.
NextOfDictionary(it) ==
  /\ it.kind = "DictKey" /\ Is(heap, it.over, "Dictionary")
  /\ IF Left(it) = {} THEN Stop
     ELSE \E k \in Least(Left(it)) :
            Bind(<< >>, heap[it.over].val[k], Moved(it, 0, it.done \cup {k}))

\* NodeType::ForLoop, the head of the loop
Advance ==
  /\ At("next", 2) /\ Top.rd # << >> /\ Is(heap, Top.vals[2], "Iterator")
  /\ LET it == heap[Top.vals[2]].val IN
       \/ NextOfRange(it) \/ NextOfList(it) \/ NextOfItems(it) \/ NextOfDictionary(it)
       \/ it.kind # "Range" /\ it.over \notin DOMAIN heap /\ Fail(DanglingReference.msg)

\* The end of an iteration: body_scope goes away, and for_loop_state says
\* whether there is another one.  A while loop goes back to its condition.
Again ==
  /\ At("again", 1)
  /\ Len(scopes) > 1
  /\ scopes' = Front(scopes)
  /\ LET f == [Done(1) EXCEPT
                 !.todo = CASE Top.node = "WhileLoop" /\ Top.body = "Break" -> << >>
                            [] Top.node = "WhileLoop" /\ Top.body # "Break" ->
                                 Handler["WhileLoop"]
                            [] Top.node # "WhileLoop" /\ Top.body = "Break" -> <<"skip">>
                            [] OTHER -> <<"next">>]
     IN  stack' = Append(Front(stack), f)
  /\ pos' = IF Top.node = "WhileLoop" /\ Top.body # "Break" THEN Top.start + 1 ELSE pos
  /\ UNCHANGED <<prog, code, brk, modules, outcome>>
  /\ Settle(heap)

\* NodeType::Break and NodeType::Continue
Jump ==
  \E step \in {"break", "continue"} :
    /\ At(step, 0)
    /\ IF Top.ls = "None" THEN Fail("Not a loop")
       ELSE Step([Done(0) EXCEPT !.ls = IF step = "break" THEN "Break" ELSE "Continue"], pos)

\* NodeType::Return, after its value: Scope::terminate on this scope
Terminate ==
  /\ At("terminate", 0)
  /\ scopes' = [scopes EXCEPT ![Len(scopes)].terminated = TRUE]
  /\ stack' = Append(Front(stack), Done(0))
  /\ UNCHANGED <<prog, code, pos, brk, modules, outcome>>
  /\ Settle(heap)

-----------------------------------------------------------------------------
(* The host. *)

Idle == outcome = "idle"

\* The host adds the objects "fresh", under names or as a module.
Preset(fresh, sc, mo) ==
  /\ Idle /\ prog \in HostedPrograms
  /\ brk + Len(fresh) <= HostObjects
  /\ brk' = brk + Len(fresh)
  /\ scopes' = sc
  /\ modules' = mo
  /\ UNCHANGED <<prog, code, pos, stack, outcome>>
  /\ Settle([r \in DOMAIN heap \cup brk + 1 .. brk + Len(fresh) |->
               IF r > brk THEN fresh[r - brk] ELSE heap[r]])

PresetString(x, t) == Preset(<<Str(t)>>, SetValue(scopes, x, brk + 1), modules)

PresetList(x, t, u) ==
  Preset(<<List(<<brk + 2, brk + 3>>), Str(t), Str(u)>>,
         SetValue(scopes, x, brk + 1), modules)

SetString == \E x \in HostNames, t \in HostTexts : PresetString(x, t)

SetList == \E x \in HostNames, t \in HostTexts, u \in HostTexts : PresetList(x, t, u)

\* The host lets go of its own pointer as it hands the module over; one that it
\* keeps (as in test/python.cpp:112) owns nothing that the interpreter sees.
SetModule ==
  \E m \in HostModules : Preset(<<Module(m)>>, scopes, Put(modules, m, brk + 1))

\* execute(): the first node, in the global scope, with loop_state None
Execute ==
  /\ Idle /\ Reads("node", pos)
  /\ code[pos].val \in DOMAIN Handler
  /\ outcome' = "running"
  /\ stack' = <<NewFrame(code[pos].val, pos, "None")>>
  /\ pos' = pos + 1
  /\ UNCHANGED <<prog, code, scopes, heap, brk, modules>>

\* ... and its result
Finish ==
  /\ outcome = "running" /\ Len(stack) = 1 /\ Top.todo = << >>
  /\ LET v == ReturnValue(Top)
     IN  Fail(IF ~ Is(heap, v, "Bool") THEN "result is not a boolean"
              ELSE IF heap[v].val THEN "true" ELSE "false")

-----------------------------------------------------------------------------
(* The specification. *)

\* The global Scope is the first object in the memory manager's buffer.
Init ==
  /\ prog \in DOMAIN Programs /\ code = Programs[prog]
  /\ pos = 1 /\ stack = << >> /\ scopes = <<Fresh>>
  /\ heap = Empty /\ brk = 1 /\ modules = Empty
  /\ outcome = "idle"

Host == SetString \/ SetList \/ SetModule \/ Execute

Nodes == (\E step \in ChildSteps : Enter(step)) \/ Skip \/ Drop \/ Count \/ Return

Expressions ==
  \/ ReadOp \/ ReadName \/ ReadNames \/ Lookup
  \/ String \/ Integer \/ NewList \/ AppendElement \/ NewDictionary \/ InsertEntry
  \/ Unary \/ Binary \/ Compare \/ Subscript \/ Attribute
  \/ Decide \/ Decided \/ Undecided \/ CheckCallable \/ Call

Statement ==
  \/ Assign \/ Fetch \/ Augment
  \/ MakeAlias \/ Load \/ Member \/ BindImport
  \/ Choose \/ While \/ Iterate \/ Advance \/ Again \/ Jump \/ Terminate

Interpret == Nodes \/ Expressions \/ Statement \/ Finish

\* Nothing happens after execute() has ended.
Ended == outcome \notin {"idle", "running"} /\ UNCHANGED vars

Next == Host \/ Interpret \/ Ended

Spec == Init /\ [][Next]_vars

\* execute() runs on a thread of its host: it goes on while it can.
FairSpec == Spec /\ WF_vars(Interpret)

-----------------------------------------------------------------------------
(* Properties. *)

ScopesOK(sc) ==
  /\ sc \in Seq(Range(sc)) /\ sc # << >>
  /\ \A i \in DOMAIN sc : IsScope(sc[i])

HeapOK(h, b) ==
  /\ DOMAIN h \subseteq 1 .. b
  /\ \A p \in DOMAIN h : IsObject(h[p])

ModulesOK(mo) ==
  /\ DOMAIN mo \in SUBSET STRING
  /\ \A m \in DOMAIN mo : mo[m] \in Ptr

\* The types of the interpreter's state, whatever the program: frames, scopes,
\* objects within the arena, 32-bit integers, and a stack while execute() runs.
TypeOK ==
  /\ IsCode(code) /\ pos \in Nat
  /\ outcome = "running" <=> stack # << >>
  /\ stack \in Seq(Frame)
  /\ ScopesOK(scopes)
  /\ brk \in Nat /\ HeapOK(heap, brk)
  /\ ModulesOK(modules)

(***************************************************************************)
(* Break and continue reach the loop around them and nothing else: an      *)
(* activation has a loop_state iff a loop waits for its body below it and  *)
(* no expression lies between.  (Otherwise a jump would end an expression, *)
(* or "Not a loop" would be thrown inside one.)                            *)
(***************************************************************************)
Waits(st, i, step) == st[i].todo # << >> /\ Head(st[i].todo) = step

InLoop(st, i) ==
  \E j \in 1 .. i - 1 :
    Waits(st, j, "body") /\ \A k \in j + 1 .. i - 1 : ~ Waits(st, k, "expr")

JumpsNeedLoops == \A i \in DOMAIN stack : stack[i].ls # "None" <=> InLoop(stack, i)

\* A body_scope exists exactly while its loop runs an iteration.
ScopePerIteration ==
  Len(scopes) =
    1 + Cardinality({ i \in DOMAIN stack : Waits(stack, i, "body") \/ Waits(stack, i, "again") })

Separate(sc) ==
  \A i, j \in DOMAIN sc :
    i # j => DOMAIN sc[i].values \cap DOMAIN sc[j].values = {}

\* Since set_value prefers the outer scope and get_value the inner one, no
\* name may be bound in two scopes of the chain.
OneBinding == Separate(scopes)

\* A node that ends without a jump has consumed its own fields, no more and
\* no fewer: what was skipped and what was rewound add up.
ConsumesItsNode ==
  outcome = "running" /\ stack # << >> /\ Top.todo = << >> /\ Top.ls \in {"None", "Normal"}
    => pos = Top.start + code[Top.start].span

\* The interpreter never reads a field as something else than the compiler
\* wrote there.
ReadsWhatWasWritten ==
  outcome = "running" /\ stack # << >> /\ Top.todo # << >>
    => LET kind == FieldRead(Head(Top.todo)) IN kind = "any" \/ Reads(kind, pos)

\* When execute() returns a Boolean, every node of the program has been run
\* or skipped: also after a return in the middle of it.  A second execute()
\* of the same interpreter finds no node to run, since nothing rewinds m_data.
EndsAtTheEnd ==
  outcome \in {"true", "false"} => pos = Len(code) + 1

\* The container behind every iterator (and items() object) that an
\* activation holds is alive: the reference counts do not protect it.
BorrowsAreLive ==
  \A f \in Range(stack) : \A p \in Range(f.vals) \cap DOMAIN heap :
    Borrowed(heap[p]) \subseteq DOMAIN heap

\* After a return in the global scope nothing changes a variable any more.
ReturnIsFinal ==
  [][scopes[1].terminated => scopes'[1].values = scopes[1].values]_vars

\* Integers are immutable values: an object once made keeps its number.
IntegersAreValues ==
  [][\A p \in DOMAIN heap \cap DOMAIN heap' :
       heap[p].type = "Integer" => heap'[p] = heap[p]]_vars

\* However often a module is imported, there is one object for it that the
\* interpreter or the program holds.  One that the host has replaced is gone as
\* soon as the host itself holds it no more.
OneModule ==
  \A p, q \in DOMAIN heap :
    heap[p].type = "Module" /\ heap[q] = heap[p] => q = p

\* No object owns itself, be it through others: shared_ptr frees every object
\* that nothing uses any more, and no cycle stays behind in the arena.
NoCycles == \A p \in DOMAIN heap : p \notin Reachable(heap, Owned(heap[p]))

\* What the names of the global scope stand for, read through the heap: the text
\* of a string, the texts of a list, nothing if the object is gone.
StringAt(h, p) == IF Is(h, p, "String") THEN h[p].val ELSE ""

TextsAt(h, p) ==
  IF Is(h, p, "List") THEN [i \in DOMAIN h[p].val |-> StringAt(h, h[p].val[i])]
                      ELSE <<StringAt(h, p)>>

HostValues == [x \in DOMAIN scopes[1].values |-> TextsAt(heap, scopes[1].values[x])]

\* What a step of the host leaves under the names.
TakesEffect ==
  /\ \A x \in HostNames, t, u \in HostTexts :
       /\ PresetString(x, t) => HostValues' = Put(HostValues, x, <<t>>)
       /\ PresetList(x, t, u) => HostValues' = Put(HostValues, x, <<t, u>>)
  /\ SetModule \/ Execute => HostValues' = HostValues

(***************************************************************************)
(* Each call of the host takes effect on its own name and nothing else: a  *)
(* name answers by the last string or list set, whatever stood there       *)
(* before and although that is freed; the values of other names, and of    *)
(* the lists' elements, survive; modules and execute() touch none.         *)
(***************************************************************************)
LastPresetWins == [][TakesEffect]_vars

\* The numbers of objects are addresses of the abstract allocator: a new
\* object never gets the number of an earlier one, so a reference that dangles
\* is never mistaken for one to a new object.
Memory == INSTANCE Allocator WITH
  regions <- { {p} : p \in DOMAIN heap },
  spent   <- 1 .. brk

NumbersAreNotReused == Memory!Spec

\* execute() comes to an end, and not because the model ran out of objects: a
\* loop that allocates for ever has not ended.
Terminates == outcome = "running" ~> outcome \notin {"running", Full}

=============================================================================
