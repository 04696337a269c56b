------------------------ MODULE Interpreter_proofs ------------------------
(***************************************************************************)
(* Theorems about module Interpreter, for every program, every arena size  *)
(* and every width of the integers: the types of its state, that it        *)
(* implements module Allocator, and who owns what.                         *)
(***************************************************************************)
EXTENDS Interpreter, SequenceLemmas, FiniteSetTheorems

-----------------------------------------------------------------------------
(* Integers and steps. *)

\* Wrap yields an int32_t.
LEMMA WrapType ==
  ASSUME NEW i \in Int
  PROVE  Wrap(i) \in Int32Range
BY IntRange DEF Wrap, Int32Range

\* An Integer object holds an int32_t, whatever the arithmetic gave.
LEMMA Int32Type ==
  ASSUME NEW i \in Int
  PROVE  IsObject(Int32(i))
BY WrapType DEF IsObject, Int32

\* The steps that a counted loop unfolds to.
LEMMA TimesType ==
  ASSUME NEW S, NEW n \in Int, NEW s \in Seq(S)
  PROVE  Times(n, s) \in Seq(S)
<1> DEFINE m == IF n * Len(s) \in Nat THEN n * Len(s) ELSE 0
<1>1. Len(s) \in Nat /\ n * Len(s) \in Int
  BY LenProperties
<1>2. m \in Nat /\ 1 .. m = 1 .. n * Len(s)
  BY <1>1
<1>3. ASSUME NEW i \in 1 .. n * Len(s)
      PROVE  s[((i - 1) % Len(s)) + 1] \in S
  <2>1. Len(s) \in Nat \ {0}
    BY <1>1, <1>3
  <2>2. ((i - 1) % Len(s)) + 1 \in 1 .. Len(s)
    BY <2>1
  <2> QED
    BY <2>2, ElementOfSeq
<1>4. [i \in 1 .. m |-> s[((i - 1) % Len(s)) + 1]] \in Seq(S)
  <2> HIDE DEF m
  <2> QED
    BY <1>2, <1>3, IsASeq
<1> QED
  BY <1>2, <1>4 DEF Times

\* The steps that the tables list: the others are pushed by loops.
Plain == Steps \ { "body", "again" }

\* Sequences of such steps are sequences of steps.
LEMMA PlainSteps == Seq(Plain) \subseteq Seq(Steps)
BY SeqMonotonic DEF Plain

\* Short sequences of steps.
LEMMA Short ==
  \A a, b, c, d, e \in Steps :
    /\ << >> \in Seq(Steps) /\ <<a>> \in Seq(Steps) /\ <<a, b>> \in Seq(Steps)
    /\ <<a, b, c>> \in Seq(Steps) /\ <<a, b, c, d>> \in Seq(Steps)
    /\ <<a, b, c, d, e>> \in Seq(Steps)
OBVIOUS

\* Short sequences of plain steps.
LEMMA ShortPlain ==
  \A a, b, c, d, e \in Plain :
    /\ << >> \in Seq(Plain) /\ <<a>> \in Seq(Plain) /\ <<a, b>> \in Seq(Plain)
    /\ <<a, b, c>> \in Seq(Plain) /\ <<a, b, c, d>> \in Seq(Plain)
    /\ <<a, b, c, d, e>> \in Seq(Plain)
OBVIOUS

\* The tables of module Bytecode list steps.
LEMMA RepeatsPlain ==
  ASSUME NEW t \in DOMAIN Repeats
  PROVE  Repeats[t] \in Seq(Plain)
<1>1. DOMAIN Repeats =
        { "stmts", "targets", "args", "elements", "entries", "comparisons",
          "conditions", "skips", "skippedEntries", "skippedComparisons" }
  BY DEF Repeats
<1>2. { "stmt", "target", "expr", "append", "name", "insert", "op",
        "compare", "decide", "skip", "dropOp" } \subseteq Plain
  BY DEF Plain, Steps, ChildSteps, Dropped
<1>3. /\ Repeats["stmts"] \in Seq(Plain) /\ Repeats["targets"] \in Seq(Plain)
      /\ Repeats["args"] \in Seq(Plain) /\ Repeats["elements"] \in Seq(Plain)
      /\ Repeats["entries"] \in Seq(Plain) /\ Repeats["comparisons"] \in Seq(Plain)
      /\ Repeats["conditions"] \in Seq(Plain) /\ Repeats["skips"] \in Seq(Plain)
      /\ Repeats["skippedEntries"] \in Seq(Plain) /\ Repeats["skippedComparisons"] \in Seq(Plain)
  BY <1>2, ShortPlain DEF Repeats, SkipComparison
<1> QED
  BY <1>1, <1>3

\* The cases of execute_next consist of known steps.
LEMMA HandlerPlain ==
  ASSUME NEW t \in DOMAIN Handler
  PROVE  Handler[t] \in Seq(Plain)
<1>1. DOMAIN Handler =
        { "ImportFrom", "Import", "Alias", "Attribute", "Name", "Continue",
          "Break", "Assign", "StatementList", "UnaryOp", "BoolOp",
          "BinaryOp", "Return", "List", "String", "Compare", "Index",
          "Integer", "Call", "If", "IfElse", "Dictionary", "Subscript",
          "WhileLoop", "ForLoop", "AugmentedAssign" }
  BY DEF Handler
<1>2. { "name", "expr", "load", "member", "bind", "alias", "attribute",
        "lookup", "continue", "break", "op", "unary", "binary",
        "terminate", "list", "string", "integer", "callable", "call",
        "test", "choose", "dictionary", "subscript", "while", "names",
        "iterate", "next", "fetch", "augment", "undecided", "targets",
        "stmts", "conditions", "elements", "comparisons", "args", "entries" } \subseteq Plain
  BY DEF Plain, Steps, ChildSteps, Repeats
<1>3. /\ Handler["ImportFrom"] \in Seq(Plain) /\ Handler["Import"] \in Seq(Plain)
      /\ Handler["Alias"] \in Seq(Plain) /\ Handler["Attribute"] \in Seq(Plain)
      /\ Handler["Name"] \in Seq(Plain) /\ Handler["Continue"] \in Seq(Plain)
      /\ Handler["Break"] \in Seq(Plain) /\ Handler["Assign"] \in Seq(Plain)
      /\ Handler["StatementList"] \in Seq(Plain)
  BY <1>2, ShortPlain DEF Handler
<1>4. /\ Handler["UnaryOp"] \in Seq(Plain) /\ Handler["BoolOp"] \in Seq(Plain)
      /\ Handler["BinaryOp"] \in Seq(Plain) /\ Handler["Return"] \in Seq(Plain)
      /\ Handler["List"] \in Seq(Plain) /\ Handler["String"] \in Seq(Plain)
      /\ Handler["Compare"] \in Seq(Plain) /\ Handler["Index"] \in Seq(Plain)
      /\ Handler["Integer"] \in Seq(Plain)
  BY <1>2, ShortPlain DEF Handler
<1>5. /\ Handler["Call"] \in Seq(Plain) /\ Handler["If"] \in Seq(Plain)
      /\ Handler["IfElse"] \in Seq(Plain) /\ Handler["Dictionary"] \in Seq(Plain)
      /\ Handler["Subscript"] \in Seq(Plain) /\ Handler["WhileLoop"] \in Seq(Plain)
      /\ Handler["ForLoop"] \in Seq(Plain) /\ Handler["AugmentedAssign"] \in Seq(Plain)
  BY <1>2, ShortPlain DEF Handler
<1> QED
  BY <1>1, <1>3, <1>4, <1>5

\* The cases of skip_next consist of known steps.
LEMMA SkipperPlain ==
  ASSUME NEW t \in DOMAIN Skipper
  PROVE  Skipper[t] \in Seq(Plain)
<1>1. DOMAIN Skipper =
        { "Name", "ForLoop", "Assign", "StatementList", "Index", "Return",
          "String", "Compare", "Integer", "Call", "IfElse", "List",
          "Tuple", "Dictionary", "UnaryOp", "BoolOp", "AugmentedAssign",
          "BinaryOp", "If", "Attribute", "Subscript", "Break", "Continue" }
  BY DEF Skipper
<1>2. { "dropString", "dropNames", "skip", "skips", "skippedComparisons",
        "dropInteger", "skippedEntries", "dropOp" } \subseteq Plain
  BY DEF Plain, Steps, Repeats, Dropped
<1>3. /\ Skipper["Name"] \in Seq(Plain) /\ Skipper["ForLoop"] \in Seq(Plain)
      /\ Skipper["Assign"] \in Seq(Plain) /\ Skipper["StatementList"] \in Seq(Plain)
      /\ Skipper["Index"] \in Seq(Plain) /\ Skipper["Return"] \in Seq(Plain)
      /\ Skipper["String"] \in Seq(Plain) /\ Skipper["Compare"] \in Seq(Plain)
      /\ Skipper["Integer"] \in Seq(Plain)
  BY <1>2, ShortPlain DEF Skipper
<1>4. /\ Skipper["Call"] \in Seq(Plain) /\ Skipper["IfElse"] \in Seq(Plain)
      /\ Skipper["List"] \in Seq(Plain) /\ Skipper["Tuple"] \in Seq(Plain)
      /\ Skipper["Dictionary"] \in Seq(Plain) /\ Skipper["UnaryOp"] \in Seq(Plain)
      /\ Skipper["BoolOp"] \in Seq(Plain) /\ Skipper["AugmentedAssign"] \in Seq(Plain)
      /\ Skipper["BinaryOp"] \in Seq(Plain)
  BY <1>2, ShortPlain DEF Skipper
<1>5. /\ Skipper["If"] \in Seq(Plain) /\ Skipper["Attribute"] \in Seq(Plain)
      /\ Skipper["Subscript"] \in Seq(Plain) /\ Skipper["Break"] \in Seq(Plain)
      /\ Skipper["Continue"] \in Seq(Plain)
  BY <1>2, ShortPlain DEF Skipper
<1> QED
  BY <1>1, <1>3, <1>4, <1>5

\* So all of them consist of known steps.
LEMMA RepeatsType == \A t \in DOMAIN Repeats : Repeats[t] \in Seq(Steps)
BY RepeatsPlain, PlainSteps

\* The same for execute_next.
LEMMA HandlerType == \A t \in DOMAIN Handler : Handler[t] \in Seq(Steps)
BY HandlerPlain, PlainSteps

\* The same for skip_next.
LEMMA SkipperType == \A t \in DOMAIN Skipper : Skipper[t] \in Seq(Steps)
BY SkipperPlain, PlainSteps

-----------------------------------------------------------------------------
(* Objects, heaps and results. *)

\* Freeing objects leaves well-formed objects.
LEMMA CollectType ==
  ASSUME NEW h, NEW b \in Nat, HeapOK(h, b), NEW roots
  PROVE  HeapOK(Collect(h, roots), b)
BY DEF HeapOK, Collect

\* An object that exists is replaced.
LEMMA PutType ==
  ASSUME NEW h, NEW b \in Nat, HeapOK(h, b), NEW p \in 1 .. b, NEW o, IsObject(o)
  PROVE  HeapOK(Put(h, p, o), b)
BY DEF HeapOK, Put

\* An object is allocated at the end of the buffer.
LEMMA GrowType ==
  ASSUME NEW h, NEW b \in Nat, HeapOK(h, b), NEW o, IsObject(o)
  PROVE  HeapOK(Put(h, b + 1, o), b + 1)
BY DEF HeapOK, Put

\* The constructors of objects.
LEMMA ObjectTypes ==
  /\ \A b \in BOOLEAN : IsObject(Bool(b))
  /\ \A t : IsObject(Str(t))
  /\ \A s \in Seq(Ptr) : IsObject(List(s))
  /\ \A p, q \in Ptr : IsObject(Pair(p, q))
  /\ \A m, n \in STRING : IsObject(Alias(m, n)) /\ IsObject(Func(m, n))
  /\ \A n \in STRING : IsObject(Module(n)) /\ IsObject(Builtin(n))
  /\ \A p \in Ptr : IsObject(Items(p))
BY DEF IsObject, Bool, Str, List, Pair, Alias, Func, Module, Builtin, Items

\* A Dictionary maps strings to pointers.
LEMMA DictType ==
  ASSUME NEW d, DOMAIN d \subseteq STRING, \A k \in DOMAIN d : d[k] \in Ptr
  PROVE  IsObject(Dict(d))
BY DEF IsObject, Dict

\* An iterator of any kind.
LEMMA IterType ==
  ASSUME NEW kind \in IteratorKinds, NEW over \in Ptr, NEW at \in Nat,
         NEW stop \in Int, NEW done \in SUBSET STRING
  PROVE  IsObject(Iter(kind, over, at, stop, done))
BY DEF IsObject, Iter, IsIterator

\* The three kinds of results.
LEMMA NewType ==
  ASSUME NEW o, IsObject(o)
  PROVE  IsResult(New(o))
BY DEF IsResult, New

\* An existing pointer.
LEMMA UseType ==
  ASSUME NEW p \in Ptr
  PROVE  IsResult(Use(p))
BY DEF IsResult, Use

\* An exception; execute() is then neither idle nor running.
LEMMA RaiseType ==
  ASSUME NEW msg, msg \notin Unthrown
  PROVE  IsResult(Raise(msg))
BY DEF IsResult, Raise

\* The exceptions with names.
LEMMA FaultTypes ==
  IsResult(NullDereference) /\ IsResult(DanglingReference) /\ IsResult(BadCast)
BY RaiseType DEF NullDereference, DanglingReference, BadCast, Unthrown

\* A comparison yields a Bool or looks through null.
LEMMA TruthType ==
  ASSUME NEW faults, NEW b \in BOOLEAN
  PROVE  IsResult(Truth(faults, b)) /\ IsResult(Negated(Truth(faults, b)))
<1>1. IsResult(New(Bool(b))) /\ IsResult(New(Bool(~ b)))
  BY ObjectTypes, NewType
<1>2. Negated(New(Bool(b))) = New(Bool(~ b)) /\ Negated(NullDereference) = NullDereference
  BY DEF Negated, New, Bool, NullDereference, Raise
<1> QED
  BY <1>1, <1>2, FaultTypes DEF Truth

\* NodeType::Compare.
LEMMA CompareType ==
  ASSUME NEW h, NEW op, NEW p, NEW q
  PROVE  IsResult(CompareResult(h, op, p, q))
<1>1. /\ Equal(h, p, q) \in BOOLEAN
      /\ Greater(h, p, q) \in BOOLEAN /\ Greater(h, q, p) \in BOOLEAN
      /\ AtLeast(h, p, q) \in BOOLEAN /\ AtLeast(h, q, p) \in BOOLEAN
  BY DEF Equal, Greater, AtLeast, Both
<1>2. ASSUME NEW elems
      PROVE  /\ IsResult(ListContains(h, elems, p))
             /\ IsResult(Negated(ListContains(h, elems, p)))
  BY TruthType DEF ListContains
<1>3. Negated(NullDereference) = NullDereference
  BY DEF Negated, NullDereference, Raise
<1>4. Negated(Raise("Can only call in on lists")) = Raise("Can only call in on lists")
  BY DEF Negated, Raise
<1>5. /\ IsResult(Raise("Can only call in on lists"))
      /\ IsResult(Raise("Unknown op type"))
  BY RaiseType DEF Unthrown
<1>6. ASSUME NEW types
      PROVE  /\ IsResult(Truth(Faults(h, p, q, types), Equal(h, p, q)))
             /\ IsResult(Negated(Truth(Faults(h, p, q, types), Equal(h, p, q))))
             /\ IsResult(Truth(Faults(h, p, q, types), Greater(h, p, q)))
             /\ IsResult(Truth(Faults(h, q, p, types), Greater(h, q, p)))
             /\ IsResult(Truth(Faults(h, p, q, types), AtLeast(h, p, q)))
             /\ IsResult(Truth(Faults(h, q, p, types), AtLeast(h, q, p)))
  BY <1>1, TruthType
<1> QED
  BY <1>2, <1>3, <1>4, <1>5, <1>6, FaultTypes DEF CompareResult

\* NodeType::UnaryOp.
LEMMA UnaryType ==
  ASSUME NEW h, NEW b \in Nat, HeapOK(h, b), NEW op, NEW p
  PROVE  IsResult(UnaryResult(h, op, p))
<1>1. /\ IsResult(New(Bool(~ h[p].val))) /\ IsResult(New(Bool(FALSE)))
      /\ IsResult(New(Bool(p \notin DOMAIN h)))
  BY ObjectTypes, NewType
<1>2. Is(h, p, "Integer") => IsResult(New(Int32(-1 * h[p].val)))
  <2>1. Is(h, p, "Integer") => -1 * h[p].val \in Int
    BY IntRange DEF Is, HeapOK, IsObject, Int32Range
  <2> QED
    BY <2>1, Int32Type, NewType
<1>3. IsResult(Raise("Unknown unary operation"))
  BY RaiseType DEF Unthrown
<1> QED
  BY <1>1, <1>2, <1>3 DEF UnaryResult

\* NodeType::BinaryOp.
LEMMA BinaryType ==
  ASSUME NEW h, NEW b \in Nat, HeapOK(h, b), NEW op, NEW p, NEW q
  PROVE  IsResult(BinaryResult(h, op, p, q))
<1>1. Both(h, p, q, "Integer") => h[p].val \in Int /\ h[q].val \in Int
  BY IntRange DEF Both, Is, HeapOK, IsObject, Int32Range
<1>2. Both(h, p, q, "Integer") => /\ h[p].val + h[q].val \in Int
                                  /\ h[p].val - h[q].val \in Int
                                  /\ h[p].val * h[q].val \in Int
  BY <1>1
<1>3. Both(h, p, q, "Integer") => /\ IsResult(New(Int32(h[p].val + h[q].val)))
                                  /\ IsResult(New(Int32(h[p].val - h[q].val)))
                                  /\ IsResult(New(Int32(h[p].val * h[q].val)))
  BY <1>2, Int32Type, NewType
<1>4. IsResult(New(Str(Concat(h[p].val, h[q].val))))
  BY ObjectTypes, NewType
<1>5. /\ IsResult(Raise("failed to add")) /\ IsResult(Raise("failed to multiply"))
      /\ IsResult(Raise("failed to sub"))
      /\ IsResult(Raise("Cannot subtract on none values"))
      /\ IsResult(Raise("Unknown binary operation"))
  BY RaiseType DEF Unthrown
<1>6. IsResult(AddResult(h, p, q))
  BY <1>3, <1>4, <1>5, FaultTypes DEF AddResult
<1>7. IsResult(MultResult(h, p, q))
  BY <1>3, <1>5, FaultTypes DEF MultResult
<1>8. IsResult(SubResult(h, p, q))
  BY <1>3, <1>5 DEF SubResult
<1> QED
  BY <1>5, <1>6, <1>7, <1>8 DEF BinaryResult

\* NodeType::Subscript.
LEMMA SubscriptType ==
  ASSUME NEW h, NEW b \in Nat, HeapOK(h, b), NEW slice, NEW p
  PROVE  IsResult(SubscriptResult(h, slice, p))
<1>1. Null \in Ptr
  BY DEF Null, Ptr
<1>2. Is(h, p, "Dictionary") => \A k \in DOMAIN h[p].val : h[p].val[k] \in Ptr
  BY DEF Is, HeapOK, IsObject
<1>3. Is(h, p, "List") => \A i \in DOMAIN h[p].val : h[p].val[i] \in Ptr
  <2>1. Is(h, p, "List") => h[p].val \in Seq(Ptr)
    BY DEF Is, HeapOK, IsObject
  <2> QED
    BY <2>1, LenProperties
<1>4. IsResult(Raise("List index out of range")) /\ IsResult(Raise("Invalid subscript"))
  BY RaiseType DEF Unthrown
<1> QED
  BY <1>1, <1>2, <1>3, <1>4, UseType, FaultTypes DEF SubscriptResult

\* Module::get_member.
LEMMA MemberType ==
  ASSUME NEW mod \in STRING, NEW name \in STRING
  PROVE  IsResult(MemberResult(mod, name))
<1>1. IsResult(Raise("No such member"))
  BY RaiseType DEF Unthrown
<1> QED
  BY <1>1, ObjectTypes, NewType DEF MemberResult

\* NodeType::Attribute.
LEMMA AttributeType ==
  ASSUME NEW h, NEW b \in Nat, HeapOK(h, b), NEW p \in Ptr, NEW name \in STRING
  PROVE  IsResult(AttributeResult(h, p, name))
<1>1. Is(h, p, "Module") => h[p].val \in STRING
  BY DEF Is, HeapOK, IsObject
<1>2. IsResult(Raise("Cannot get attribute"))
  BY RaiseType DEF Unthrown
<1> QED
  BY <1>1, <1>2, MemberType, ObjectTypes, NewType, FaultTypes DEF AttributeResult

\* The number in an Integer object.
LEMMA IntegerValue ==
  ASSUME NEW h, NEW b \in Nat, HeapOK(h, b), NEW p, Is(h, p, "Integer")
  PROVE  h[p].val \in Int32Range /\ h[p].val \in Int
BY IntRange DEF Is, HeapOK, IsObject, Int32Range

\* Builtin::call.
LEMMA BuiltinType ==
  ASSUME NEW h, NEW b \in Nat, HeapOK(h, b), NEW name, NEW args \in Seq(Ptr)
  PROVE  IsResult(BuiltinResult(h, name, args))
<1>1. CASE Len(args) # 1
  <2>1. IsResult(Raise("Invalid number of arguments"))
    BY RaiseType DEF Unthrown
  <2> QED
    BY <1>1, <2>1 DEF BuiltinResult
<1>2. CASE Len(args) = 1
  <2> DEFINE p == args[1]
  <2>1. p \in Ptr /\ Null \in Ptr
    <3>1. 1 \in 1 .. Len(args)
      BY <1>2
    <3>2. p \in Ptr
      BY <3>1, ElementOfSeq
    <3> QED
      BY <3>2 DEF Null, Ptr
  <2>2. /\ IsResult(Raise("invalid argument type"))
        /\ IsResult(Raise("Argument not a string"))
        /\ IsResult(Raise("Invalid number of arguments"))
        /\ IsResult(Raise("Can't conver to integer"))
    BY RaiseType DEF Unthrown
  <2>3. ASSUME Is(h, p, "Integer")
        PROVE  IsResult(New(Iter("Range", Null, 0, h[p].val, {})))
    <3>1. h[p].val \in Int /\ "Range" \in IteratorKinds /\ {} \in SUBSET STRING
      BY <2>3, IntegerValue DEF IteratorKinds
    <3> QED
      BY <2>1, <3>1, IterType, NewType
  <2>4. IsResult(New(Str(ToStr(h[p].val))))
    BY ObjectTypes, NewType
  <2>5. IsResult(New(Int32(IF h[p].val \in DOMAIN Numeral THEN Numeral[h[p].val] ELSE 0)))
    <3>1. (IF h[p].val \in DOMAIN Numeral THEN Numeral[h[p].val] ELSE 0) \in Int
      BY Numerals
    <3> QED
      BY <3>1, Int32Type, NewType
  <2>6. IsResult(Use(p)) /\ IsResult(Use(Null))
    BY <2>1, UseType
  <2> DEFINE mismatch == CASE name = "range" -> Raise("invalid argument type")
                 [] name # "range" /\ p \notin DOMAIN h -> NullDereference
                 [] name = "print" /\ p \in DOMAIN h -> Raise("Argument not a string")
                 [] OTHER -> Raise("Can't conver to integer")
  <2>7. IsResult(mismatch)
    BY <2>2, FaultTypes
  <2> QED
    BY <1>2, <2>2, <2>3, <2>4, <2>5, <2>6, <2>7 DEF BuiltinResult
<1> QED
  BY <1>1, <1>2

\* randint stays within the bounds it was given, so within int32_t.
LEMMA RandIntType ==
  ASSUME NEW h, NEW b \in Nat, HeapOK(h, b), NEW args
  PROVE  IsResult(RandIntResult(h, args))
<1>1. IsResult(Raise("Invalid number of arguments"))
  BY RaiseType DEF Unthrown
<1>2. ASSUME Both(h, args[1], args[2], "Integer")
      PROVE  IsResult(New(Int32(RandInt(h[args[1]].val, h[args[2]].val))))
  <2>1. /\ h[args[1]].val \in Int32Range /\ h[args[1]].val \in Int
        /\ h[args[2]].val \in Int32Range /\ h[args[2]].val \in Int
    BY <1>2, IntegerValue DEF Both
  <2>2. RandInt(h[args[1]].val, h[args[2]].val) \in Int32Range
    BY <2>1, Randomness
  <2>3. RandInt(h[args[1]].val, h[args[2]].val) \in Int
    BY <2>2, IntRange DEF Int32Range
  <2> QED
    BY <2>3, Int32Type, NewType
<1> QED
  BY <1>1, <1>2, FaultTypes DEF RandIntResult

\* A function of the host's modules.
LEMMA HostType ==
  ASSUME NEW h, NEW b \in Nat, HeapOK(h, b), NEW args
  PROVE  IsResult(HostResult(h, args))
<1>1. IsResult(New(Int32(2)))
  BY Int32Type, NewType
<1>2. ASSUME Is(h, args[1], "Integer")
      PROVE  IsResult(New(Int32(2 * h[args[1]].val)))
  <2>1. 2 * h[args[1]].val \in Int
    BY <1>2, IntegerValue
  <2> QED
    BY <2>1, Int32Type, NewType
<1> QED
  BY <1>1, <1>2, FaultTypes DEF HostResult

\* Callable::call, for every callable.
LEMMA CallType ==
  ASSUME NEW h, NEW b \in Nat, HeapOK(h, b), NEW p \in DOMAIN h, NEW args \in Seq(Ptr)
  PROVE  IsResult(CallResult(h, p, args))
<1>1. IsResult(Raise("invalid number of arguments"))
  BY RaiseType DEF Unthrown
<1>2. ASSUME h[p].type = "DictItems"
      PROVE  IsResult(New(Iter("DictItem", h[p].val, 0, 0, {})))
  <2>1. h[p].val \in Ptr /\ "DictItem" \in IteratorKinds /\ {} \in SUBSET STRING
    BY <1>2 DEF HeapOK, IsObject, IteratorKinds
  <2> QED
    BY <2>1, IterType, NewType
<1> QED
  BY <1>1, <1>2, BuiltinType, RandIntType, HostType, FaultTypes DEF CallResult

\* Generator and IterableValue::iterate.
LEMMA IterateType ==
  ASSUME NEW h, NEW p \in Ptr
  PROVE  IsResult(IterateResult(h, p))
<1>1. "List" \in IteratorKinds /\ "DictKey" \in IteratorKinds /\ {} \in SUBSET STRING
  BY DEF IteratorKinds
<1>2. IsResult(New(Iter("List", p, 0, 0, {}))) /\ IsResult(New(Iter("DictKey", p, 0, 0, {})))
  BY <1>1, IterType, NewType
<1>3. IsResult(Raise("Can't iterate"))
  BY RaiseType DEF Unthrown
<1> QED
  BY <1>2, <1>3, UseType, FaultTypes DEF IterateResult

-----------------------------------------------------------------------------
(* Scopes. *)

\* A sequence is a sequence over its own elements.
LEMMA RangeSeq ==
  ASSUME NEW S, NEW s \in Seq(S)
  PROVE  s \in Seq(Range(s))
<1>1. Len(s) \in Nat /\ s \in [1 .. Len(s) -> S] /\ DOMAIN s = 1 .. Len(s)
  BY LenProperties
<1>2. s \in [1 .. Len(s) -> Range(s)]
  BY <1>1 DEF Range
<1> QED
  BY <1>1, <1>2, SeqDef

\* A scope with one more binding.
LEMMA PutScope ==
  ASSUME NEW s, IsScope(s), NEW x \in STRING, NEW p \in Ptr
  PROVE  IsScope([s EXCEPT !.values = Put(@, x, p)])
BY DEF IsScope, Put

\* Scope::set_value.
LEMMA SetValueType ==
  ASSUME NEW sc, ScopesOK(sc), NEW x \in STRING, NEW p \in Ptr
  PROVE  ScopesOK(SetValue(sc, x, p))
<1> DEFINE put(i) == [sc[i] EXCEPT !.values = Put(@, x, p)]
           new == SetValue(sc, x, p)
<1>1. Len(sc) \in Nat \ {0} /\ DOMAIN sc = 1 .. Len(sc)
  BY EmptySeq, LenProperties DEF ScopesOK
<1>2. /\ DOMAIN new = DOMAIN sc
      /\ new \in [DOMAIN sc -> Range(new)]
      /\ \A i \in DOMAIN sc : new[i] \in {sc[i], put(i)}
  BY DEF SetValue, Range
<1>3. new \in Seq(Range(new)) /\ new # << >>
  BY <1>1, <1>2, SeqDef
<1>4. \A i \in DOMAIN sc : IsScope(put(i))
  BY PutScope DEF ScopesOK
<1> QED
  BY <1>2, <1>3, <1>4 DEF ScopesOK

\* A scope that was just made.
LEMMA FreshScope == IsScope(Fresh)
BY DEF IsScope, Fresh, Empty

\* The chain with a new innermost scope.
LEMMA OpenedScopes ==
  ASSUME NEW sc, ScopesOK(sc)
  PROVE  ScopesOK(Append(sc, Fresh))
<1> DEFINE S == Range(sc) \cup {Fresh}
<1>1. sc \in Seq(S) /\ Fresh \in S
  BY SeqMonotonic DEF ScopesOK
<1>2. /\ Append(sc, Fresh) \in Seq(S) /\ Append(sc, Fresh) # << >>
      /\ Len(Append(sc, Fresh)) = Len(sc) + 1
      /\ \A i \in 1 .. Len(sc) : Append(sc, Fresh)[i] = sc[i]
      /\ Append(sc, Fresh)[Len(sc) + 1] = Fresh
  BY <1>1, AppendProperties
<1>3. /\ DOMAIN Append(sc, Fresh) = 1 .. Len(sc) + 1
      /\ Len(sc) \in Nat /\ DOMAIN sc = 1 .. Len(sc)
  BY <1>1, <1>2, LenProperties
<1>4. \A i \in 1 .. Len(sc) + 1 : IsScope(Append(sc, Fresh)[i])
  BY <1>2, <1>3, FreshScope DEF ScopesOK
<1> QED
  BY <1>2, <1>3, <1>4, RangeSeq DEF ScopesOK

\* The chain without its innermost scope.
LEMMA ClosedScopes ==
  ASSUME NEW sc, ScopesOK(sc), Len(sc) > 1
  PROVE  ScopesOK(Front(sc))
<1>1. /\ Front(sc) \in Seq(Range(sc)) /\ Len(sc) \in Nat \ {0}
      /\ Len(Front(sc)) = Len(sc) - 1
      /\ \A i \in 1 .. Len(sc) - 1 : Front(sc)[i] = sc[i]
  BY Ends DEF ScopesOK
<1>2. /\ DOMAIN Front(sc) = 1 .. Len(sc) - 1 /\ DOMAIN sc = 1 .. Len(sc)
      /\ Front(sc) # << >>
  BY <1>1, LenProperties, EmptySeq DEF ScopesOK
<1>3. \A i \in 1 .. Len(sc) - 1 : IsScope(Front(sc)[i])
  BY <1>1, <1>2 DEF ScopesOK
<1> QED
  BY <1>1, <1>2, <1>3, RangeSeq DEF ScopesOK

\* The outermost scope alone.
LEMMA GlobalScope ==
  ASSUME NEW sc, ScopesOK(sc)
  PROVE  ScopesOK(<<sc[1]>>)
<1>1. Len(sc) \in Nat \ {0} /\ DOMAIN sc = 1 .. Len(sc)
  BY EmptySeq, LenProperties DEF ScopesOK
<1>2. IsScope(sc[1])
  BY <1>1 DEF ScopesOK
<1>3. <<sc[1]>> \in Seq({sc[1]}) /\ <<sc[1]>> # << >> /\ DOMAIN <<sc[1]>> = {1} /\ <<sc[1]>>[1] = sc[1]
  OBVIOUS
<1> QED
  BY <1>2, <1>3, RangeSeq DEF ScopesOK

\* Scope::terminate on the innermost scope.
LEMMA TerminatedScopes ==
  ASSUME NEW sc, ScopesOK(sc)
  PROVE  ScopesOK([sc EXCEPT ![Len(sc)].terminated = TRUE])
<1> DEFINE last == [sc[Len(sc)] EXCEPT !.terminated = TRUE]
           new == [sc EXCEPT ![Len(sc)].terminated = TRUE]
<1>1. Len(sc) \in Nat \ {0} /\ DOMAIN sc = 1 .. Len(sc)
  BY EmptySeq, LenProperties DEF ScopesOK
<1>2. IsScope(last)
  BY <1>1 DEF ScopesOK, IsScope
<1>3. new = [sc EXCEPT ![Len(sc)] = last]
  OBVIOUS
<1>4. /\ DOMAIN new = 1 .. Len(sc)
      /\ new \in [1 .. Len(sc) -> Range(new)]
      /\ \A i \in 1 .. Len(sc) : IsScope(new[i])
  BY <1>1, <1>2, <1>3 DEF ScopesOK, Range
<1> HIDE DEF new
<1>5. new \in Seq(Range(new)) /\ new # << >>
  BY <1>1, <1>4, SeqDef
<1>6. ScopesOK(new)
  BY <1>4, <1>5 DEF ScopesOK
<1> QED
  BY <1>6 DEF new

-----------------------------------------------------------------------------
(* Frames. *)

\* An activation that starts.
LEMMA NewFrameType ==
  ASSUME NEW type \in DOMAIN Handler, NEW start \in Nat, NEW ls \in LoopStates
  PROVE  NewFrame(type, start, ls) \in Frame
<1>1. type \in NodeTypes
  BY DEF Handler, NodeTypes
<1>2. Handler[type] \in Seq(Steps)
  BY HandlerType
<1>3. "TopLevel" \in LoopStates /\ << >> \in Texts
  BY DEF LoopStates, Texts
<1> QED
  BY <1>1, <1>2, <1>3 DEF NewFrame, Frame

\* A frame with one more pointer.
LEMMA PushType ==
  ASSUME NEW f \in Frame, NEW p \in Ptr
  PROVE  Push(f, p) \in Frame
<1>1. Append(f.vals, p) \in Seq(Ptr)
  BY AppendProperties DEF Frame
<1> QED
  BY <1>1 DEF Push, Frame

\* A frame with more steps.
LEMMA ThenType ==
  ASSUME NEW f \in Frame, NEW steps \in Seq(Steps)
  PROVE  Then(f, steps) \in Frame
<1>1. steps \o f.todo \in Seq(Steps)
  BY ConcatProperties DEF Frame
<1> QED
  BY <1>1 DEF Then, Frame

\* A frame that has read an operator or names.
LEMMA ReadingType ==
  ASSUME NEW f \in Frame, NEW texts \in Texts
  PROVE  Reading(f, texts) \in Frame
BY DEF Reading, Frame

\* The innermost activation and those below it.
LEMMA TopType ==
  ASSUME TypeOK, stack # << >>
  PROVE  Top \in Frame /\ Front(stack) \in Seq(Frame)
BY Ends DEF TypeOK, Top

\* A frame after its step.
LEMMA DoneType ==
  ASSUME TypeOK, stack # << >>, Top.todo # << >>,
         NEW n \in Nat, n <= Len(Top.vals)
  PROVE  Done(n) \in Frame
<1>1. /\ Top \in Frame /\ Top.todo \in Seq(Steps) /\ Top.vals \in Seq(Ptr)
      /\ Len(Top.vals) \in Nat
  BY TopType, LenProperties DEF Frame
<1>2. Tail(Top.todo) \in Seq(Steps)
  BY <1>1, HeadTailProperties
<1>3. SubSeq(Top.vals, 1, Len(Top.vals) - n) \in Seq(Ptr)
  BY <1>1, Prefix
<1> QED
  BY <1>1, <1>2, <1>3 DEF Done, Frame

\* What every guard of a step says.
LEMMA AtType ==
  ASSUME TypeOK, NEW step, NEW n \in Nat, At(step, n)
  PROVE  /\ outcome = "running" /\ stack # << >>
         /\ Top \in Frame /\ Top.todo # << >> /\ Front(stack) \in Seq(Frame)
         /\ Top.vals \in Seq(Ptr) /\ Len(Top.vals) \in Nat /\ Len(Top.vals) >= n
         /\ \A i \in 1 .. Len(Top.vals) : Top.vals[i] \in Ptr
         /\ n > 0 => Last(Top.vals) \in Ptr
         /\ \A k \in 0 .. n : Done(k) \in Frame
         /\ Done(Len(Top.vals)) \in Frame
<1>1. outcome = "running" /\ stack # << >> /\ Top.todo # << >> /\ Len(Top.vals) >= n
  BY DEF At
<1>2. Top \in Frame /\ Front(stack) \in Seq(Frame)
  BY <1>1, TopType
<1>3. Top.vals \in Seq(Ptr)
  BY <1>2 DEF Frame
<1>4. Len(Top.vals) \in Nat /\ \A i \in 1 .. Len(Top.vals) : Top.vals[i] \in Ptr
  BY <1>3, LenProperties, ElementOfSeq
<1>5. n > 0 => Last(Top.vals) \in Ptr
  BY <1>1, <1>4 DEF Last
<1>6. \A k \in 0 .. n : Done(k) \in Frame
  BY <1>1, <1>4, DoneType
<1>7. Done(Len(Top.vals)) \in Frame
  BY <1>1, <1>4, DoneType
<1> QED
  BY <1>1, <1>2, <1>3, <1>4, <1>5, <1>6, <1>7

-----------------------------------------------------------------------------
(* The parts of every step. *)

\* The types are kept, and execute() does not end with a Boolean.
Kept == TypeOK' /\ (outcome' = outcome \/ outcome' \notin Unthrown)

\* A step that goes on keeps the types.
LEMMA ResumeType ==
  ASSUME TypeOK, stack # << >>, NEW f \in Frame, NEW p \in Nat,
         NEW h, brk' \in Nat, HeapOK(h, brk'), Resume(f, p, h)
  PROVE  Kept
<1>1. stack' \in Seq(Frame) /\ stack' # << >>
  BY TopType, AppendProperties DEF Resume
<1>2. HeapOK(heap', brk')
  BY CollectType DEF Resume, Settle
<1> QED
  BY <1>1, <1>2 DEF Kept, TypeOK, Resume, IsCode

\* The end of execute() keeps the types, ...
LEMMA EndType ==
  ASSUME TypeOK, NEW msg, msg \notin {"idle", "running"}, Fail(msg)
  PROVE  TypeOK'
<1>1. HeapOK(heap', brk')
  BY CollectType DEF TypeOK, Fail, Settle
<1>2. ScopesOK(scopes')
  BY GlobalScope DEF TypeOK, Fail
<1> QED
  BY <1>1, <1>2 DEF TypeOK, Fail, IsCode

\* ... and so does an exception, ...
LEMMA FailType ==
  ASSUME TypeOK, NEW msg, msg \notin Unthrown, Fail(msg)
  PROVE  Kept
BY EndType DEF Kept, Unthrown, Fail

\* ... and the end of the arena.
LEMMA FullType ==
  ASSUME TypeOK, Fail(Full)
  PROVE  Kept
BY FailType DEF Full, Unthrown

\* A step with a result keeps the types.
LEMMA YieldType ==
  ASSUME TypeOK, stack # << >>, NEW r, IsResult(r), NEW f \in Frame,
         NEW p \in Nat, Yield(r, f, p)
  PROVE  Kept
<1>1. CASE r.kind = "raise" /\ Fail(r.msg)
  BY <1>1, FailType DEF IsResult
<1>2. CASE r.kind = "use" /\ Resume(Push(f, r.ptr), p, heap) /\ UNCHANGED brk
  <2>1. Push(f, r.ptr) \in Frame
    BY <1>2, PushType DEF IsResult
  <2>2. brk' \in Nat /\ HeapOK(heap, brk')
    BY <1>2 DEF TypeOK
  <2> QED
    BY <1>2, <2>1, <2>2, ResumeType
<1>3. CASE r.kind = "new" /\ brk >= ArenaObjects /\ Fail(Full)
  BY <1>3, FullType
<1>4. CASE /\ r.kind = "new" /\ brk < ArenaObjects
           /\ brk' = brk + 1
           /\ Resume(Push(f, brk + 1), p, Put(heap, brk + 1, r.obj))
  <2>1. brk + 1 \in Ptr /\ brk' \in Nat
    BY <1>4 DEF TypeOK, Ptr
  <2>2. Push(f, brk + 1) \in Frame
    BY <2>1, PushType
  <2>3. HeapOK(Put(heap, brk + 1, r.obj), brk')
    BY <1>4, GrowType DEF TypeOK, IsResult
  <2> QED
    BY <1>4, <2>1, <2>2, <2>3, ResumeType
<1> QED
  BY <1>1, <1>2, <1>3, <1>4 DEF Yield

\* So does a step without one.
LEMMA StepType ==
  ASSUME TypeOK, stack # << >>, NEW f \in Frame, NEW p \in Nat, Step(f, p)
  PROVE  Kept
BY ResumeType DEF Step, TypeOK

-----------------------------------------------------------------------------
(* One lemma for each action, or for each group of actions of one shape. *)

\* What a field holds.
LEMMA FieldType ==
  ASSUME TypeOK
  PROVE  /\ pos + 1 \in Nat /\ pos + 2 \in Nat /\ pos \in Nat
         /\ \A p : Reads("node", p) => code[p].val \in NodeTypes
         /\ \A p : Reads("u32", p) => code[p].val \in Nat
         /\ \A p : Reads("i32", p) => code[p].val \in Int
         /\ \A p : Reads("str", p) => code[p].val \in STRING
         /\ \A p : Reads("op", p) => code[p].val \in STRING
BY DEF TypeOK, IsCode, IsField, Reads

\* What a child gets is a loop_state.
LEMMA ChildLoopStateType ==
  ASSUME NEW f \in Frame, NEW step
  PROVE  ChildLoopState(f, step) \in LoopStates
BY DEF ChildLoopState, Frame, LoopStates

\* Entering a node.
LEMMA EnterKeepsTypes ==
  ASSUME TypeOK, NEW step, Enter(step)
  PROVE  Kept
<1> DEFINE type == code[pos].val
           new == NewFrame(type, pos, ChildLoopState(Top, step))
<1>1. outcome = "running" /\ stack # << >> /\ Top \in Frame
  BY AtType DEF Enter
<1>2. CASE type \notin DOMAIN Handler
  <2>1. Fail("Unknown node type!")
    BY <1>2 DEF Enter
  <2> QED
    BY <2>1, FailType DEF Unthrown
<1>3. CASE type \in DOMAIN Handler
  <2>1. /\ stack' = Append(stack, new)
        /\ pos' = pos + 1
        /\ UNCHANGED <<prog, code, scopes, heap, brk, modules, outcome>>
    BY <1>3 DEF Enter
  <2>2. new \in Frame
    BY <1>1, <1>3, ChildLoopStateType, NewFrameType, FieldType
  <2>3. stack' \in Seq(Frame) /\ stack' # << >>
    BY <2>1, <2>2, AppendProperties DEF TypeOK
  <2> QED
    BY <1>1, <2>1, <2>3 DEF Kept, TypeOK, IsCode
<1> QED
  BY <1>2, <1>3

\* Skipping a node.
LEMMA SkipKeepsTypes ==
  ASSUME TypeOK, Skip
  PROVE  Kept
<1> DEFINE type == code[pos].val
<1>1. stack # << >> /\ Done(0) \in Frame
  <2>1. CASE At("skip", 0)
    BY <2>1, AtType
  <2>2. CASE At("stmt", 0)
    BY <2>2, AtType
  <2> QED
    BY <2>1, <2>2 DEF Skip
<1>2. CASE type \notin DOMAIN Skipper
  <2>1. Fail("Failed to skip unknown node type!")
    BY <1>2 DEF Skip
  <2> QED
    BY <2>1, FailType DEF Unthrown
<1>3. CASE type \in DOMAIN Skipper
  <2>1. Step(Then(Done(0), Skipper[type]), pos + 1)
    BY <1>3 DEF Skip
  <2>2. Then(Done(0), Skipper[type]) \in Frame
    BY <1>1, <1>3, SkipperType, ThenType
  <2> QED
    BY <1>1, <2>1, <2>2, FieldType, StepType
<1> QED
  BY <1>2, <1>3

\* Ignoring a field.
LEMMA DropKeepsTypes ==
  ASSUME TypeOK, Drop
  PROVE  Kept
<1>1. PICK step \in DOMAIN Dropped : At(step, 0) /\ Step(Done(0), pos + 1)
  BY DEF Drop
<1>2. stack # << >> /\ Done(0) \in Frame
  BY <1>1, AtType
<1> QED
  BY <1>1, <1>2, FieldType, StepType

\* Starting a counted loop.
LEMMA CountKeepsTypes ==
  ASSUME TypeOK, Count
  PROVE  Kept
<1>1. PICK step \in DOMAIN Repeats :
        /\ At(step, 0) /\ Reads("u32", pos)
        /\ Step(Then(Done(0), Times(code[pos].val, Repeats[step])), pos + 1)
  BY DEF Count
<1>2. stack # << >> /\ Done(0) \in Frame
  BY <1>1, AtType
<1>3. Times(code[pos].val, Repeats[step]) \in Seq(Steps)
  BY <1>1, FieldType, RepeatsType, TimesType
<1>4. Then(Done(0), Times(code[pos].val, Repeats[step])) \in Frame
  BY <1>2, <1>3, ThenType
<1> QED
  BY <1>1, <1>2, <1>4, FieldType, StepType

\* The caller after its child returned.
LEMMA ReceivedType ==
  ASSUME NEW p \in Frame, p.todo # << >>, NEW v \in Ptr, NEW l \in LoopStates
  PROVE  Received(p, v, l) \in Frame
<1>1. Tail(p.todo) \in Seq(Steps)
  BY HeadTailProperties DEF Frame
<1>2. /\ Append(p.vals, v) \in Seq(Ptr) /\ <<v>> \in Seq(Ptr) /\ p.vals \in Seq(Ptr)
      /\ p.ls \in LoopStates /\ p.body \in LoopStates
  BY AppendProperties DEF Frame
<1> QED
  BY <1>1, <1>2 DEF Received, Frame

\* Leaving a node.
LEMMA ReturnKeepsTypes ==
  ASSUME TypeOK, Return
  PROVE  Kept
<1> DEFINE caller == stack[Len(stack) - 1]
           under == Front(Front(stack))
           new == Received(caller, ReturnValue(Top), Top.ls)
<1>1. /\ outcome = "running" /\ Len(stack) > 1
      /\ caller.todo # << >>
      /\ stack' = Append(under, new)
      /\ pos' = IF Top.ls \in {"None", "Normal"} THEN pos ELSE Top.start
      /\ UNCHANGED <<prog, code, scopes, brk, modules, outcome>>
      /\ Settle(heap)
  BY DEF Return
<1>2. stack \in Seq(Frame) /\ stack # << >> /\ Len(stack) \in Nat
  BY <1>1, LenProperties DEF TypeOK
<1>3. Top \in Frame /\ caller \in Frame
  <2>1. Len(stack) - 1 \in 1 .. Len(stack)
    BY <1>1, <1>2
  <2> QED
    BY <1>2, <2>1, TopType, ElementOfSeq
<1>4. under \in Seq(Frame)
  <2>1. Front(stack) \in Seq(Frame) /\ Len(Front(stack)) = Len(stack) - 1
    BY <1>2, Ends
  <2>2. Front(stack) # << >>
    BY <1>1, <1>2, <2>1, EmptySeq
  <2> QED
    BY <2>1, <2>2, Ends
<1>5. ReturnValue(Top) \in Ptr
  <2>1. Top.vals \in Seq(Ptr) /\ Null \in Ptr
    BY <1>3 DEF Frame, Null, Ptr
  <2>2. Top.vals # << >> => Last(Top.vals) \in Ptr
    BY <2>1, Ends
  <2> QED
    BY <2>1, <2>2 DEF ReturnValue
<1>6. new \in Frame
  <2>1. Top.ls \in LoopStates
    BY <1>3 DEF Frame
  <2> QED
    BY <1>1, <1>3, <1>5, <2>1, ReceivedType
<1>7. stack' \in Seq(Frame) /\ stack' # << >>
  <2> HIDE DEF under, new
  <2> QED
    BY <1>1, <1>4, <1>6, AppendProperties
<1>8. pos' \in Nat
  BY <1>1, <1>3 DEF Frame, TypeOK
<1>9. HeapOK(heap', brk')
  BY <1>1, CollectType DEF Settle, TypeOK
<1> QED
  BY <1>1, <1>7, <1>8, <1>9 DEF Kept, TypeOK, IsCode

\* Reading an operator.
LEMMA ReadOpKeepsTypes ==
  ASSUME TypeOK, ReadOp
  PROVE  Kept
<1>1. At("op", 0) /\ Reads("op", pos) /\ Step(Reading(Done(0), <<code[pos].val>>), pos + 1)
  BY DEF ReadOp
<1>2. stack # << >> /\ Done(0) \in Frame
  BY <1>1, AtType
<1>3. <<code[pos].val>> \in Texts
  BY <1>1, FieldType DEF Texts
<1> QED
  BY <1>1, <1>2, <1>3, ReadingType, FieldType, StepType

\* The target of an assignment or of a loop.
LEMMA NamesType ==
  ASSUME TypeOK, IsName(pos) \/ IsPair(pos)
  PROVE  /\ NamesAt(pos) \in Texts /\ NamesAt(pos) # << >>
         /\ PastNames(pos) \in Nat
<1>1. pos \in Nat /\ PastNames(pos) \in Nat
  BY FieldType DEF PastNames
<1>2. CASE IsName(pos)
  <2>1. code[pos + 1].val \in STRING
    BY <1>2, FieldType DEF IsName
  <2> QED
    BY <1>1, <1>2, <2>1 DEF NamesAt, Texts
<1>3. CASE ~ IsName(pos)
  <2>1. (pos + 2) + 1 = pos + 3 /\ (pos + 4) + 1 = pos + 5
    BY <1>1
  <2>2. code[pos + 3].val \in STRING /\ code[pos + 5].val \in STRING
    BY <1>3, <2>1, FieldType DEF IsName, IsPair
  <2> QED
    BY <1>1, <1>3, <2>2 DEF NamesAt, Texts
<1> QED
  BY <1>2, <1>3

\* What the names read are good for.
LEMMA TextsType ==
  ASSUME NEW texts \in Texts, texts # << >>
  PROVE  /\ texts[1] \in STRING /\ Len(texts) \in {1, 2}
         /\ Len(texts) # 1 => texts[2] \in STRING
<1>1. CASE texts \in [1 .. 0 -> STRING]
  BY <1>1
<1>2. CASE texts \in [1 .. 1 -> STRING]
  BY <1>2
<1>3. CASE texts \in [1 .. 2 -> STRING]
  BY <1>3
<1> QED
  BY <1>1, <1>2, <1>3 DEF Texts

\* read_name.
LEMMA ReadNameKeepsTypes ==
  ASSUME TypeOK, ReadName
  PROVE  Kept
<1>1. stack # << >> /\ Done(0) \in Frame
  <2>1. At("name", 0)
    BY DEF ReadName
  <2> QED
    BY <2>1, AtType
<1>2. CASE IsName(pos)
  <2>1. Step(Reading(Done(0), NamesAt(pos)), PastNames(pos))
    BY <1>2 DEF ReadName
  <2> QED
    BY <1>1, <1>2, <2>1, NamesType, ReadingType, StepType
<1>3. CASE ~ IsName(pos)
  <2>1. Fail("Not a valid name")
    BY <1>3 DEF ReadName
  <2> QED
    BY <2>1, FailType DEF Unthrown
<1> QED
  BY <1>2, <1>3

\* What read_names and read_name throw.
LEMMA NamesFaultType == NamesFault(pos) \notin Unthrown
BY DEF NamesFault, Unthrown

\* read_names.
LEMMA ReadNamesKeepsTypes ==
  ASSUME TypeOK, ReadNames
  PROVE  Kept
<1>1. stack # << >> /\ Done(0) \in Frame
  <2>1. CASE At("names", 0)
    BY <2>1, AtType
  <2>2. CASE At("dropNames", 0)
    BY <2>2, AtType
  <2> QED
    BY <2>1, <2>2 DEF ReadNames
<1>2. CASE IsName(pos) \/ IsPair(pos)
  <2>1. \/ Step(Reading(Done(0), NamesAt(pos)), PastNames(pos))
        \/ Step(Done(0), PastNames(pos))
    BY <1>2 DEF ReadNames
  <2> QED
    BY <1>1, <1>2, <2>1, NamesType, ReadingType, StepType
<1>3. CASE ~ (IsName(pos) \/ IsPair(pos))
  <2>1. Fail(NamesFault(pos))
    BY <1>3 DEF ReadNames
  <2> QED
    BY <2>1, FailType, NamesFaultType
<1> QED
  BY <1>2, <1>3

\* Scope::get_value.
LEMMA GetValueType ==
  ASSUME NEW sc, ScopesOK(sc), NEW x \in STRING, NEW r \in GetValue(sc, x)
  PROVE  IsResult(r)
<1>1. IsResult(Use(Null)) /\ IsResult(Raise("No such value")) /\ IsResult(New(Builtin(x)))
  BY UseType, RaiseType, NewType, ObjectTypes DEF Null, Ptr, Unthrown
<1>2. ASSUME NEW i \in Holders(sc, x)
      PROVE  IsResult(Use(sc[i].values[x]))
  BY UseType DEF Holders, ScopesOK, IsScope
<1> QED
  BY <1>1, <1>2 DEF GetValue

\* NodeType::Name.
LEMMA LookupKeepsTypes ==
  ASSUME TypeOK, Lookup
  PROVE  Kept
<1> DEFINE x == code[pos].val
           found == CASE x = "False" -> { New(Bool(FALSE)) }
                      [] x = "True"  -> { New(Bool(TRUE)) }
                      [] OTHER       -> GetValue(scopes, x)
<1>1. At("lookup", 0) /\ Reads("str", pos) /\ \E r \in found : Yield(r, Done(0), pos + 1)
  BY DEF Lookup
<1>2. PICK r \in found : Yield(r, Done(0), pos + 1)
  BY <1>1
<1>3. stack # << >> /\ Done(0) \in Frame
  BY <1>1, AtType
<1>4. IsResult(New(Bool(FALSE))) /\ IsResult(New(Bool(TRUE)))
  BY ObjectTypes, NewType
<1>5. ASSUME r \in GetValue(scopes, x)
      PROVE  IsResult(r)
  BY <1>1, <1>5, FieldType, GetValueType DEF TypeOK
<1>6. IsResult(r)
  BY <1>2, <1>4, <1>5
<1> QED
  BY <1>2, <1>3, <1>6, FieldType, YieldType

\* Literals allocate one object.
LEMMA LiteralsKeepTypes ==
  ASSUME TypeOK, String \/ Integer \/ NewList \/ NewDictionary
  PROVE  Kept
<1>1. CASE String
  <2>1. IsResult(New(Str(code[pos].val)))
    BY ObjectTypes, NewType
  <2> QED
    BY <1>1, <2>1, AtType, FieldType, YieldType DEF String
<1>2. CASE Integer
  <2>1. IsResult(New(Int32(code[pos].val)))
    BY <1>2, FieldType, Int32Type, NewType DEF Integer
  <2> QED
    BY <1>2, <2>1, AtType, FieldType, YieldType DEF Integer
<1>3. CASE NewList
  <2>1. IsResult(New(List(<< >>)))
    BY ObjectTypes, NewType, EmptySeq
  <2> QED
    BY <1>3, <2>1, AtType, FieldType, YieldType DEF NewList
<1>4. CASE NewDictionary
  <2>1. IsResult(New(Dict(Empty)))
    BY DictType, NewType DEF Empty
  <2> QED
    BY <1>4, <2>1, AtType, FieldType, YieldType DEF NewDictionary
<1> QED
  BY <1>1, <1>2, <1>3, <1>4

\* A list under construction grows.
LEMMA AppendElementKeepsTypes ==
  ASSUME TypeOK, AppendElement
  PROVE  Kept
<1> DEFINE p == Top.vals[1]
           o == List(Append(heap[p].val, Top.vals[2]))
<1>1. /\ At("append", 2) /\ Is(heap, p, "List")
      /\ Resume(Done(1), pos, Put(heap, p, o))
      /\ UNCHANGED brk
  BY DEF AppendElement
<1>2. stack # << >> /\ Done(1) \in Frame /\ Top.vals[2] \in Ptr
  BY <1>1, AtType
<1>3. IsObject(o)
  <2>1. heap[p].val \in Seq(Ptr)
    BY <1>1 DEF TypeOK, HeapOK, Is, IsObject
  <2> QED
    BY <1>2, <2>1, AppendProperties, ObjectTypes
<1>4. brk' \in Nat /\ HeapOK(Put(heap, p, o), brk')
  <2>1. p \in 1 .. brk /\ brk \in Nat /\ HeapOK(heap, brk)
    BY <1>1 DEF TypeOK, HeapOK, Is
  <2> QED
    BY <1>1, <1>3, <2>1, PutType
<1> QED
  BY <1>1, <1>2, <1>4, FieldType, ResumeType

\* A dictionary under construction grows.
LEMMA InsertEntryKeepsTypes ==
  ASSUME TypeOK, InsertEntry
  PROVE  Kept
<1> DEFINE p == Top.vals[1]
           d == Put(heap[p].val, Top.rd[1], Top.vals[2])
<1>1. /\ At("insert", 2) /\ Top.rd # << >> /\ Is(heap, p, "Dictionary")
      /\ Resume(Done(1), pos, Put(heap, p, Dict(d)))
      /\ UNCHANGED brk
  BY DEF InsertEntry
<1>2. stack # << >> /\ Done(1) \in Frame /\ Top.vals[2] \in Ptr /\ Top \in Frame
  BY <1>1, AtType
<1>3. Top.rd \in Texts
  BY <1>2 DEF Frame
<1>4. IsObject(Dict(d))
  <2>1. /\ DOMAIN heap[p].val \subseteq STRING
        /\ \A k \in DOMAIN heap[p].val : heap[p].val[k] \in Ptr
    BY <1>1 DEF TypeOK, HeapOK, Is, IsObject
  <2>2. Top.rd[1] \in STRING
    BY <1>1, <1>3, TextsType
  <2>3. DOMAIN d \subseteq STRING /\ \A k \in DOMAIN d : d[k] \in Ptr
    BY <1>2, <2>1, <2>2 DEF Put
  <2> QED
    BY <2>3, DictType
<1>5. brk' \in Nat /\ HeapOK(Put(heap, p, Dict(d)), brk')
  <2>1. p \in 1 .. brk /\ brk \in Nat /\ HeapOK(heap, brk)
    BY <1>1 DEF TypeOK, HeapOK, Is
  <2> QED
    BY <1>1, <1>4, <2>1, PutType
<1> QED
  BY <1>1, <1>2, <1>5, FieldType, ResumeType

\* The operators on values.
LEMMA OperatorsKeepTypes ==
  ASSUME TypeOK, Unary \/ Binary \/ Compare \/ Subscript \/ Attribute
  PROVE  Kept
<1>1. brk \in Nat /\ HeapOK(heap, brk)
  BY DEF TypeOK
<1>2. CASE Unary
  BY <1>1, <1>2, AtType, FieldType, UnaryType, YieldType DEF Unary
<1>3. CASE Binary
  BY <1>1, <1>3, AtType, FieldType, BinaryType, YieldType DEF Binary
<1>4. CASE Compare
  BY <1>4, AtType, FieldType, CompareType, YieldType DEF Compare
<1>5. CASE Subscript
  BY <1>1, <1>5, AtType, FieldType, SubscriptType, YieldType DEF Subscript
<1>6. CASE Attribute
  <2>1. /\ At("attribute", 1) /\ Top.rd # << >>
        /\ Yield(AttributeResult(heap, Top.vals[1], Top.rd[1]), Done(1), pos)
    BY <1>6 DEF Attribute
  <2>2. stack # << >> /\ Done(1) \in Frame /\ Top.vals[1] \in Ptr /\ Top.rd \in Texts
    BY <2>1, AtType DEF Frame
  <2>3. IsResult(AttributeResult(heap, Top.vals[1], Top.rd[1]))
    BY <1>1, <2>1, <2>2, TextsType, AttributeType
  <2> QED
    BY <2>1, <2>2, <2>3, FieldType, YieldType
<1> QED
  BY <1>2, <1>3, <1>4, <1>5, <1>6

\* NodeType::BoolOp, after an operand.
LEMMA DecideKeepsTypes ==
  ASSUME TypeOK, Decide
  PROVE  Kept
<1> DEFINE left == (Len(Top.todo) - 2) \div 2
           skips == Times(left, <<"skip">>) \o <<"decided">>
<1>1. /\ At("decide", 1)
      /\ \/ Fail("not a valid bool operation")
         \/ Step(Done(1), pos)
         \/ Step([Done(1) EXCEPT !.todo = skips], pos)
  BY DEF Decide
<1>2. stack # << >> /\ Done(1) \in Frame /\ Top \in Frame
  <2>1. At("decide", 1)
    BY <1>1
  <2> QED
    BY <2>1, AtType
<1>3. CASE Fail("not a valid bool operation")
  BY <1>3, FailType DEF Unthrown
<1>4. CASE Step(Done(1), pos)
  BY <1>2, <1>4, FieldType, StepType
<1>5. CASE Step([Done(1) EXCEPT !.todo = skips], pos)
  <2>1. skips \in Seq(Steps)
    <3>1. left \in Int
      <4>1. Len(Top.todo) \in Nat
        BY <1>2, LenProperties DEF Frame
      <4> QED
        BY <4>1
    <3>2. "skip" \in Steps /\ "decided" \in Steps
      BY DEF Steps
    <3>3. Times(left, <<"skip">>) \in Seq(Steps)
      BY <3>1, <3>2, Short, TimesType
    <3>4. <<"decided">> \in Seq(Steps)
      BY <3>2, Short
    <3> QED
      BY <3>3, <3>4, ConcatProperties
  <2>2. [Done(1) EXCEPT !.todo = skips] \in Frame
    BY <1>2, <2>1 DEF Frame
  <2> QED
    BY <1>2, <1>5, <2>2, FieldType, StepType
<1> QED
  BY <1>1, <1>3, <1>4, <1>5

\* NodeType::BoolOp, its result.
LEMMA DecisionsKeepTypes ==
  ASSUME TypeOK, Decided \/ Undecided
  PROVE  Kept
<1>1. /\ IsResult(New(Bool(Top.rd[1] = "Or")))
      /\ IsResult(New(Bool(Top.rd[1] = "And")))
  BY ObjectTypes, NewType
<1> QED
  BY <1>1, AtType, FieldType, YieldType DEF Decided, Undecided

\* NodeType::Call, before the arguments.
LEMMA CheckCallableKeepsTypes ==
  ASSUME TypeOK, CheckCallable
  PROVE  Kept
<1>1. /\ At("callable", 1)
      /\ \/ Fail("null dereference") \/ Fail("Cannot call un-callable!")
         \/ Step(Done(0), pos)
  BY DEF CheckCallable
<1>2. stack # << >> /\ Done(0) \in Frame
  <2>1. At("callable", 1)
    BY <1>1
  <2> QED
    BY <2>1, AtType
<1> QED
  BY <1>1, <1>2, FailType, FieldType, StepType DEF Unthrown

\* NodeType::Call, after them.
LEMMA CallKeepsTypes ==
  ASSUME TypeOK, Call
  PROVE  Kept
<1>1. /\ At("call", 1) /\ Top.vals[1] \in DOMAIN heap
      /\ Yield(CallResult(heap, Top.vals[1], Tail(Top.vals)), Done(Len(Top.vals)), pos)
  BY DEF Call
<1>2. stack # << >> /\ Top.vals \in Seq(Ptr) /\ Done(Len(Top.vals)) \in Frame
  BY <1>1, AtType
<1>3. Tail(Top.vals) \in Seq(Ptr)
  <2>1. Top.vals # << >>
    BY <1>1, <1>2 DEF At
  <2> QED
    BY <1>2, <2>1, HeadTailProperties
<1>4. IsResult(CallResult(heap, Top.vals[1], Tail(Top.vals)))
  BY <1>1, <1>3, CallType DEF TypeOK
<1> QED
  BY <1>1, <1>2, <1>4, FieldType, YieldType

\* A step that changes scopes or modules too.
LEMMA ChangeType ==
  ASSUME TypeOK, stack # << >>, NEW f \in Frame, NEW h,
         stack' = Append(Front(stack), f), pos' \in Nat, brk' \in Nat,
         HeapOK(h, brk'), Settle(h), ScopesOK(scopes'), ModulesOK(modules'),
         UNCHANGED <<code, outcome>>
  PROVE  Kept
<1>1. stack' \in Seq(Frame) /\ stack' # << >>
  BY TopType, AppendProperties
<1>2. HeapOK(heap', brk')
  BY CollectType DEF Settle
<1> QED
  BY <1>1, <1>2 DEF Kept, TypeOK, IsCode

\* Binding a name or, if the value is a pair, two.
LEMMA BoundType ==
  ASSUME NEW sc, ScopesOK(sc), NEW texts \in Texts, texts # << >>,
         NEW h, NEW b \in Nat, HeapOK(h, b), NEW p \in Ptr,
         Len(texts) # 1 => Is(h, p, "Tuple")
  PROVE  ScopesOK(Bound(sc, texts, h, p))
<1>1. texts[1] \in STRING
  BY TextsType
<1>2. CASE Len(texts) = 1
  BY <1>1, <1>2, SetValueType DEF Bound
<1>3. CASE Len(texts) # 1
  <2>1. texts[2] \in STRING
    BY <1>3, TextsType
  <2>2. h[p].val[1] \in Ptr /\ h[p].val[2] \in Ptr
    BY <1>3 DEF Is, HeapOK, IsObject
  <2>3. ScopesOK(SetValue(sc, texts[1], h[p].val[1]))
    BY <1>1, <2>2, SetValueType
  <2> QED
    BY <1>3, <2>1, <2>2, <2>3, SetValueType DEF Bound
<1> QED
  BY <1>2, <1>3

\* NodeType::Assign.
LEMMA AssignKeepsTypes ==
  ASSUME TypeOK, Assign
  PROVE  Kept
<1> DEFINE v == Top.vals[1]
<1>1. At("target", 1)
  BY DEF Assign
<1>2. stack # << >> /\ Done(0) \in Frame /\ v \in Ptr
  BY <1>1, AtType
<1>3. CASE ~ (IsName(pos) \/ IsPair(pos))
  <2>1. Fail(NamesFault(pos))
    BY <1>3 DEF Assign
  <2> QED
    BY <2>1, FailType, NamesFaultType
<1>4. CASE IsPair(pos) /\ v \notin DOMAIN heap
  <2>1. Fail("null dereference")
    BY <1>4 DEF Assign
  <2> QED
    BY <2>1, FailType DEF Unthrown
<1>5. CASE IsPair(pos) /\ v \in DOMAIN heap /\ ~ Is(heap, v, "Tuple")
  <2>1. Fail("cannot unpack value")
    BY <1>5 DEF Assign
  <2> QED
    BY <2>1, FailType DEF Unthrown
<1>6. CASE /\ IsName(pos) \/ IsPair(pos)
           /\ ~ (IsPair(pos) /\ ~ Is(heap, v, "Tuple"))
  <2>1. /\ scopes' = Bound(scopes, NamesAt(pos), heap, v)
        /\ stack' = Append(Front(stack), Done(0))
        /\ pos' = PastNames(pos)
        /\ UNCHANGED <<prog, code, brk, modules, outcome>>
        /\ Settle(heap)
    BY <1>6 DEF Assign, Is
  <2>2. NamesAt(pos) \in Texts /\ NamesAt(pos) # << >> /\ PastNames(pos) \in Nat
    BY <1>6, NamesType
  <2>3. Len(NamesAt(pos)) # 1 => Is(heap, v, "Tuple")
    BY <1>6 DEF NamesAt
  <2>4. ScopesOK(scopes')
    BY <1>2, <2>1, <2>2, <2>3, BoundType DEF TypeOK
  <2>5. /\ pos' \in Nat /\ brk' \in Nat /\ HeapOK(heap, brk')
        /\ ModulesOK(modules') /\ UNCHANGED <<code, outcome>>
    BY <2>1, <2>2 DEF TypeOK
  <2> QED
    BY <1>2, <2>1, <2>4, <2>5, ChangeType
<1> QED
  BY <1>3, <1>4, <1>5, <1>6 DEF Is

\* NodeType::AugmentedAssign, the target.
LEMMA FetchKeepsTypes ==
  ASSUME TypeOK, Fetch
  PROVE  Kept
<1>1. At("fetch", 0)
  BY DEF Fetch
<1>2. stack # << >> /\ Done(0) \in Frame
  BY <1>1, AtType
<1>3. CASE IsName(pos)
  <2>1. PICK r \in GetValue(scopes, code[pos + 1].val) : Yield(r, Done(0), pos + 2)
    BY <1>3 DEF Fetch
  <2>2. code[pos + 1].val \in STRING
    BY <1>3, FieldType DEF IsName
  <2>3. IsResult(r)
    BY <2>2, GetValueType DEF TypeOK
  <2> QED
    BY <1>2, <2>1, <2>3, FieldType, YieldType
<1>4. CASE ~ IsName(pos)
  <2>1. Fail("Not a valid name")
    BY <1>4 DEF Fetch
  <2> QED
    BY <2>1, FailType DEF Unthrown
<1> QED
  BY <1>3, <1>4

\* NodeType::AugmentedAssign, the sum: it wraps to an int32_t.
LEMMA AugmentKeepsTypes ==
  ASSUME TypeOK, Augment
  PROVE  Kept
<1> DEFINE target == Top.vals[1]
           value == Top.vals[2]
           o == Int32(heap[target].val + heap[value].val)
<1>1. At("augment", 2)
  BY DEF Augment
<1>2. stack # << >> /\ Done(2) \in Frame
  BY <1>1, AtType
<1>3. CASE Top.rd[1] # "Add"
  <2>1. Fail("Unknown binary op")
    BY <1>3 DEF Augment
  <2> QED
    BY <2>1, FailType DEF Unthrown
<1>4. CASE Top.rd[1] = "Add" /\ ~ Both(heap, target, value, "Integer")
  <2>1. Fail("Values need to be numerics")
    BY <1>4 DEF Augment
  <2> QED
    BY <2>1, FailType DEF Unthrown
<1>5. CASE Top.rd[1] = "Add" /\ Both(heap, target, value, "Integer")
  <2>1. Resume(Done(2), pos, Put(heap, target, o)) /\ UNCHANGED brk
    BY <1>5 DEF Augment
  <2>2. brk \in Nat /\ HeapOK(heap, brk) /\ target \in 1 .. brk
    BY <1>5 DEF TypeOK, HeapOK, Both, Is
  <2>3. heap[target].val + heap[value].val \in Int
    <3>1. heap[target].val \in Int /\ heap[value].val \in Int
      BY <1>5, <2>2, IntegerValue DEF Both
    <3> QED
      BY <3>1
  <2>4. HeapOK(Put(heap, target, o), brk)
    BY <2>2, <2>3, Int32Type, PutType
  <2> QED
    BY <1>2, <2>1, <2>2, <2>4, FieldType, ResumeType
<1> QED
  BY <1>3, <1>4, <1>5

\* NodeType::Alias.
LEMMA MakeAliasKeepsTypes ==
  ASSUME TypeOK, MakeAlias
  PROVE  Kept
<1>1. /\ At("alias", 0) /\ Reads("str", pos) /\ Reads("str", pos + 1)
      /\ Yield(New(Alias(code[pos].val, code[pos + 1].val)), Done(0), pos + 2)
  BY DEF MakeAlias
<1>2. stack # << >> /\ Done(0) \in Frame
  <2>1. At("alias", 0)
    BY <1>1
  <2> QED
    BY <2>1, AtType
<1>3. IsResult(New(Alias(code[pos].val, code[pos + 1].val)))
  <2>1. code[pos].val \in STRING /\ code[pos + 1].val \in STRING
    BY <1>1, FieldType
  <2> QED
    BY <2>1, ObjectTypes, NewType
<1> QED
  BY <1>1, <1>2, <1>3, FieldType, YieldType

\* An Alias object holds two strings.
LEMMA AliasType ==
  ASSUME NEW h, NEW b \in Nat, HeapOK(h, b), NEW p, Is(h, p, "Alias")
  PROVE  h[p].val[1] \in STRING /\ h[p].val[2] \in STRING
BY DEF HeapOK, Is, IsObject

\* get_module, which may allocate the module.
LEMMA LoadKeepsTypes ==
  ASSUME TypeOK, Load
  PROVE  Kept
<1> DEFINE m == IF Top.node = "ImportFrom" THEN Top.rd[1] ELSE heap[Top.vals[1]].val[1]
<1>1. /\ At("load", 1) /\ Is(heap, Top.vals[1], "Alias")
      /\ Top.node = "ImportFrom" => Top.rd # << >>
  BY DEF Load
<1>2. stack # << >> /\ Done(0) \in Frame /\ Top \in Frame
  BY <1>1, AtType
<1>3. m \in STRING
  <2>1. heap[Top.vals[1]].val[1] \in STRING
    BY <1>1, AliasType DEF TypeOK
  <2>2. Top.rd \in Texts
    BY <1>2 DEF Frame
  <2> QED
    BY <1>1, <2>1, <2>2, TextsType
<1>4. CASE Loaded(m)
  <2>1. Yield(Use(modules[m]), Done(0), pos)
    BY <1>4 DEF Load
  <2>2. IsResult(Use(modules[m]))
    BY <1>4, UseType DEF Loaded, TypeOK, ModulesOK
  <2> QED
    BY <1>2, <2>1, <2>2, FieldType, YieldType
<1>5. CASE ~ Loaded(m)
  <2>1. CASE m # "rand"
    <3>1. Fail("Unknown module")
      BY <1>5, <2>1 DEF Load
    <3> QED
      BY <3>1, FailType DEF Unthrown
  <2>2. CASE m = "rand" /\ brk >= ArenaObjects
    <3>1. Fail(Full)
      BY <1>5, <2>2 DEF Load
    <3> QED
      BY <3>1, FullType
  <2>3. CASE m = "rand" /\ ~ (brk >= ArenaObjects)
    <3> DEFINE h == Put(heap, brk + 1, Module(m))
    <3>1. /\ brk' = brk + 1
          /\ modules' = Put(modules, m, brk + 1)
          /\ stack' = Append(Front(stack), Push(Done(0), brk + 1))
          /\ UNCHANGED <<prog, code, pos, scopes, outcome>>
          /\ Settle(h)
      BY <1>5, <2>3 DEF Load
    <3>2. brk + 1 \in Ptr /\ brk' \in Nat
      BY <3>1 DEF TypeOK, Ptr
    <3>3. Push(Done(0), brk + 1) \in Frame
      BY <1>2, <3>2, PushType
    <3>4. HeapOK(h, brk')
      BY <1>3, <3>1, GrowType, ObjectTypes DEF TypeOK
    <3>5. ModulesOK(modules')
      BY <1>3, <3>1, <3>2 DEF TypeOK, ModulesOK, Put
    <3>6. pos' \in Nat /\ ScopesOK(scopes') /\ UNCHANGED <<code, outcome>>
      BY <3>1 DEF TypeOK
    <3> HIDE DEF h
    <3> QED
      BY <1>2, <3>1, <3>2, <3>3, <3>4, <3>5, <3>6, ChangeType
  <2> QED
    BY <2>1, <2>2, <2>3
<1> QED
  BY <1>4, <1>5

\* load_from_module.
LEMMA MemberKeepsTypes ==
  ASSUME TypeOK, Member
  PROVE  Kept
<1>1. /\ At("member", 2)
      /\ Is(heap, Top.vals[1], "Alias") /\ Is(heap, Top.vals[2], "Module")
      /\ Yield(MemberResult(heap[Top.vals[2]].val, heap[Top.vals[1]].val[1]), Done(0), pos)
  BY DEF Member
<1>2. stack # << >> /\ Done(0) \in Frame
  <2>1. At("member", 2)
    BY <1>1
  <2> QED
    BY <2>1, AtType
<1>3. heap[Top.vals[2]].val \in STRING
  BY <1>1 DEF TypeOK, HeapOK, Is, IsObject
<1>4. heap[Top.vals[1]].val[1] \in STRING
  BY <1>1, AliasType DEF TypeOK
<1>5. IsResult(MemberResult(heap[Top.vals[2]].val, heap[Top.vals[1]].val[1]))
  BY <1>3, <1>4, MemberType
<1> QED
  BY <1>1, <1>2, <1>5, FieldType, YieldType

\* The binding that an import makes.
LEMMA BindImportKeepsTypes ==
  ASSUME TypeOK, BindImport
  PROVE  Kept
<1> DEFINE alias == heap[Top.vals[1]].val
           name == IF alias[2] = "" THEN alias[1] ELSE alias[2]
<1>1. /\ At("bind", 2) /\ Is(heap, Top.vals[1], "Alias")
      /\ scopes' = SetValue(scopes, name, Last(Top.vals))
      /\ stack' = Append(Front(stack), Done(0))
      /\ UNCHANGED <<prog, code, pos, brk, modules, outcome>>
      /\ Settle(heap)
  BY DEF BindImport
<1>2. stack # << >> /\ Done(0) \in Frame /\ Last(Top.vals) \in Ptr
  <2>1. At("bind", 2)
    BY <1>1
  <2> QED
    BY <2>1, AtType
<1>3. name \in STRING
  BY <1>1, AliasType DEF TypeOK
<1>4. ScopesOK(scopes')
  BY <1>1, <1>2, <1>3, SetValueType DEF TypeOK
<1>5. /\ pos' \in Nat /\ brk' \in Nat /\ HeapOK(heap, brk')
      /\ ModulesOK(modules') /\ UNCHANGED <<code, outcome>>
  BY <1>1 DEF TypeOK
<1> QED
  BY <1>1, <1>2, <1>4, <1>5, ChangeType

\* NodeType::If and NodeType::IfElse.
LEMMA ChooseKeepsTypes ==
  ASSUME TypeOK, Choose
  PROVE  Kept
<1> DEFINE f == Done(0)
<1>1. /\ At("choose", 1)
      /\ \/ Fail("null dereference") \/ Fail("not a boolean!")
         \/ Step(Then(f, <<"branch">>), pos)
         \/ Step(Push(Then(f, <<"skip">>), Null), pos)
         \/ Step(Then(f, <<"branch", "skip">>), pos)
         \/ Step(Then(f, <<"skip", "branch">>), pos)
  BY DEF Choose
<1>2. stack # << >> /\ f \in Frame
  <2>1. At("choose", 1)
    BY <1>1
  <2> QED
    BY <2>1, AtType
<1>3. /\ <<"branch">> \in Seq(Steps) /\ <<"skip">> \in Seq(Steps)
      /\ <<"branch", "skip">> \in Seq(Steps) /\ <<"skip", "branch">> \in Seq(Steps)
  <2>1. "branch" \in Steps /\ "skip" \in Steps
    BY DEF Steps, ChildSteps
  <2> QED
    BY <2>1, Short
<1>4. /\ Then(f, <<"branch">>) \in Frame /\ Then(f, <<"skip">>) \in Frame
      /\ Then(f, <<"branch", "skip">>) \in Frame /\ Then(f, <<"skip", "branch">>) \in Frame
  BY <1>2, <1>3, ThenType
<1>5. Push(Then(f, <<"skip">>), Null) \in Frame
  BY <1>4, PushType DEF Null, Ptr
<1> HIDE DEF f
<1> QED
  BY <1>1, <1>2, <1>4, <1>5, FailType, FieldType, StepType DEF Unthrown

\* The steps that loops go on with.
LEMMA LoopSteps ==
  /\ <<"body", "again">> \in Seq(Steps) /\ <<"skip">> \in Seq(Steps)
  /\ <<"next">> \in Seq(Steps) /\ << >> \in Seq(Steps)
  /\ Handler["WhileLoop"] \in Seq(Steps)
<1>1. "body" \in Steps /\ "again" \in Steps /\ "skip" \in Steps /\ "next" \in Steps
  BY DEF Steps, ChildSteps
<1>2. "WhileLoop" \in DOMAIN Handler
  BY DEF Handler
<1> QED
  BY <1>1, <1>2, Short, HandlerType

\* NodeType::WhileLoop, after the condition.
LEMMA WhileKeepsTypes ==
  ASSUME TypeOK, While
  PROVE  Kept
<1> DEFINE open == Then(Done(0), <<"body", "again">>)
           skip == Then(Done(0), <<"skip">>)
<1>1. /\ At("while", 1)
      /\ OpenBody(Done(0)) \/ Step(skip, pos)
  BY DEF While
<1>2. stack # << >> /\ Done(0) \in Frame
  <2>1. At("while", 1)
    BY <1>1
  <2> QED
    BY <2>1, AtType
<1>3. open \in Frame /\ skip \in Frame
  BY <1>2, LoopSteps, ThenType
<1>4. CASE OpenBody(Done(0))
  <2>1. /\ stack' = Append(Front(stack), open)
        /\ scopes' = Append(scopes, Fresh)
        /\ UNCHANGED <<prog, code, pos, brk, modules, outcome>>
        /\ Settle(heap)
    BY <1>4 DEF OpenBody
  <2>2. /\ pos' \in Nat /\ brk' \in Nat /\ HeapOK(heap, brk') /\ ScopesOK(scopes')
        /\ ModulesOK(modules') /\ UNCHANGED <<code, outcome>>
    BY <2>1, OpenedScopes DEF TypeOK
  <2> HIDE DEF open
  <2> QED
    BY <1>2, <1>3, <2>1, <2>2, ChangeType
<1>5. CASE Step(skip, pos)
  BY <1>2, <1>3, <1>5, FieldType, StepType
<1> QED
  BY <1>1, <1>4, <1>5

\* NodeType::ForLoop, after the iterable.
LEMMA IterateKeepsTypes ==
  ASSUME TypeOK, Iterate
  PROVE  Kept
<1>1. At("iterate", 1) /\ Yield(IterateResult(heap, Top.vals[1]), Done(0), pos)
  BY DEF Iterate
<1>2. stack # << >> /\ Done(0) \in Frame /\ Top.vals[1] \in Ptr
  BY <1>1, AtType
<1> QED
  BY <1>1, <1>2, IterateType, FieldType, YieldType

\* The end of an iteration by stop_iteration_exception.
LEMMA StopKeepsTypes ==
  ASSUME TypeOK, At("next", 2), Stop
  PROVE  Kept
<1>1. stack # << >> /\ Done(0) \in Frame
  BY AtType
<1>2. Then(Done(0), <<"skip">>) \in Frame
  BY <1>1, LoopSteps, ThenType
<1> QED
  BY <1>1, <1>2, FieldType, StepType DEF Stop

\* An iterator yields a value, for which it may have made objects.
LEMMA BindKeepsTypes ==
  ASSUME TypeOK, At("next", 2), Top.rd # << >>, Top.vals[2] \in DOMAIN heap,
         NEW fresh, Len(fresh) \in Nat,
         \A i \in 1 .. Len(fresh) : IsObject(fresh[i]),
         NEW p \in Ptr, NEW it, IsObject(it), Bind(fresh, p, it)
  PROVE  Kept
<1> DEFINE h == [r \in DOMAIN heap \cup brk + 1 .. brk + Len(fresh) |->
                   IF r > brk THEN fresh[r - brk]
                   ELSE IF r = Top.vals[2] THEN it ELSE heap[r]]
           f == Push(Then(Done(0), <<"body", "again">>), p)
<1>1. CASE brk + Len(fresh) > ArenaObjects
  <2>1. Fail(Full)
    BY <1>1 DEF Bind
  <2> QED
    BY <2>1, FullType
<1>2. CASE /\ ~ (brk + Len(fresh) > ArenaObjects)
           /\ Len(Top.rd) # 1 /\ ~ Is(h, p, "Tuple")
  <2>1. Fail("value_exception")
    BY <1>2 DEF Bind
  <2> QED
    BY <2>1, FailType DEF Unthrown
<1>3. CASE /\ ~ (brk + Len(fresh) > ArenaObjects)
           /\ ~ (Len(Top.rd) # 1 /\ ~ Is(h, p, "Tuple"))
  <2>1. /\ stack' = Append(Front(stack), f)
        /\ scopes' = Bound(Append(scopes, Fresh), Top.rd, h, p)
        /\ brk' = brk + Len(fresh)
        /\ UNCHANGED <<prog, code, pos, modules, outcome>>
        /\ Settle(h)
    BY <1>3 DEF Bind
  <2>2. stack # << >> /\ Done(0) \in Frame /\ Top.rd \in Texts
    <3>1. stack # << >> /\ Done(0) \in Frame /\ Top \in Frame
      BY AtType
    <3> QED
      BY <3>1 DEF Frame
  <2>3. f \in Frame
    BY <2>2, LoopSteps, ThenType, PushType
  <2>4. brk \in Nat /\ brk' \in Nat /\ HeapOK(heap, brk)
    BY <2>1 DEF TypeOK
  <2>5. HeapOK(h, brk')
    <3>1. DOMAIN h \subseteq 1 .. brk'
      BY <2>1, <2>4 DEF HeapOK
    <3>2. ASSUME NEW r \in DOMAIN h
          PROVE  IsObject(h[r])
      <4>1. CASE r > brk
        <5>1. r - brk \in 1 .. Len(fresh) /\ h[r] = fresh[r - brk]
          BY <2>4, <4>1 DEF HeapOK
        <5> QED
          BY <5>1
      <4>2. CASE ~ (r > brk)
        BY <2>4, <4>2 DEF HeapOK
      <4> QED
        BY <4>1, <4>2
    <3> QED
      BY <3>1, <3>2 DEF HeapOK
  <2>6. ScopesOK(scopes')
    <3>1. ScopesOK(Append(scopes, Fresh))
      BY OpenedScopes DEF TypeOK
    <3>2. Len(Top.rd) # 1 => Is(h, p, "Tuple")
      BY <1>3
    <3> HIDE DEF h
    <3> QED
      BY <2>1, <2>2, <2>4, <2>5, <3>1, <3>2, BoundType
  <2>7. pos' \in Nat /\ ModulesOK(modules') /\ UNCHANGED <<code, outcome>>
    BY <2>1 DEF TypeOK
  <2> HIDE DEF f, h
  <2> QED
    BY <2>1, <2>2, <2>3, <2>4, <2>5, <2>6, <2>7, ChangeType
<1> QED
  BY <1>1, <1>2, <1>3

\* An iterator that yields an object that was there before.
LEMMA BindNothingKeepsTypes ==
  ASSUME TypeOK, At("next", 2), Top.rd # << >>, Top.vals[2] \in DOMAIN heap,
         NEW p \in Ptr, NEW it, IsObject(it), Bind(<< >>, p, it)
  PROVE  Kept
<1> DEFINE fresh == << >>
<1>1. Len(fresh) = 0
  OBVIOUS
<1>2. Len(fresh) \in Nat /\ \A i \in 1 .. Len(fresh) : IsObject(fresh[i])
  BY <1>1
<1>3. Bind(fresh, p, it)
  OBVIOUS
<1> HIDE DEF fresh
<1> QED
  BY <1>2, <1>3, BindKeepsTypes

\* An iterator that moves on is an iterator.
LEMMA MovedType ==
  ASSUME NEW it, IsIterator(it), NEW at \in Nat, NEW done \in SUBSET STRING
  PROVE  IsObject(Moved(it, at, done))
BY IterType DEF Moved, IsIterator

\* The head of a for loop: each iterator's next().
LEMMA AdvanceKeepsTypes ==
  ASSUME TypeOK, Advance
  PROVE  Kept
<1> DEFINE it == heap[Top.vals[2]].val
           d == heap[it.over].val
<1>1. At("next", 2)
  BY DEF Advance
<1>2. Top.rd # << >> /\ Is(heap, Top.vals[2], "Iterator")
  BY DEF Advance
<1>3. brk \in Nat /\ HeapOK(heap, brk)
  BY DEF TypeOK
<1>4. Top.vals[2] \in DOMAIN heap /\ IsIterator(it)
  BY <1>2, <1>3 DEF Is, HeapOK, IsObject
<1>5. CASE Stop
  BY <1>1, <1>5, StopKeepsTypes
<1>6. CASE Fail(DanglingReference.msg)
  BY <1>6, FailType DEF DanglingReference, Raise, Unthrown
<1>7. CASE it.kind = "Range" /\ Bind(<<Int32(it.at)>>, brk + 1, Moved(it, it.at + 1, {}))
  <2>1. it.at \in Nat /\ it.at + 1 \in Nat
    BY <1>4 DEF IsIterator
  <2>2. IsObject(Int32(it.at)) /\ IsObject(Moved(it, it.at + 1, {}))
    BY <1>4, <2>1, Int32Type, MovedType
  <2>3. brk + 1 \in Ptr
    BY <1>3 DEF Ptr
  <2>4. Len(<<Int32(it.at)>>) = 1 /\ <<Int32(it.at)>>[1] = Int32(it.at)
    OBVIOUS
  <2> QED
    BY <1>1, <1>2, <1>4, <1>7, <2>2, <2>3, <2>4, BindKeepsTypes
<1>8. CASE /\ it.kind = "List" /\ Is(heap, it.over, "List")
           /\ ~ (it.at >= Len(d))
           /\ Bind(<< >>, d[it.at + 1], Moved(it, it.at + 1, {}))
  <2>1. it.at \in Nat /\ it.at + 1 \in Nat
    BY <1>4 DEF IsIterator
  <2>2. d \in Seq(Ptr)
    BY <1>3, <1>8 DEF HeapOK, Is, IsObject
  <2>3. d[it.at + 1] \in Ptr
    <3> DEFINE at == it.at
    <3>1. at \in Nat /\ ~ (at >= Len(d))
      BY <1>8, <2>1
    <3> HIDE DEF d, at
    <3>2. Len(d) \in Nat
      BY <2>2, LenProperties
    <3>3. at + 1 \in 1 .. Len(d)
      BY <3>1, <3>2
    <3>4. d[at + 1] \in Ptr
      BY <2>2, <3>3, ElementOfSeq
    <3> QED
      BY <3>4 DEF at
  <2>4. IsObject(Moved(it, it.at + 1, {}))
    BY <1>4, <2>1, MovedType
  <2> QED
    BY <1>1, <1>2, <1>4, <1>8, <2>3, <2>4, BindNothingKeepsTypes
<1>9. CASE /\ it.kind \in {"DictItem", "DictKey"} /\ Is(heap, it.over, "Dictionary")
           /\ \E k \in Least(DOMAIN d \ it.done) :
                LET moved == Moved(it, 0, it.done \cup {k}) IN
                IF it.kind = "DictKey" THEN Bind(<< >>, d[k], moved)
                ELSE Bind(<<Str(k), Pair(brk + 1, d[k])>>, brk + 2, moved)
  <2>1. PICK k \in Least(DOMAIN d \ it.done) :
               LET moved == Moved(it, 0, it.done \cup {k}) IN
               IF it.kind = "DictKey" THEN Bind(<< >>, d[k], moved)
               ELSE Bind(<<Str(k), Pair(brk + 1, d[k])>>, brk + 2, moved)
    BY <1>9
  <2> DEFINE moved == Moved(it, 0, it.done \cup {k})
  <2>2. k \in DOMAIN d
    BY DEF Least
  <2>3. k \in STRING /\ d[k] \in Ptr
    BY <1>3, <1>9, <2>2 DEF HeapOK, Is, IsObject
  <2>4. IsObject(moved)
    <3>1. it.done \cup {k} \in SUBSET STRING
      BY <1>4, <2>3 DEF IsIterator
    <3> QED
      BY <1>4, <3>1, MovedType
  <2>5. CASE it.kind = "DictKey" /\ Bind(<< >>, d[k], moved)
    <3> HIDE DEF moved
    <3> QED
      BY <1>1, <1>2, <1>4, <2>3, <2>4, <2>5, BindNothingKeepsTypes
  <2>6. CASE it.kind # "DictKey" /\ Bind(<<Str(k), Pair(brk + 1, d[k])>>, brk + 2, moved)
    <3> DEFINE key == Str(k)
               pair == Pair(brk + 1, d[k])
    <3>1. brk + 1 \in Ptr /\ brk + 2 \in Ptr
      BY <1>3 DEF Ptr
    <3>2. IsObject(key) /\ IsObject(pair)
      BY <2>3, <3>1, ObjectTypes
    <3> HIDE DEF key, pair, moved
    <3>3. /\ Len(<<key, pair>>) \in Nat
          /\ \A i \in 1 .. Len(<<key, pair>>) : IsObject(<<key, pair>>[i])
      BY <3>2
    <3>4. Bind(<<key, pair>>, brk + 2, moved)
      BY <2>6 DEF key, pair
    <3> QED
      BY <1>1, <1>2, <1>4, <2>4, <3>1, <3>3, <3>4, BindKeepsTypes
  <2> QED
    BY <2>1, <2>5, <2>6
<1> QED
  BY <1>5, <1>6, <1>7, <1>8, <1>9
  DEF Advance, NextOfRange, NextOfList, NextOfItems, NextOfDictionary, Left

\* The end of an iteration.
LEMMA AgainKeepsTypes ==
  ASSUME TypeOK, Again
  PROVE  Kept
<1> DEFINE todo == CASE Top.node = "WhileLoop" /\ Top.body = "Break" -> << >>
                     [] Top.node = "WhileLoop" /\ Top.body # "Break" -> Handler["WhileLoop"]
                     [] Top.node # "WhileLoop" /\ Top.body = "Break" -> <<"skip">>
                     [] OTHER -> <<"next">>
           f == [Done(1) EXCEPT !.todo = todo]
<1>1. At("again", 1) /\ Len(scopes) > 1 /\ scopes' = Front(scopes)
  BY DEF Again
<1>2. /\ stack' = Append(Front(stack), f)
      /\ pos' = IF Top.node = "WhileLoop" /\ Top.body # "Break" THEN Top.start + 1 ELSE pos
      /\ UNCHANGED <<prog, code, brk, modules, outcome>>
      /\ Settle(heap)
  BY DEF Again
<1>3. stack # << >> /\ Done(1) \in Frame /\ Top \in Frame
  <2>1. At("again", 1)
    BY <1>1
  <2> QED
    BY <2>1, AtType
<1>4. todo \in Seq(Steps)
  BY LoopSteps
<1>5. f \in Frame
  <2> HIDE DEF todo
  <2> QED
    BY <1>3, <1>4 DEF Frame
<1>6. pos' \in Nat
  BY <1>2, <1>3, SMTT(40) DEF Frame, TypeOK
<1>7. /\ brk' \in Nat /\ HeapOK(heap, brk') /\ ModulesOK(modules')
      /\ UNCHANGED <<code, outcome>>
  BY <1>2 DEF TypeOK
<1>8. ScopesOK(scopes')
  BY <1>1, ClosedScopes DEF TypeOK
<1> HIDE DEF f
<1> QED
  BY <1>2, <1>3, <1>5, <1>6, <1>7, <1>8, ChangeType

\* Break and continue.
LEMMA JumpKeepsTypes ==
  ASSUME TypeOK, Jump
  PROVE  Kept
<1>1. PICK step \in {"break", "continue"} :
        /\ At(step, 0)
        /\ IF Top.ls = "None" THEN Fail("Not a loop")
           ELSE Step([Done(0) EXCEPT !.ls = IF step = "break" THEN "Break" ELSE "Continue"], pos)
  BY DEF Jump
<1> DEFINE f == [Done(0) EXCEPT !.ls = IF step = "break" THEN "Break" ELSE "Continue"]
<1>2. stack # << >> /\ Done(0) \in Frame
  <2>1. At(step, 0)
    BY <1>1
  <2> QED
    BY <2>1, AtType
<1>3. f \in Frame
  BY <1>2 DEF Frame, LoopStates
<1>4. Fail("Not a loop") \/ Step(f, pos)
  BY <1>1
<1> HIDE DEF f
<1> QED
  BY <1>2, <1>3, <1>4, FailType, FieldType, StepType DEF Unthrown

\* Return, after its value.
LEMMA TerminateKeepsTypes ==
  ASSUME TypeOK, Terminate
  PROVE  Kept
<1>1. /\ At("terminate", 0)
      /\ scopes' = [scopes EXCEPT ![Len(scopes)].terminated = TRUE]
      /\ stack' = Append(Front(stack), Done(0))
      /\ UNCHANGED <<prog, code, pos, brk, modules, outcome>>
      /\ Settle(heap)
  BY DEF Terminate
<1>2. stack # << >> /\ Done(0) \in Frame
  <2>1. At("terminate", 0)
    BY <1>1
  <2> QED
    BY <2>1, AtType
<1>3. /\ pos' \in Nat /\ brk' \in Nat /\ HeapOK(heap, brk')
      /\ ModulesOK(modules') /\ UNCHANGED <<code, outcome>>
  BY <1>1 DEF TypeOK
<1>4. ScopesOK(scopes')
  BY <1>1, TerminatedScopes DEF TypeOK
<1> QED
  BY <1>1, <1>2, <1>3, <1>4, ChangeType

\* The result of execute().
LEMMA FinishKeepsTypes ==
  ASSUME TypeOK, Finish
  PROVE  TypeOK'
<1>1. Fail("result is not a boolean") \/ Fail("true") \/ Fail("false")
  BY DEF Finish
<1> QED
  BY <1>1, EndType

-----------------------------------------------------------------------------
(* The host, and the specification. *)

\* The host adds objects while there is no activation.
LEMMA PresetKeepsTypes ==
  ASSUME TypeOK, NEW fresh, Len(fresh) \in Nat,
         \A i \in 1 .. Len(fresh) : IsObject(fresh[i]),
         NEW sc, ScopesOK(sc), NEW mo, ModulesOK(mo), Preset(fresh, sc, mo)
  PROVE  TypeOK'
<1> DEFINE h == [r \in DOMAIN heap \cup brk + 1 .. brk + Len(fresh) |->
                   IF r > brk THEN fresh[r - brk] ELSE heap[r]]
<1>1. /\ brk' = brk + Len(fresh) /\ scopes' = sc /\ modules' = mo
      /\ UNCHANGED <<prog, code, pos, stack, outcome>>
      /\ Settle(h)
  BY DEF Preset
<1>2. brk \in Nat /\ brk' \in Nat /\ HeapOK(heap, brk)
  BY <1>1 DEF TypeOK
<1>3. HeapOK(h, brk')
  <2>1. DOMAIN h \subseteq 1 .. brk'
    BY <1>1, <1>2 DEF HeapOK
  <2>2. ASSUME NEW r \in DOMAIN h
        PROVE  IsObject(h[r])
    <3>1. CASE r > brk
      <4>1. r - brk \in 1 .. Len(fresh) /\ h[r] = fresh[r - brk]
        BY <1>2, <3>1 DEF HeapOK
      <4> QED
        BY <4>1
    <3>2. CASE ~ (r > brk)
      BY <1>2, <3>2 DEF HeapOK
    <3> QED
      BY <3>1, <3>2
  <2> QED
    BY <2>1, <2>2 DEF HeapOK
<1> HIDE DEF h
<1>4. HeapOK(heap', brk')
  BY <1>1, <1>2, <1>3, CollectType DEF Settle
<1> QED
  BY <1>1, <1>2, <1>4 DEF TypeOK, IsCode

\* set_string, set_list and set_module.
LEMMA HostKeepsTypes ==
  ASSUME TypeOK, SetString \/ SetList \/ SetModule
  PROVE  TypeOK'
<1>1. /\ brk \in Nat /\ brk + 1 \in Ptr /\ brk + 2 \in Ptr /\ brk + 3 \in Ptr
      /\ ScopesOK(scopes) /\ ModulesOK(modules)
  BY DEF TypeOK, Ptr
<1>2. CASE SetString
  <2>1. PICK x \in HostNames, t \in HostTexts :
          Preset(<<Str(t)>>, SetValue(scopes, x, brk + 1), modules)
    BY <1>2 DEF SetString, PresetString
  <2>2. ScopesOK(SetValue(scopes, x, brk + 1))
    BY <1>1, HostPresets, SetValueType
  <2> DEFINE o == Str(t)
  <2>3. IsObject(o)
    BY ObjectTypes
  <2> HIDE DEF o
  <2>4. Len(<<o>>) \in Nat /\ \A i \in 1 .. Len(<<o>>) : IsObject(<<o>>[i])
    BY <2>3
  <2>5. Preset(<<o>>, SetValue(scopes, x, brk + 1), modules)
    BY <2>1 DEF o
  <2> QED
    BY <1>1, <2>2, <2>4, <2>5, PresetKeepsTypes
<1>3. CASE SetList
  <2>1. PICK x \in HostNames, t \in HostTexts, u \in HostTexts :
          Preset(<<List(<<brk + 2, brk + 3>>), Str(t), Str(u)>>,
                 SetValue(scopes, x, brk + 1), modules)
    BY <1>3 DEF SetList, PresetList
  <2>2. ScopesOK(SetValue(scopes, x, brk + 1))
    BY <1>1, HostPresets, SetValueType
  <2> DEFINE o == List(<<brk + 2, brk + 3>>)
             v == Str(t)
             w == Str(u)
  <2>3. IsObject(o) /\ IsObject(v) /\ IsObject(w)
    <3>1. <<brk + 2, brk + 3>> \in Seq(Ptr)
      BY <1>1
    <3> QED
      BY <3>1, ObjectTypes
  <2>4. Preset(<<o, v, w>>, SetValue(scopes, x, brk + 1), modules)
    BY <2>1
  <2> HIDE DEF o, v, w
  <2>5. /\ Len(<<o, v, w>>) \in Nat
        /\ \A i \in 1 .. Len(<<o, v, w>>) : IsObject(<<o, v, w>>[i])
    BY <2>3
  <2> QED
    BY <1>1, <2>2, <2>4, <2>5, PresetKeepsTypes
<1>4. CASE SetModule
  <2>1. PICK m \in HostModules : Preset(<<Module(m)>>, scopes, Put(modules, m, brk + 1))
    BY <1>4 DEF SetModule
  <2>2. m \in STRING
    BY HostPresets
  <2>3. ModulesOK(Put(modules, m, brk + 1))
    BY <1>1, <2>2 DEF ModulesOK, Put
  <2> DEFINE o == Module(m)
  <2>4. IsObject(o)
    BY <2>2, ObjectTypes
  <2>5. Preset(<<o>>, scopes, Put(modules, m, brk + 1))
    BY <2>1
  <2> HIDE DEF o
  <2>6. Len(<<o>>) \in Nat /\ \A i \in 1 .. Len(<<o>>) : IsObject(<<o>>[i])
    BY <2>4
  <2> QED
    BY <1>1, <2>3, <2>5, <2>6, PresetKeepsTypes
<1> QED
  BY <1>2, <1>3, <1>4

\* execute() starts.
LEMMA ExecuteKeepsTypes ==
  ASSUME TypeOK, Execute
  PROVE  TypeOK'
<1> DEFINE f == NewFrame(code[pos].val, pos, "None")
<1>1. /\ code[pos].val \in DOMAIN Handler
      /\ outcome' = "running" /\ stack' = <<f>> /\ pos' = pos + 1
      /\ UNCHANGED <<prog, code, scopes, heap, brk, modules>>
  BY DEF Execute
<1>2. f \in Frame
  <2>1. "None" \in LoopStates
    BY DEF LoopStates
  <2> QED
    BY <1>1, <2>1, NewFrameType DEF TypeOK
<1> HIDE DEF f
<1>3. stack' \in Seq(Frame) /\ stack' # << >>
  BY <1>1, <1>2
<1>4. pos' \in Nat
  BY <1>1 DEF TypeOK
<1> QED
  BY <1>1, <1>3, <1>4 DEF TypeOK, IsCode

\* The initial states have the types.
LEMMA InitTypes ==
  ASSUME Init
  PROVE  TypeOK
<1>1. IsCode(code)
  BY ProgramsAreCode DEF Init
<1>2. ScopesOK(scopes)
  <2>1. <<Fresh>> \in Seq({Fresh}) /\ <<Fresh>> # << >> /\ DOMAIN <<Fresh>> = {1} /\ <<Fresh>>[1] = Fresh
    OBVIOUS
  <2>2. <<Fresh>> \in Seq(Range(<<Fresh>>))
    BY <2>1, RangeSeq
  <2> QED
    BY <2>1, <2>2, FreshScope DEF Init, ScopesOK
<1>3. HeapOK(heap, brk) /\ ModulesOK(modules) /\ brk \in Nat
  BY DEF Init, HeapOK, ModulesOK, Empty
<1>4. stack \in Seq(Frame) /\ stack = << >> /\ outcome = "idle" /\ pos \in Nat
  BY DEF Init
<1> QED
  BY <1>1, <1>2, <1>3, <1>4 DEF TypeOK

\* The steps of execute_next and skip_next end execute() by exceptions only.
LEMMA ActivationsKeepTypes ==
  ASSUME TypeOK, Nodes \/ Expressions \/ Statement
  PROVE  Kept
<1>1. CASE Nodes
  BY <1>1, EnterKeepsTypes, SkipKeepsTypes, DropKeepsTypes, CountKeepsTypes,
     ReturnKeepsTypes DEF Nodes
<1>2. CASE Expressions
  BY <1>2, ReadOpKeepsTypes, ReadNameKeepsTypes, ReadNamesKeepsTypes, LookupKeepsTypes,
     LiteralsKeepTypes, AppendElementKeepsTypes, InsertEntryKeepsTypes,
     OperatorsKeepTypes, DecideKeepsTypes, DecisionsKeepTypes, CheckCallableKeepsTypes,
     CallKeepsTypes DEF Expressions
<1>3. CASE Statement
  BY <1>3, AssignKeepsTypes, FetchKeepsTypes, AugmentKeepsTypes, MakeAliasKeepsTypes,
     LoadKeepsTypes, MemberKeepsTypes, BindImportKeepsTypes, ChooseKeepsTypes,
     WhileKeepsTypes, IterateKeepsTypes, AdvanceKeepsTypes, AgainKeepsTypes,
     JumpKeepsTypes, TerminateKeepsTypes DEF Statement
<1> QED
  BY <1>1, <1>2, <1>3

\* Every step keeps the types.
LEMMA NextKeepsTypes ==
  ASSUME TypeOK, [Next]_vars
  PROVE  TypeOK'
<1>1. CASE Host
  BY <1>1, HostKeepsTypes, ExecuteKeepsTypes DEF Host
<1>2. CASE Nodes \/ Expressions \/ Statement
  BY <1>2, ActivationsKeepTypes DEF Kept
<1>3. CASE Finish
  BY <1>3, FinishKeepsTypes
<1>4. CASE UNCHANGED vars
  BY <1>4 DEF vars, TypeOK, IsCode
<1> QED
  BY <1>1, <1>2, <1>3, <1>4 DEF Next, Interpret, Ended

(***************************************************************************)
(* Whatever the program, the host's names and the size of the arena, the   *)
(* state of the interpreter has its types: no frame ever waits for a step  *)
(* that does not exist or holds what is no pointer, no scope binds         *)
(* something else than a pointer, there is always a scope, every live      *)
(* object lies below m_buffer_pos and is well-formed (so every Integer     *)
(* object fits int32_t), and there is an activation exactly while          *)
(* execute() runs.                                                         *)
(***************************************************************************)
THEOREM TypeCorrect == Spec => []TypeOK
<1>1. Init => TypeOK
  BY InitTypes
<1>2. TypeOK /\ [Next]_vars => TypeOK'
  BY NextKeepsTypes
<1> QED
  BY <1>1, <1>2, PTL DEF Spec

-----------------------------------------------------------------------------
(***************************************************************************)
(* The interpreter numbers its objects as an allocator hands out           *)
(* addresses: Interpreter implements module Allocator.  What an action     *)
(* does to frames and scopes does not matter here, only the objects that   *)
(* it makes; so the actions fall into those that end execute(), those that *)
(* yield a result, those that write to an object that is there, and the    *)
(* few that make objects in a way of their own.                            *)
(***************************************************************************)

\* Every object there is after a step was there before, or has a new number.
Grows ==
  /\ brk' \in Nat /\ brk <= brk'
  /\ DOMAIN heap' \subseteq DOMAIN heap \cup (brk + 1 .. brk')

-----------------------------------------------------------------------------
(* The parts of which actions are made. *)

\* Reference counting makes no objects.
LEMMA SettleShrinks ==
  ASSUME NEW h, Settle(h)
  PROVE  DOMAIN heap' \subseteq DOMAIN h
BY DEF Settle, Collect

\* An exception makes none either.
LEMMA FailGrows ==
  ASSUME brk \in Nat, NEW msg, Fail(msg)
  PROVE  Grows
BY SettleShrinks DEF Fail, Grows

\* A step that writes to objects that are there.
LEMMA ResumeGrows ==
  ASSUME brk \in Nat, NEW f, NEW p, NEW h, DOMAIN h \subseteq DOMAIN heap,
         Resume(f, p, h), UNCHANGED brk
  PROVE  Grows
BY SettleShrinks DEF Resume, Grows

\* A step that writes to none.
LEMMA StepGrows ==
  ASSUME brk \in Nat, NEW f, NEW p, Step(f, p)
  PROVE  Grows
BY ResumeGrows DEF Step

\* A step that may make one object, with the next number.
LEMMA YieldGrows ==
  ASSUME brk \in Nat, NEW r, NEW f, NEW p, Yield(r, f, p)
  PROVE  Grows
<1>1. CASE (\E msg : Fail(msg)) \/ (\E g : Resume(g, p, heap) /\ UNCHANGED brk)
  BY <1>1, FailGrows, ResumeGrows
<1>2. CASE /\ brk' = brk + 1
           /\ Resume(Push(f, brk + 1), p, Put(heap, brk + 1, r.obj))
  <2>1. DOMAIN Put(heap, brk + 1, r.obj) = DOMAIN heap \cup {brk + 1}
    BY DEF Put
  <2>2. DOMAIN heap' \subseteq DOMAIN heap \cup {brk + 1}
    BY <1>2, <2>1, SettleShrinks DEF Resume
  <2>3. brk + 1 \in brk + 1 .. brk'
    BY <1>2
  <2>4. QED
    BY <1>2, <2>2, <2>3 DEF Grows
<1>3. QED
  BY <1>1, <1>2 DEF Yield

\* A step that makes any number of objects, with the next numbers.
LEMMA FreshGrows ==
  ASSUME brk \in Nat, NEW n \in Nat, NEW h, brk' = brk + n, Settle(h),
         DOMAIN h \subseteq DOMAIN heap \cup (brk + 1 .. brk + n)
  PROVE  Grows
BY SettleShrinks DEF Grows

-----------------------------------------------------------------------------
(* The actions. *)

\* Entering, skipping and leaving nodes.
LEMMA NodesGrow ==
  ASSUME brk \in Nat, Nodes
  PROVE  Grows
<1>1. CASE \E step \in ChildSteps : Enter(step)
  <2>1. (\E msg : Fail(msg)) \/ UNCHANGED <<heap, brk>>
    BY <1>1 DEF Enter
  <2>2. QED
    BY <2>1, FailGrows DEF Grows
<1>2. CASE Skip
  <2>1. (\E msg : Fail(msg)) \/ (\E f, p : Step(f, p))
    BY <1>2 DEF Skip
  <2>2. QED
    BY <2>1, FailGrows, StepGrows
<1>3. CASE Drop \/ Count
  <2>1. \E f, p : Step(f, p)
    BY <1>3 DEF Drop, Count
  <2>2. QED
    BY <2>1, StepGrows
<1>4. CASE Return
  BY <1>4, SettleShrinks DEF Return, Grows
<1>5. QED
  BY <1>1, <1>2, <1>3, <1>4 DEF Nodes

\* The actions that yield a result, or throw.
LEMMA ResultsGrow ==
  ASSUME brk \in Nat,
         \/ Lookup \/ String \/ Integer \/ NewList \/ NewDictionary
         \/ Unary \/ Binary \/ Compare \/ Subscript \/ Attribute
         \/ Decided \/ Undecided \/ Call \/ Fetch \/ MakeAlias \/ Member \/ Iterate
  PROVE  Grows
<1>1. (\E msg : Fail(msg)) \/ (\E r, f, p : Yield(r, f, p))
  BY DEF Lookup, String, Integer, NewList, NewDictionary, Unary, Binary, Compare,
         Subscript, Attribute, Decided, Undecided, Call, Fetch, MakeAlias, Member, Iterate
<1>2. QED
  BY <1>1, FailGrows, YieldGrows

\* The actions that move on without touching an object, or throw.
LEMMA MovesGrow ==
  ASSUME brk \in Nat,
         ReadOp \/ ReadName \/ ReadNames \/ Decide \/ CheckCallable \/ Choose \/ Jump \/ Finish
  PROVE  Grows
<1>1. (\E msg : Fail(msg)) \/ (\E f, p : Step(f, p))
  BY DEF ReadOp, ReadName, ReadNames, Decide, CheckCallable, Choose, Jump, Finish
<1>2. QED
  BY <1>1, FailGrows, StepGrows

\* The actions that write to an object.
LEMMA WritesGrow ==
  ASSUME brk \in Nat, AppendElement \/ InsertEntry \/ Augment
  PROVE  Grows
<1>1. ASSUME NEW f, NEW p, NEW q \in DOMAIN heap, NEW o,
             Resume(f, p, Put(heap, q, o)), UNCHANGED brk
      PROVE  Grows
  <2>1. DOMAIN Put(heap, q, o) \subseteq DOMAIN heap
    BY DEF Put
  <2>2. QED
    BY <1>1, <2>1, ResumeGrows
<1>2. CASE AppendElement
  BY <1>1, <1>2 DEF AppendElement, Is
<1>3. CASE InsertEntry
  BY <1>1, <1>3 DEF InsertEntry, Is
<1>4. CASE Augment
  <2>1. \/ \E msg : Fail(msg)
        \/ /\ Both(heap, Top.vals[1], Top.vals[2], "Integer")
           /\ \E o : Resume(Done(2), pos, Put(heap, Top.vals[1], o))
           /\ UNCHANGED brk
    BY <1>4 DEF Augment
  <2>2. QED
    BY <1>1, <2>1, FailGrows DEF Both, Is
<1>5. QED
  BY <1>2, <1>3, <1>4

\* The statements that bind names or open and close scopes.
LEMMA ScopesGrow ==
  ASSUME brk \in Nat, Assign \/ BindImport \/ While \/ Again \/ Terminate
  PROVE  Grows
<1>1. \/ \E msg : Fail(msg)
      \/ \E f, p : Step(f, p)
      \/ Settle(heap) /\ UNCHANGED brk
  BY DEF Assign, BindImport, While, OpenBody, Again, Terminate
<1>2. QED
  BY <1>1, FailGrows, StepGrows, SettleShrinks DEF Grows

\* An import makes the module once.
LEMMA LoadGrows ==
  ASSUME brk \in Nat, Load
  PROVE  Grows
<1>1. \/ \E msg : Fail(msg)
      \/ \E r, f, p : Yield(r, f, p)
      \/ \E o : brk' = brk + 1 /\ Settle(Put(heap, brk + 1, o))
  BY DEF Load
<1>2. ASSUME NEW o, brk' = brk + 1, Settle(Put(heap, brk + 1, o))
      PROVE  Grows
  <2>1. DOMAIN Put(heap, brk + 1, o) \subseteq DOMAIN heap \cup (brk + 1 .. brk + 1)
    BY DEF Put
  <2>2. QED
    BY <1>2, <2>1, FreshGrows
<1>3. QED
  BY <1>1, <1>2, FailGrows, YieldGrows

\* The head of a for loop makes what its iterator yields.
LEMMA AdvanceGrows ==
  ASSUME brk \in Nat, Advance
  PROVE  Grows
<1>1. ASSUME NEW fresh, Len(fresh) \in Nat, NEW p, NEW it, Bind(fresh, p, it)
      PROVE  Grows
  <2> DEFINE h == [r \in DOMAIN heap \cup brk + 1 .. brk + Len(fresh) |->
                     IF r > brk THEN fresh[r - brk]
                     ELSE IF r = Top.vals[2] THEN it ELSE heap[r]]
  <2>1. (\E msg : Fail(msg)) \/ (brk' = brk + Len(fresh) /\ Settle(h))
    BY <1>1 DEF Bind
  <2>2. DOMAIN h = DOMAIN heap \cup (brk + 1 .. brk + Len(fresh))
    OBVIOUS
  <2> HIDE DEF h
  <2>3. QED
    BY <1>1, <2>1, <2>2, FailGrows, FreshGrows
<1>2. /\ Len(<< >>) \in Nat /\ \A o : Len(<<o>>) \in Nat
      /\ \A k, o : Len(<<k, o>>) \in Nat
  OBVIOUS
<1>3. \/ \E msg : Fail(msg)
      \/ Stop
      \/ \E p, it : Bind(<< >>, p, it)
      \/ \E o, p, it : Bind(<<o>>, p, it)
      \/ \E k, o, p, it : Bind(<<k, o>>, p, it)
  BY DEF Advance, NextOfRange, NextOfList, NextOfItems, NextOfDictionary
<1>4. QED
  <2>1. CASE (\E msg : Fail(msg)) \/ Stop
    BY <2>1, FailGrows, StepGrows DEF Stop
  <2>2. CASE \E p, it : Bind(<< >>, p, it)
    BY <1>1, <1>2, <2>2
  <2>3. CASE \E o, p, it : Bind(<<o>>, p, it)
    BY <1>1, <1>2, <2>3
  <2>4. CASE \E k, o, p, it : Bind(<<k, o>>, p, it)
    BY <1>1, <1>2, <2>4
  <2>5. QED
    BY <1>3, <2>1, <2>2, <2>3, <2>4

\* The host's names and modules.
LEMMA HostGrows ==
  ASSUME brk \in Nat, Host
  PROVE  Grows
<1>1. ASSUME NEW fresh, Len(fresh) \in Nat, NEW sc, NEW mo, Preset(fresh, sc, mo)
      PROVE  Grows
  <2> DEFINE h == [r \in DOMAIN heap \cup brk + 1 .. brk + Len(fresh) |->
                     IF r > brk THEN fresh[r - brk] ELSE heap[r]]
  <2>1. brk' = brk + Len(fresh) /\ Settle(h)
    BY <1>1 DEF Preset
  <2>2. DOMAIN h = DOMAIN heap \cup (brk + 1 .. brk + Len(fresh))
    OBVIOUS
  <2> HIDE DEF h
  <2>3. QED
    BY <1>1, <2>1, <2>2, FreshGrows
<1>2. (\A o : Len(<<o>>) \in Nat) /\ \A o, s, t : Len(<<o, s, t>>) \in Nat
  OBVIOUS
<1>3. \/ UNCHANGED <<heap, brk>>
      \/ \E o, sc, mo : Preset(<<o>>, sc, mo)
      \/ \E o, s, t, sc, mo : Preset(<<o, s, t>>, sc, mo)
  BY DEF Host, SetString, PresetString, SetList, PresetList, SetModule, Execute
<1>4. CASE UNCHANGED <<heap, brk>>
  BY <1>4 DEF Grows
<1>5. CASE \E o, sc, mo : Preset(<<o>>, sc, mo)
  BY <1>1, <1>2, <1>5
<1>6. CASE \E o, s, t, sc, mo : Preset(<<o, s, t>>, sc, mo)
  BY <1>1, <1>2, <1>6
<1>7. QED
  BY <1>3, <1>4, <1>5, <1>6

\* Every step makes new objects at most.
LEMMA NextGrows ==
  ASSUME brk \in Nat, [Next]_vars
  PROVE  Grows
<1>1. CASE UNCHANGED vars
  BY <1>1 DEF vars, Grows
<1>2. CASE Expressions
  BY <1>2, ResultsGrow, MovesGrow, WritesGrow DEF Expressions
<1>3. CASE Statement
  BY <1>3, ResultsGrow, MovesGrow, WritesGrow, ScopesGrow, LoadGrows, AdvanceGrows
  DEF Statement
<1>4. QED
  BY <1>1, <1>2, <1>3, NodesGrow, HostGrows, MovesGrow DEF Next, Interpret, Ended

-----------------------------------------------------------------------------
(***************************************************************************)
(* Every run of the interpreter, for every program and host, is one of the *)
(* abstract allocator: a new object has a number that no object, live or   *)
(* dead, ever had, so what the model calls a dangling reference never      *)
(* finds another object in its place.                                      *)
(***************************************************************************)
THEOREM NumbersAreNotReusedCorrect == Spec => NumbersAreNotReused
<1>1. Init => Memory!Init
  BY DEF Init, Empty, Memory!Init
<1>2. TypeOK /\ [Next]_vars => [Memory!Next]_<<{ {p} : p \in DOMAIN heap }, 1 .. brk>>
  <2> SUFFICES ASSUME TypeOK, [Next]_vars
               PROVE  Memory!Next
    OBVIOUS
  <2>1. brk \in Nat /\ Grows
    BY NextGrows DEF TypeOK
  <2>2. 1 .. brk \subseteq 1 .. brk'
    BY <2>1 DEF Grows
  <2>3. ASSUME NEW p \in DOMAIN heap', p \notin DOMAIN heap
        PROVE  p \in (1 .. brk') \ (1 .. brk)
    BY <2>1, <2>3 DEF Grows
  <2>4. ASSUME NEW r \in { {p} : p \in DOMAIN heap' } \ { {p} : p \in DOMAIN heap }
        PROVE  r # {} /\ r \subseteq (1 .. brk') \ (1 .. brk)
    BY <2>3
  <2>5. Memory!Disjoint({ {p} : p \in DOMAIN heap' } \ { {p} : p \in DOMAIN heap })
    BY DEF Memory!Disjoint
  <2>6. QED
    BY <2>2, <2>4, <2>5 DEF Memory!Next
<1>3. QED
  BY <1>1, <1>2, TypeCorrect, PTL DEF Spec, NumbersAreNotReused, Memory!Spec

-----------------------------------------------------------------------------
(***************************************************************************)
(* Ownership.  An invariant, Accounted, that holds after every step has    *)
(* been settled: what is owned is alive and nothing owns itself (Whole), a *)
(* container under construction belongs to the frame that fills it and to  *)
(* nothing else (Built, Private), and m_loaded_modules lists the modules   *)
(* (Listed).  Filling a container that nothing else holds closes no cycle; *)
(* any other new object owns older ones, or new ones that own nothing.     *)
(***************************************************************************)

-----------------------------------------------------------------------------
(* Reference counting. *)

\* The objects S own no object outside S.
OwnsWithin(h, S) == \A r \in S : Owned(h[r]) \cap DOMAIN h \subseteq S

\* The objects S and those that they own.
Widened(h, S) == S \cup ((UNION { Owned(h[r]) : r \in S }) \cap DOMAIN h)

\* f widens a set of objects until it owns no object outside.
Widening(h, f) ==
  f = [s \in SUBSET DOMAIN h |-> IF Widened(h, s) = s THEN s ELSE f[Widened(h, s)]]

\* A widening stays among the objects and in every set that owns within itself.
LEMMA WidenedFacts ==
  ASSUME NEW h, NEW s \in SUBSET DOMAIN h
  PROVE  /\ Widened(h, s) \in SUBSET DOMAIN h /\ s \subseteq Widened(h, s)
         /\ OwnsWithin(h, s) <=> Widened(h, s) = s
         /\ \A C \in SUBSET DOMAIN h :
              s \subseteq C /\ OwnsWithin(h, C) => Widened(h, s) \subseteq C
<1>1. \A x : x \in Widened(h, s)
               <=> x \in s \/ (x \in DOMAIN h /\ \E r \in s : x \in Owned(h[r]))
  <2> DEFINE owned == UNION { Owned(h[r]) : r \in s }
  <2>1. \A x : x \in owned <=> \E r \in s : x \in Owned(h[r])
    OBVIOUS
  <2>2. Widened(h, s) = s \cup (owned \cap DOMAIN h)
    BY DEF Widened
  <2> HIDE DEF owned
  <2> QED
    BY <2>1, <2>2
<1>2. Widened(h, s) \in SUBSET DOMAIN h /\ s \subseteq Widened(h, s)
  BY <1>1
<1>3. ASSUME OwnsWithin(h, s) PROVE Widened(h, s) = s
  BY <1>1, <1>3 DEF OwnsWithin
<1>4. ASSUME Widened(h, s) = s PROVE OwnsWithin(h, s)
  BY <1>1, <1>4 DEF OwnsWithin
<1>5. ASSUME NEW C \in SUBSET DOMAIN h, s \subseteq C, OwnsWithin(h, C)
      PROVE  Widened(h, s) \subseteq C
  BY <1>1, <1>5 DEF OwnsWithin
<1> QED
  BY <1>2, <1>3, <1>4, <1>5

\* What is reachable from s: it is in every set that owns within itself.
LeastClosed(h, s) ==
  { x \in DOMAIN h : \A C \in SUBSET DOMAIN h : s \subseteq C /\ OwnsWithin(h, C) => x \in C }

\* Objects can be widened, however many they are.
LEMMA WideningExists ==
  ASSUME NEW h
  PROVE  \E f : Widening(h, f)
<1> DEFINE f == [s \in SUBSET DOMAIN h |-> LeastClosed(h, s)]
<1>1. ASSUME NEW s \in SUBSET DOMAIN h
      PROVE  LeastClosed(h, s) = IF Widened(h, s) = s THEN s ELSE LeastClosed(h, Widened(h, s))
  <2>1. CASE Widened(h, s) = s
    <3>1. OwnsWithin(h, s)
      BY <2>1, WidenedFacts
    <3> QED
      BY <2>1, <3>1 DEF LeastClosed
  <2>2. CASE Widened(h, s) # s
    <3>1. \A C \in SUBSET DOMAIN h :
            s \subseteq C /\ OwnsWithin(h, C) <=> Widened(h, s) \subseteq C /\ OwnsWithin(h, C)
      BY WidenedFacts
    <3> QED
      BY <2>2, <3>1 DEF LeastClosed
  <2> QED
    BY <2>1, <2>2
<1>2. \A s \in SUBSET DOMAIN h : Widened(h, s) \in SUBSET DOMAIN h
  BY WidenedFacts
<1>3. Widening(h, f)
  BY <1>1, <1>2 DEF Widening
<1> QED
  BY <1>3

\* What is reachable is the widest set that the roots grow to.
LEMMA ReachableWidens ==
  ASSUME NEW h, NEW roots
  PROVE  \E f : Widening(h, f) /\ Reachable(h, roots) = f[roots \cap DOMAIN h]
<1> DEFINE g == CHOOSE f : Widening(h, f)
<1>1. Widening(h, g)
  BY WideningExists
<1>2. Reachable(h, roots) = g[roots \cap DOMAIN h]
  BY DEF Reachable, Widening, Widened
<1> QED
  BY <1>1, <1>2

\* Between: what a widening reaches from s.
Spans(h, s, r) ==
  /\ s \subseteq r /\ r \subseteq DOMAIN h /\ OwnsWithin(h, r)
  /\ \A C \in SUBSET DOMAIN h : s \subseteq C /\ OwnsWithin(h, C) => r \subseteq C

\* Among finitely many objects, widening ends at the least set that owns within
\* itself: by induction over the objects that are not in the set yet.
LEMMA WideningSpans ==
  ASSUME NEW h, IsFiniteSet(DOMAIN h), NEW f, Widening(h, f), NEW s \in SUBSET DOMAIN h
  PROVE  Spans(h, s, f[s])
<1> DEFINE D == DOMAIN h
           Bad == { t \in SUBSET D : ~ Spans(h, D \ t, f[D \ t]) }
<1>1. \A t \in SUBSET D :
        f[t] = IF Widened(h, t) = t THEN t ELSE f[Widened(h, t)]
  BY DEF Widening
<1>2. SUFFICES ASSUME Bad # {} PROVE FALSE
  <2>1. D \ s \in SUBSET D /\ D \ (D \ s) = s
    OBVIOUS
  <2> QED
    BY <2>1
<1>3. FiniteSubsetsOf(D) = SUBSET D
  BY FS_FiniteSubsetsOfFinite
<1>4. IsWellFoundedOn(StrictSubsetOrdering(D), SUBSET D)
  BY <1>3, FS_StrictSubsetOrderingWellFounded
<1>5. PICK t \in Bad : \A y \in Bad : ~ (<<y, t>> \in StrictSubsetOrdering(D))
  <2>1. Bad \subseteq SUBSET D
    OBVIOUS
  <2> HIDE DEF Bad
  <2> QED
    BY <1>2, <1>4, <2>1, WFMin
<1> DEFINE u == D \ t
           w == Widened(h, u)
<1>6. u \in SUBSET D /\ ~ Spans(h, u, f[u])
  BY <1>5
<1>7. w \in SUBSET D /\ u \subseteq w
      /\ (OwnsWithin(h, u) <=> w = u)
      /\ \A C \in SUBSET D : u \subseteq C /\ OwnsWithin(h, C) => w \subseteq C
  BY <1>6, WidenedFacts
<1>8. CASE w = u
  <2>1. f[u] = u
    BY <1>1, <1>6, <1>8
  <2>2. Spans(h, u, u)
    BY <1>6, <1>7, <1>8 DEF Spans
  <2> QED
    BY <1>6, <2>1, <2>2
<1>9. CASE w # u
  <2>1. f[u] = f[w]
    BY <1>1, <1>6, <1>9
  <2>2. D \ w \in SUBSET D /\ D \ w \subseteq t /\ D \ w # t /\ D \ (D \ w) = w /\ t \in SUBSET D
    BY <1>5, <1>7, <1>9
  <2>3. <<D \ w, t>> \in StrictSubsetOrdering(D)
    BY <2>2 DEF StrictSubsetOrdering
  <2>4. Spans(h, w, f[w])
    BY <1>5, <2>2, <2>3
  <2>5. Spans(h, u, f[w])
    BY <2>4, <1>7 DEF Spans
  <2> QED
    BY <1>6, <2>1, <2>5
<1> QED
  BY <1>8, <1>9

\* What survives reference counting: the roots, what they own, and no more.
LEMMA ReachableSpans ==
  ASSUME NEW h, IsFiniteSet(DOMAIN h), NEW roots
  PROVE  Spans(h, roots \cap DOMAIN h, Reachable(h, roots))
<1>1. PICK f : Widening(h, f) /\ Reachable(h, roots) = f[roots \cap DOMAIN h]
  BY ReachableWidens
<1> QED
  BY <1>1, WideningSpans

\* An object that no root and no other object owns is freed.
LEMMA CollectFrees ==
  ASSUME NEW h, IsFiniteSet(DOMAIN h), NEW roots, NEW p, p \notin roots,
         \A q \in DOMAIN h : p \notin Owned(h[q])
  PROVE  p \notin DOMAIN Collect(h, roots)
<1> DEFINE C == DOMAIN h \ {p}
<1>1. OwnsWithin(h, C)
  BY DEF OwnsWithin
<1>2. roots \cap DOMAIN h \subseteq C /\ C \in SUBSET DOMAIN h
  OBVIOUS
<1>3. Reachable(h, roots) \subseteq C
  BY <1>1, <1>2, ReachableSpans DEF Spans
<1> QED
  BY <1>3 DEF Collect

\* The live objects, and the null pointer.
Live(h) == DOMAIN h \cup {Null}

\* All that objects own is in L.
ObjectsHold(h, L) == \A p \in DOMAIN h : Owned(h[p]) \subseteq L

\* No owner is left with a pointer to an object that was freed.
LEMMA CollectKeepsOwned ==
  ASSUME NEW h, IsFiniteSet(DOMAIN h), NEW roots, roots \subseteq Live(h),
         ObjectsHold(h, Live(h)), NEW g, g = Collect(h, roots)
  PROVE  /\ DOMAIN g \subseteq DOMAIN h /\ \A p \in DOMAIN g : g[p] = h[p]
         /\ roots \subseteq Live(g) /\ ObjectsHold(g, Live(g))
<1>1. Spans(h, roots \cap DOMAIN h, Reachable(h, roots))
  BY ReachableSpans
<1>2. DOMAIN g = Reachable(h, roots) /\ \A p \in DOMAIN g : g[p] = h[p]
  BY <1>1 DEF Collect, Spans
<1>3. roots \subseteq Live(g)
  BY <1>1, <1>2 DEF Spans, Live
<1>4. ASSUME NEW p \in DOMAIN g, NEW q \in Owned(g[p])
      PROVE  q \in Live(g)
  <2>1. p \in DOMAIN h /\ q \in Owned(h[p])
    BY <1>1, <1>2, <1>4 DEF Spans
  <2>2. q \in Live(h)
    BY <2>1 DEF ObjectsHold
  <2> QED
    BY <1>1, <1>2, <2>1, <2>2 DEF Spans, OwnsWithin, Live
<1> QED
  BY <1>1, <1>2, <1>3, <1>4 DEF Spans, ObjectsHold

-----------------------------------------------------------------------------
(* What an action's frame and results hold. *)

\* The steps of a frame while it fills its list or dictionary.
FillingSteps == { "elements", "entries", "expr", "append", "name", "insert" }
\* The steps of the frames that fill neither.
OtherSteps == Steps \ { "append", "insert", "elements", "entries", "list", "dictionary" }

\* The nodes that build a container.
Collections == { "List", "Dictionary" }

\* All that frames own is in L.
FramesHold(st, L)  == \A i \in DOMAIN st : st[i].vals \in Seq(L)
\* All that scopes own is in L.
ScopesHold(sc, L)  == \A i \in DOMAIN sc : \A x \in DOMAIN sc[i].values : sc[i].values[x] \in L
\* All that the module table owns is in L.
ModulesHold(mo, L) == \A m \in DOMAIN mo : mo[m] \in L

\* All pointers that the top frame can come by are in L.
AllHold(L) ==
  /\ Null \in L /\ Top.vals \in Seq(L)
  /\ ScopesHold(scopes, L) /\ ModulesHold(modules, L) /\ ObjectsHold(heap, L)

\* f may take the place of the top frame; it holds pointers in L.
Carries(f, L) ==
  /\ DOMAIN f = DOMAIN Top /\ f.node = Top.node
  /\ f.todo \in Seq(OtherSteps) /\ f.vals \in Seq(L)

\* The fields of the frame in progress.
LEMMA TopFields ==
  ASSUME TypeOK, stack # << >>
  PROVE  /\ DOMAIN Top = {"node", "start", "ls", "body", "todo", "vals", "rd"}
         /\ Top.todo \in Seq(Steps) /\ Top.vals \in Seq(Ptr)
  BY TopType DEF Frame

\* The operators on frames put nothing into a frame but the pointer pushed.
LEMMA DoneCarries ==
  ASSUME TypeOK, NEW step, NEW n \in Nat, At(step, n), NEW L,
         Top.vals \in Seq(L), Top.todo \in Seq(OtherSteps)
  PROVE  /\ \A k \in 0 .. n : Carries(Done(k), L)
         /\ Carries(Done(Len(Top.vals)), L)
<1>1. /\ Top.todo # << >> /\ Len(Top.vals) \in Nat /\ Len(Top.vals) >= n /\ stack # << >>
  BY AtType
<1>2. Tail(Top.todo) \in Seq(OtherSteps)
  BY <1>1, HeadTailProperties
<1>3. ASSUME NEW k \in Nat, k <= Len(Top.vals)
      PROVE  Carries(Done(k), L)
  <2>1. SubSeq(Top.vals, 1, Len(Top.vals) - k) \in Seq(L)
    BY <1>1, <1>3, Prefix
  <2> QED
    BY <1>1, <1>2, <2>1, TopFields DEF Carries, Done
<1> QED
  BY <1>1, <1>3

\* So with a pointer pushed,
LEMMA PushCarries ==
  ASSUME TypeOK, stack # << >>, NEW L, NEW f, Carries(f, L), NEW p \in L
  PROVE  Carries(Push(f, p), L)
<1>1. Append(f.vals, p) \in Seq(L)
  BY AppendProperties DEF Carries
<1> QED
  BY <1>1, TopFields DEF Carries, Push

\* with steps to come first,
LEMMA ThenCarries ==
  ASSUME TypeOK, stack # << >>, NEW L, NEW f, Carries(f, L), NEW s \in Seq(OtherSteps)
  PROVE  Carries(Then(f, s), L)
<1>1. s \o f.todo \in Seq(OtherSteps)
  BY ConcatProperties DEF Carries
<1> QED
  BY <1>1, TopFields DEF Carries, Then

\* with the data that was read,
LEMMA ReadingCarries ==
  ASSUME TypeOK, stack # << >>, NEW L, NEW f, Carries(f, L), NEW s
  PROVE  Carries(Reading(f, s), L)
  BY TopFields DEF Carries, Reading

\* with other steps,
LEMMA TodoCarries ==
  ASSUME TypeOK, stack # << >>, NEW L, NEW f, Carries(f, L), NEW s \in Seq(OtherSteps)
  PROVE  Carries([f EXCEPT !.todo = s], L)
  BY TopFields DEF Carries

\* and with another loop state.
LEMMA JumpCarries ==
  ASSUME TypeOK, stack # << >>, NEW L, NEW f, Carries(f, L), NEW s
  PROVE  Carries([f EXCEPT !.ls = s], L)
  BY TopFields DEF Carries

\* What a frame holds, it holds among more pointers.
LEMMA WiderCarries ==
  ASSUME NEW L, NEW M, L \subseteq M, NEW f, Carries(f, L)
  PROVE  Carries(f, M)
  BY SeqMonotonic DEF Carries

-----------------------------------------------------------------------------
(* Results. *)

\* A result that hands out only pointers in L, and a new object only if it
\* owns none.
Harmless(r, L) ==
  /\ r.kind = "use" => r.ptr \in L
  /\ r.kind = "new" => Owned(r.obj) = {} /\ r.obj.type # "Module"

\* No result but a list or a dictionary owns what it is made from.
LEMMA HarmlessKinds ==
  ASSUME NEW L
  PROVE  /\ \A p \in L : Harmless(Use(p), L)
         /\ \A m : Harmless(Raise(m), L)
         /\ Harmless(NullDereference, L) /\ Harmless(DanglingReference, L)
         /\ Harmless(BadCast, L)
         /\ \A b : Harmless(New(Bool(b)), L) /\ Harmless(New(Int32(b)), L)
                   /\ Harmless(New(Str(b)), L) /\ Harmless(New(Builtin(b)), L)
                   /\ Harmless(New(Items(b)), L)
         /\ \A m, n : Harmless(New(Alias(m, n)), L) /\ Harmless(New(Func(m, n)), L)
         /\ \A k, o, a, s, d : Harmless(New(Iter(k, o, a, s, d)), L)
  BY DEF Harmless, Use, New, Raise, NullDereference, DanglingReference, BadCast, Owned,
     Bool, Int32, Str, Builtin, Items, Alias, Func, Iter

\* So with what Value.h computes,
LEMMA HarmlessTruth ==
  ASSUME NEW L
  PROVE  \A a, b : Harmless(Truth(a, b), L) /\ Harmless(Negated(Truth(a, b)), L)
<1>1. \A a, b : Truth(a, b) = NullDereference \/ Truth(a, b) = New(Bool(b))
  BY DEF Truth
<1>2. Negated(NullDereference) = NullDereference
  BY DEF Negated, NullDereference, Raise
<1>3. \A b : \E c : Negated(New(Bool(b))) = New(Bool(c))
  BY DEF Negated, New
<1> QED
  BY <1>1, <1>2, <1>3, HarmlessKinds

\* with what the operators yield,
LEMMA HarmlessOperators ==
  ASSUME NEW L, NEW op, NEW p, NEW q
  PROVE  /\ Harmless(CompareResult(heap, op, p, q), L)
         /\ Harmless(UnaryResult(heap, op, p), L)
         /\ Harmless(BinaryResult(heap, op, p, q), L)
         /\ Harmless(AttributeResult(heap, p, op), L)
         /\ Harmless(MemberResult(p, op), L)
<1>1. \A m, n : Harmless(MemberResult(m, n), L)
  BY HarmlessKinds DEF MemberResult
<1>2. Harmless(CompareResult(heap, op, p, q), L)
  <2>1. \A e, r : Harmless(ListContains(heap, e, r), L) /\ Harmless(Negated(ListContains(heap, e, r)), L)
    BY HarmlessTruth DEF ListContains
  <2>2. \A m : Negated(Raise(m)) = Raise(m)
    BY DEF Negated, Raise
  <2>3. Negated(NullDereference) = NullDereference
    BY <2>2 DEF NullDereference
  <2> QED
    BY <2>1, <2>2, <2>3, HarmlessTruth, HarmlessKinds DEF CompareResult
<1>3. Harmless(UnaryResult(heap, op, p), L)
  BY HarmlessKinds DEF UnaryResult
<1>4. Harmless(BinaryResult(heap, op, p, q), L)
  BY HarmlessKinds DEF BinaryResult, AddResult, MultResult, SubResult
<1>5. Harmless(AttributeResult(heap, p, op), L)
  BY <1>1, HarmlessKinds DEF AttributeResult
<1> QED
  BY <1>1, <1>2, <1>3, <1>4, <1>5

\* An element of a list or an entry of a dictionary.
LEMMA HarmlessSubscript ==
  ASSUME NEW L, Null \in L, ObjectsHold(heap, L), NEW p, NEW q
  PROVE  Harmless(SubscriptResult(heap, q, p), L)
<1>1. Is(heap, p, "Dictionary") => \A k \in DOMAIN heap[p].val : heap[p].val[k] \in L
  BY DEF Is, ObjectsHold, Owned
<1>2. Is(heap, p, "List") => \A i \in DOMAIN heap[p].val : heap[p].val[i] \in L
  BY DEF Is, ObjectsHold, Owned
<1>3. /\ Harmless(Raise("List index out of range"), L) /\ Harmless(Raise("Invalid subscript"), L)
      /\ Harmless(NullDereference, L) /\ \A x \in L : Harmless(Use(x), L)
  BY HarmlessKinds
<1> QED
  BY <1>1, <1>2, <1>3 DEF SubscriptResult

\* with what a call returns,
LEMMA HarmlessCall ==
  ASSUME NEW L, Null \in L, NEW p, NEW args \in Seq(L)
  PROVE  Harmless(CallResult(heap, p, args), L)
<1>1. Len(args) = 1 => args[1] \in L
  BY ElementOfSeq
<1>2. \A name : Harmless(BuiltinResult(heap, name, args), L)
  BY <1>1, HarmlessKinds DEF BuiltinResult
<1>3. Harmless(RandIntResult(heap, args), L) /\ Harmless(HostResult(heap, args), L)
  BY HarmlessKinds DEF RandIntResult, HostResult
<1> QED
  BY <1>2, <1>3, HarmlessKinds DEF CallResult

\* with what a value is iterated by,
LEMMA HarmlessIterate ==
  ASSUME NEW L, NEW p \in L
  PROVE  Harmless(IterateResult(heap, p), L)
  BY HarmlessKinds DEF IterateResult

\* and with what a name is bound to.
LEMMA HarmlessLookup ==
  ASSUME NEW L, Null \in L, ScopesHold(scopes, L), NEW x, NEW r \in GetValue(scopes, x)
  PROVE  Harmless(r, L)
<1>1. ASSUME NEW i \in Holders(scopes, x)
      PROVE  scopes[i].values[x] \in L
  BY <1>1 DEF Holders, ScopesHold
<1> QED
  BY <1>1, HarmlessKinds DEF GetValue

-----------------------------------------------------------------------------
(* Steps. *)

\* The step lists of frames that fill no container have no step that does.
LEMMA ShortOthers ==
  \A a, b, c, d, e \in OtherSteps :
    /\ << >> \in Seq(OtherSteps) /\ <<a>> \in Seq(OtherSteps) /\ <<a, b>> \in Seq(OtherSteps)
    /\ <<a, b, c>> \in Seq(OtherSteps) /\ <<a, b, c, d>> \in Seq(OtherSteps)
    /\ <<a, b, c, d, e>> \in Seq(OtherSteps)
OBVIOUS

\* So with the steps of a repeated part,
LEMMA RepeatsOthers ==
  ASSUME NEW t \in DOMAIN Repeats, t \in OtherSteps
  PROVE  Repeats[t] \in Seq(OtherSteps)
<1>1. t \in { "stmts", "targets", "args", "comparisons",
              "conditions", "skips", "skippedEntries", "skippedComparisons" }
  BY DEF Repeats, OtherSteps
<1>2. { "stmt", "target", "expr", "op", "compare", "decide", "skip", "dropOp" } \subseteq OtherSteps
  BY DEF OtherSteps, Steps, ChildSteps, Dropped
<1>3. /\ Repeats["stmts"] \in Seq(OtherSteps) /\ Repeats["targets"] \in Seq(OtherSteps)
      /\ Repeats["args"] \in Seq(OtherSteps)
      /\ Repeats["comparisons"] \in Seq(OtherSteps)
      /\ Repeats["conditions"] \in Seq(OtherSteps) /\ Repeats["skips"] \in Seq(OtherSteps)
      /\ Repeats["skippedEntries"] \in Seq(OtherSteps)
      /\ Repeats["skippedComparisons"] \in Seq(OtherSteps)
  BY <1>2, ShortOthers DEF Repeats, SkipComparison
<1> QED
  BY <1>1, <1>3

\* with the steps of a node,
LEMMA HandlerOthers ==
  ASSUME NEW t \in DOMAIN Handler, t \notin Collections
  PROVE  Handler[t] \in Seq(OtherSteps)
<1>1. t \in
        { "ImportFrom", "Import", "Alias", "Attribute", "Name", "Continue",
          "Break", "Assign", "StatementList", "UnaryOp", "BoolOp",
          "BinaryOp", "Return", "String", "Compare", "Index",
          "Integer", "Call", "If", "IfElse", "Subscript",
          "WhileLoop", "ForLoop", "AugmentedAssign" }
  BY DEF Handler, Collections
<1>2. { "name", "expr", "load", "member", "bind", "alias", "attribute",
        "lookup", "continue", "break", "op", "unary", "binary",
        "terminate", "string", "integer", "callable", "call",
        "test", "choose", "subscript", "while", "names",
        "iterate", "next", "fetch", "augment", "undecided", "targets",
        "stmts", "conditions", "comparisons", "args" } \subseteq OtherSteps
  BY DEF OtherSteps, Steps, ChildSteps, Repeats
<1>3. /\ Handler["ImportFrom"] \in Seq(OtherSteps) /\ Handler["Import"] \in Seq(OtherSteps)
      /\ Handler["Alias"] \in Seq(OtherSteps) /\ Handler["Attribute"] \in Seq(OtherSteps)
      /\ Handler["Name"] \in Seq(OtherSteps) /\ Handler["Continue"] \in Seq(OtherSteps)
      /\ Handler["Break"] \in Seq(OtherSteps) /\ Handler["Assign"] \in Seq(OtherSteps)
      /\ Handler["StatementList"] \in Seq(OtherSteps)
  BY <1>2, ShortOthers DEF Handler
<1>4. /\ Handler["UnaryOp"] \in Seq(OtherSteps) /\ Handler["BoolOp"] \in Seq(OtherSteps)
      /\ Handler["BinaryOp"] \in Seq(OtherSteps) /\ Handler["Return"] \in Seq(OtherSteps)
      /\ Handler["String"] \in Seq(OtherSteps)
      /\ Handler["Compare"] \in Seq(OtherSteps) /\ Handler["Index"] \in Seq(OtherSteps)
      /\ Handler["Integer"] \in Seq(OtherSteps)
  BY <1>2, ShortOthers DEF Handler
<1>5. /\ Handler["Call"] \in Seq(OtherSteps) /\ Handler["If"] \in Seq(OtherSteps)
      /\ Handler["IfElse"] \in Seq(OtherSteps) /\ Handler["Subscript"] \in Seq(OtherSteps)
      /\ Handler["WhileLoop"] \in Seq(OtherSteps)
      /\ Handler["ForLoop"] \in Seq(OtherSteps) /\ Handler["AugmentedAssign"] \in Seq(OtherSteps)
  BY <1>2, ShortOthers DEF Handler
<1> QED
  BY <1>1, <1>3, <1>4, <1>5

\* and with those that skip one.
LEMMA SkipperOthers ==
  ASSUME NEW t \in DOMAIN Skipper
  PROVE  Skipper[t] \in Seq(OtherSteps)
<1>1. DOMAIN Skipper =
        { "Name", "ForLoop", "Assign", "StatementList", "Index", "Return",
          "String", "Compare", "Integer", "Call", "IfElse", "List",
          "Tuple", "Dictionary", "UnaryOp", "BoolOp", "AugmentedAssign",
          "BinaryOp", "If", "Attribute", "Subscript", "Break", "Continue" }
  BY DEF Skipper
<1>2. { "dropString", "dropNames", "skip", "skips", "skippedComparisons",
        "dropInteger", "skippedEntries", "dropOp" } \subseteq OtherSteps
  BY DEF OtherSteps, Steps, Repeats, Dropped
<1>3. /\ Skipper["Name"] \in Seq(OtherSteps) /\ Skipper["ForLoop"] \in Seq(OtherSteps)
      /\ Skipper["Assign"] \in Seq(OtherSteps) /\ Skipper["StatementList"] \in Seq(OtherSteps)
      /\ Skipper["Index"] \in Seq(OtherSteps) /\ Skipper["Return"] \in Seq(OtherSteps)
      /\ Skipper["String"] \in Seq(OtherSteps) /\ Skipper["Compare"] \in Seq(OtherSteps)
      /\ Skipper["Integer"] \in Seq(OtherSteps)
  BY <1>2, ShortOthers DEF Skipper
<1>4. /\ Skipper["Call"] \in Seq(OtherSteps) /\ Skipper["IfElse"] \in Seq(OtherSteps)
      /\ Skipper["List"] \in Seq(OtherSteps) /\ Skipper["Tuple"] \in Seq(OtherSteps)
      /\ Skipper["Dictionary"] \in Seq(OtherSteps) /\ Skipper["UnaryOp"] \in Seq(OtherSteps)
      /\ Skipper["BoolOp"] \in Seq(OtherSteps) /\ Skipper["AugmentedAssign"] \in Seq(OtherSteps)
      /\ Skipper["BinaryOp"] \in Seq(OtherSteps)
  BY <1>2, ShortOthers DEF Skipper
<1>5. /\ Skipper["If"] \in Seq(OtherSteps) /\ Skipper["Attribute"] \in Seq(OtherSteps)
      /\ Skipper["Subscript"] \in Seq(OtherSteps) /\ Skipper["Break"] \in Seq(OtherSteps)
      /\ Skipper["Continue"] \in Seq(OtherSteps)
  BY <1>2, ShortOthers DEF Skipper
<1> QED
  BY <1>1, <1>3, <1>4, <1>5

-----------------------------------------------------------------------------
\* The heap that a step leaves to reference counting: objects that were there
\* are as before or are no modules and own nothing, and new ones own nothing
\* of each other that owns something.
GrowsInto(h) ==
  /\ brk' \in Nat /\ brk <= brk'
  /\ DOMAIN h = DOMAIN heap \cup (brk + 1 .. brk')
  /\ \A p \in DOMAIN heap :
       h[p] = heap[p] \/ (Owned(h[p]) = {} /\ heap[p].type # "Module" /\ h[p].type # "Module")
  /\ \A p \in brk + 1 .. brk' : \A q \in Owned(h[p]) :
       q \in brk + 1 .. brk' => q # p /\ Owned(h[q]) = {}

\* No module is made, or one under a name that had none.
Registers(h) ==
  \/ modules' = modules /\ \A p \in brk + 1 .. brk' : h[p].type # "Module"
  \/ \E m : /\ m \notin DOMAIN modules /\ modules' = Put(modules, m, brk + 1)
            /\ brk' = brk + 1 /\ h[brk + 1] = Module(m)

\* A step hands pointers in M on and fills no container.
Moves(M) ==
  /\ ScopesHold(scopes', M) /\ ModulesHold(modules', M)
  /\ \E f, h : /\ Carries(f, M) /\ stack' = Append(Front(stack), f)
               /\ GrowsInto(h) /\ Registers(h) /\ ObjectsHold(h, M) /\ Settle(h)

\* L holds all that the top frame can come by, and M has room for new objects.
Supplied(L, M) ==
  /\ TypeOK /\ stack # << >> /\ Top.todo \in Seq(OtherSteps)
  /\ AllHold(L) /\ L \subseteq Live(heap) /\ L \subseteq M /\ brk + 1 .. brk' \subseteq M

\* An exception ends execute().
Fails == \E msg : Fail(msg)

\* Everything holds what it holds among more pointers.
LEMMA HoldWider ==
  ASSUME NEW L, NEW M, L \subseteq M
  PROVE  /\ \A sc : ScopesHold(sc, L) => ScopesHold(sc, M)
         /\ \A mo : ModulesHold(mo, L) => ModulesHold(mo, M)
         /\ \A h : ObjectsHold(h, L) => ObjectsHold(h, M)
         /\ Seq(L) \subseteq Seq(M)
<1>1. Seq(L) \subseteq Seq(M)
  BY SeqMonotonic
<1> QED
  BY <1>1 DEF ScopesHold, ModulesHold, ObjectsHold

\* A step that makes no object leaves the heap to reference counting as it is.
LEMMA NothingGrows ==
  ASSUME TypeOK, UNCHANGED brk
  PROVE  GrowsInto(heap) /\ (modules' = modules => Registers(heap))
<1>1. brk \in Nat /\ brk' \in Nat /\ brk <= brk' /\ brk + 1 .. brk' = {}
  BY DEF TypeOK
<1>2. GrowsInto(heap)
  BY <1>1 DEF GrowsInto
<1>3. modules' = modules => Registers(heap)
  BY <1>1 DEF Registers
<1> QED
  BY <1>2, <1>3

\* A step of the top frame hands on only what that frame has.
LEMMA StepMoves ==
  ASSUME NEW L, NEW M, Supplied(L, M), NEW f, Carries(f, L), NEW p, Step(f, p)
  PROVE  Moves(M)
<1>1. /\ stack' = Append(Front(stack), f) /\ Settle(heap)
      /\ UNCHANGED brk /\ scopes' = scopes /\ modules' = modules
  BY DEF Step, Resume
<1>2. Carries(f, M)
  BY WiderCarries DEF Supplied
<1>3. ScopesHold(scopes, M) /\ ModulesHold(modules, M) /\ ObjectsHold(heap, M)
  BY HoldWider DEF Supplied, AllHold
<1>4. GrowsInto(heap) /\ Registers(heap)
  BY <1>1, NothingGrows DEF Supplied
<1> QED
  BY <1>1, <1>2, <1>3, <1>4 DEF Moves

\* One new object that owns nothing.
LEMMA ObjectGrows ==
  ASSUME TypeOK, brk' = brk + 1, NEW o, Owned(o) = {}, NEW M, ObjectsHold(heap, M)
  PROVE  /\ GrowsInto(Put(heap, brk + 1, o)) /\ ObjectsHold(Put(heap, brk + 1, o), M)
         /\ Put(heap, brk + 1, o)[brk + 1] = o
<1> DEFINE h == Put(heap, brk + 1, o)
<1>1. brk \in Nat /\ DOMAIN heap \subseteq 1 .. brk /\ brk + 1 .. brk' = {brk + 1}
  BY DEF TypeOK, HeapOK
<1>2. /\ DOMAIN h = DOMAIN heap \cup {brk + 1} /\ h[brk + 1] = o
      /\ \A p \in DOMAIN heap : h[p] = heap[p]
  BY <1>1 DEF Put
<1> HIDE DEF h
<1>3. GrowsInto(h)
  BY <1>1, <1>2 DEF GrowsInto
<1>4. ObjectsHold(h, M)
  BY <1>2 DEF ObjectsHold
<1> QED
  BY <1>2, <1>3, <1>4 DEF h

\* A frame that yields a result hands the result on.
LEMMA YieldMoves ==
  ASSUME NEW L, NEW M, Supplied(L, M), NEW f, Carries(f, L), NEW p,
         NEW r, Harmless(r, L), Yield(r, f, p)
  PROVE  Moves(M) \/ Fails
<1>1. CASE r.kind = "raise" /\ Fail(r.msg)
  BY <1>1 DEF Fails
<1>2. CASE r.kind = "use" /\ Resume(Push(f, r.ptr), p, heap) /\ UNCHANGED brk
  <2>1. r.ptr \in L
    BY <1>2 DEF Harmless
  <2>2. Carries(Push(f, r.ptr), L)
    BY <2>1, PushCarries DEF Supplied
  <2>3. Step(Push(f, r.ptr), p)
    BY <1>2 DEF Step
  <2> QED
    BY <2>2, <2>3, StepMoves
<1>3. CASE r.kind = "new" /\ brk >= ArenaObjects /\ Fail(Full)
  BY <1>3 DEF Fails
<1>4. CASE /\ r.kind = "new" /\ brk < ArenaObjects
           /\ brk' = brk + 1
           /\ Resume(Push(f, brk + 1), p, Put(heap, brk + 1, r.obj))
  <2> DEFINE h == Put(heap, brk + 1, r.obj)
             g == Push(f, brk + 1)
  <2>1. Owned(r.obj) = {} /\ r.obj.type # "Module"
    BY <1>4 DEF Harmless
  <2>2. brk \in Nat /\ brk + 1 .. brk' = {brk + 1} /\ brk + 1 \in M
    BY <1>4 DEF Supplied, TypeOK
  <2>3. Carries(g, M)
    <3>1. Carries(f, M)
      BY WiderCarries DEF Supplied
    <3> QED
      BY <2>2, <3>1, PushCarries DEF Supplied
  <2>4. ScopesHold(scopes, M) /\ ModulesHold(modules, M) /\ ObjectsHold(heap, M)
    BY HoldWider DEF Supplied, AllHold
  <2>5. GrowsInto(h) /\ ObjectsHold(h, M) /\ h[brk + 1] = r.obj
    BY <1>4, <2>1, <2>4, ObjectGrows DEF Supplied
  <2>6. stack' = Append(Front(stack), g) /\ Settle(h) /\ scopes' = scopes /\ modules' = modules
    BY <1>4 DEF Resume
  <2> HIDE DEF h, g
  <2>7. Registers(h)
    BY <2>1, <2>2, <2>5, <2>6 DEF Registers
  <2> QED
    BY <2>3, <2>4, <2>5, <2>6, <2>7 DEF Moves
<1> QED
  BY <1>1, <1>2, <1>3, <1>4 DEF Yield

-----------------------------------------------------------------------------
(* The actions. *)

\* What a step has at hand.
LEMMA SuppliedFacts ==
  ASSUME NEW L, NEW M, Supplied(L, M), NEW step, NEW n \in Nat, At(step, n)
  PROVE  /\ \A k \in 0 .. n : Carries(Done(k), L)
         /\ Carries(Done(Len(Top.vals)), L)
         /\ \A i \in 1 .. n : Top.vals[i] \in L
         /\ n > 0 => Last(Top.vals) \in L /\ Tail(Top.vals) \in Seq(L)
         /\ Null \in L
<1>1. Top.vals \in Seq(L) /\ Null \in L
  BY DEF Supplied, AllHold
<1>2. Len(Top.vals) \in Nat /\ Len(Top.vals) >= n
  BY AtType DEF Supplied
<1>3. \A k \in 1 .. Len(Top.vals) : Top.vals[k] \in L
  BY <1>1, ElementOfSeq
<1>4. n > 0 => Last(Top.vals) \in L /\ Tail(Top.vals) \in Seq(L)
  <2>1. CASE n > 0
    <3>1. Top.vals # << >>
      BY <1>1, <1>2, <2>1
    <3> QED
      BY <1>1, <3>1, Ends, HeadTailProperties
  <2> QED
    BY <2>1
<1>5. (\A k \in 0 .. n : Carries(Done(k), L)) /\ Carries(Done(Len(Top.vals)), L)
  BY <1>1, DoneCarries DEF Supplied
<1> QED
  BY <1>1, <1>2, <1>3, <1>4, <1>5

\* One lemma for each action, or for each group of actions of one shape.
LEMMA OpsMove ==
  ASSUME NEW L, NEW M, Supplied(L, M),
         \/ String \/ Integer \/ Unary \/ Binary \/ Compare \/ Subscript \/ Attribute
         \/ Decided \/ Undecided \/ Call \/ Iterate \/ MakeAlias \/ Member
  PROVE  Moves(M) \/ Fails
<1>1. ASSUME NEW step, NEW n \in Nat, At(step, n), NEW k \in 0 .. n, NEW r, Harmless(r, L),
             NEW p, Yield(r, Done(k), p)
      PROVE  Moves(M) \/ Fails
  BY <1>1, SuppliedFacts, YieldMoves
<1>2. CASE String
  BY <1>1, <1>2, HarmlessKinds DEF String
<1>3. CASE Integer
  BY <1>1, <1>3, HarmlessKinds DEF Integer
<1>4. CASE Unary
  BY <1>1, <1>4, HarmlessOperators DEF Unary
<1>5. CASE Binary
  BY <1>1, <1>5, HarmlessOperators DEF Binary
<1>6. CASE Compare
  BY <1>1, <1>6, HarmlessOperators DEF Compare
<1>7. CASE Subscript
  <2>1. Harmless(SubscriptResult(heap, Top.vals[1], Top.vals[2]), L)
    BY HarmlessSubscript DEF Supplied, AllHold
  <2> QED
    BY <1>1, <1>7, <2>1 DEF Subscript
<1>8. CASE Attribute
  BY <1>1, <1>8, HarmlessOperators DEF Attribute
<1>9. CASE Decided \/ Undecided
  BY <1>1, <1>9, HarmlessKinds DEF Decided, Undecided
<1>10. CASE Call
  <2>1. At("call", 1) /\ Yield(CallResult(heap, Top.vals[1], Tail(Top.vals)), Done(Len(Top.vals)), pos)
    BY <1>10 DEF Call
  <2>2. Tail(Top.vals) \in Seq(L) /\ Carries(Done(Len(Top.vals)), L) /\ Null \in L
    BY <2>1, SuppliedFacts
  <2>3. Harmless(CallResult(heap, Top.vals[1], Tail(Top.vals)), L)
    BY <2>2, HarmlessCall
  <2> QED
    BY <2>1, <2>2, <2>3, YieldMoves
<1>11. CASE Iterate
  <2>1. At("iterate", 1) /\ Yield(IterateResult(heap, Top.vals[1]), Done(0), pos)
    BY <1>11 DEF Iterate
  <2>2. Top.vals[1] \in L
    BY <2>1, SuppliedFacts
  <2> QED
    BY <1>1, <2>1, <2>2, HarmlessIterate
<1>12. CASE MakeAlias
  BY <1>1, <1>12, HarmlessKinds DEF MakeAlias
<1>13. CASE Member
  BY <1>1, <1>13, HarmlessOperators DEF Member
<1> QED
  BY <1>2, <1>3, <1>4, <1>5, <1>6, <1>7, <1>8, <1>9, <1>10, <1>11, <1>12, <1>13

\* Names yield what they are bound to, or True or False.
LEMMA NamesMove ==
  ASSUME NEW L, NEW M, Supplied(L, M), Lookup \/ Fetch
  PROVE  Moves(M) \/ Fails
<1>1. ASSUME NEW x, NEW r \in GetValue(scopes, x)
      PROVE  Harmless(r, L)
  BY HarmlessLookup DEF Supplied, AllHold
<1>2. CASE Lookup
  <2>1. At("lookup", 0)
    BY <1>2 DEF Lookup
  <2>2. \/ Yield(New(Bool(FALSE)), Done(0), pos + 1)
        \/ Yield(New(Bool(TRUE)), Done(0), pos + 1)
        \/ \E r \in GetValue(scopes, code[pos].val) : Yield(r, Done(0), pos + 1)
    BY <1>2 DEF Lookup
  <2>3. \E r : Harmless(r, L) /\ Yield(r, Done(0), pos + 1)
    BY <1>1, <2>2, HarmlessKinds
  <2>4. Carries(Done(0), L)
    BY <2>1, SuppliedFacts
  <2> QED
    BY <2>3, <2>4, YieldMoves
<1>3. CASE Fetch
  <2>1. At("fetch", 0)
    BY <1>3 DEF Fetch
  <2>2. CASE IsName(pos)
    <3>1. \E r \in GetValue(scopes, code[pos + 1].val) : Yield(r, Done(0), pos + 2)
      BY <1>3, <2>2 DEF Fetch
    <3>2. Carries(Done(0), L)
      BY <2>1, SuppliedFacts
    <3> QED
      BY <1>1, <3>1, <3>2, YieldMoves
  <2>3. CASE ~ IsName(pos)
    BY <1>3, <2>3 DEF Fetch, Fails
  <2> QED
    BY <2>2, <2>3
<1> QED
  BY <1>2, <1>3

\* The steps that only read the byte code.
LEMMA PlainMove ==
  ASSUME NEW L, NEW M, Supplied(L, M),
         Skip \/ Drop \/ ReadOp \/ ReadNames \/ CheckCallable \/ Jump
  PROVE  Moves(M) \/ Fails
<1>1. ASSUME NEW step, NEW n \in Nat, At(step, n) PROVE Carries(Done(0), L)
  BY <1>1, SuppliedFacts
<1>2. CASE Skip
  <2>1. stack # << >> /\ Carries(Done(0), L)
    BY <1>1, <1>2 DEF Skip, At, Supplied
  <2>2. CASE code[pos].val \in DOMAIN Skipper
    <3>1. Step(Then(Done(0), Skipper[code[pos].val]), pos + 1)
      BY <1>2, <2>2 DEF Skip
    <3>2. Carries(Then(Done(0), Skipper[code[pos].val]), L)
      BY <2>1, <2>2, SkipperOthers, ThenCarries DEF Supplied
    <3> QED
      BY <3>1, <3>2, StepMoves
  <2>3. CASE code[pos].val \notin DOMAIN Skipper
    BY <1>2, <2>3 DEF Skip, Fails
  <2> QED
    BY <2>2, <2>3
<1>3. CASE Drop
  BY <1>1, <1>3, StepMoves DEF Drop
<1>4. CASE ReadOp
  BY <1>1, <1>4, ReadingCarries, StepMoves DEF ReadOp, Supplied
<1>5. CASE ReadNames
  <2>1. Carries(Done(0), L)
    BY <1>1, <1>5 DEF ReadNames
  <2>2. \A s : Carries(Reading(Done(0), s), L)
    BY <2>1, ReadingCarries DEF Supplied
  <2>3. \/ \E s, p : Step(Reading(Done(0), s), p)
        \/ \E p : Step(Done(0), p)
        \/ \E m : Fail(m)
    BY <1>5 DEF ReadNames
  <2> QED
    BY <2>1, <2>2, <2>3, StepMoves DEF Fails
<1>6. CASE CheckCallable
  <2>1. Carries(Done(0), L)
    BY <1>1, <1>6 DEF CheckCallable
  <2>2. (\E p : Step(Done(0), p)) \/ \E m : Fail(m)
    BY <1>6 DEF CheckCallable
  <2> QED
    BY <2>1, <2>2, StepMoves DEF Fails
<1>7. CASE Jump
  <2>1. Carries(Done(0), L)
    BY <1>1, <1>7 DEF Jump
  <2>2. \A s : Carries([Done(0) EXCEPT !.ls = s], L)
    BY <2>1, JumpCarries DEF Supplied
  <2>3. (\E s, p : Step([Done(0) EXCEPT !.ls = s], p)) \/ \E m : Fail(m)
    BY <1>7 DEF Jump
  <2> QED
    BY <2>2, <2>3, StepMoves DEF Fails
<1> QED
  BY <1>2, <1>3, <1>4, <1>5, <1>6, <1>7

\* The steps that choose between others.
LEMMA DecisionsMove ==
  ASSUME NEW L, NEW M, Supplied(L, M), Decide \/ Choose
  PROVE  Moves(M) \/ Fails
<1>1. /\ <<"skip">> \in Seq(OtherSteps) /\ <<"branch">> \in Seq(OtherSteps)
      /\ <<"branch", "skip">> \in Seq(OtherSteps) /\ <<"skip", "branch">> \in Seq(OtherSteps)
      /\ <<"decided">> \in Seq(OtherSteps)
  <2>1. {"skip", "branch", "decided"} \subseteq OtherSteps
    BY DEF OtherSteps, Steps, ChildSteps
  <2> QED
    BY <2>1, ShortOthers
<1>2. CASE Decide
  <2>1. At("decide", 1)
    BY <1>2 DEF Decide
  <2>2. Carries(Done(1), L)
    BY <2>1, SuppliedFacts
  <2> DEFINE left == (Len(Top.todo) - 2) \div 2
             todo == Times(left, <<"skip">>) \o <<"decided">>
  <2>3. todo \in Seq(OtherSteps)
    <3>1. Top.todo \in Seq(OtherSteps)
      BY DEF Supplied
    <3>2. left \in Int
      BY <3>1, LenProperties
    <3> HIDE DEF left
    <3>3. Times(left, <<"skip">>) \in Seq(OtherSteps)
      BY <1>1, <3>2, TimesType
    <3> QED
      BY <1>1, <3>3, ConcatProperties
  <2>4. Step(Done(1), pos) \/ Step([Done(1) EXCEPT !.todo = todo], pos) \/ \E m : Fail(m)
    BY <1>2 DEF Decide
  <2> HIDE DEF todo
  <2>5. Carries([Done(1) EXCEPT !.todo = todo], L)
    BY <2>2, <2>3, TodoCarries DEF Supplied
  <2> QED
    BY <2>2, <2>4, <2>5, StepMoves DEF Fails
<1>3. CASE Choose
  <2>1. At("choose", 1)
    BY <1>3 DEF Choose
  <2>2. Carries(Done(0), L) /\ Null \in L
    BY <2>1, SuppliedFacts
  <2>3. /\ \A s \in Seq(OtherSteps) : Carries(Then(Done(0), s), L)
        /\ Carries(Push(Then(Done(0), <<"skip">>), Null), L)
    BY <1>1, <2>2, ThenCarries, PushCarries DEF Supplied
  <2>4. \/ Step(Then(Done(0), <<"branch">>), pos)
        \/ Step(Push(Then(Done(0), <<"skip">>), Null), pos)
        \/ Step(Then(Done(0), <<"branch", "skip">>), pos)
        \/ Step(Then(Done(0), <<"skip", "branch">>), pos)
        \/ \E m : Fail(m)
    BY <1>3 DEF Choose
  <2> QED
    BY <1>1, <2>3, <2>4, StepMoves DEF Fails
<1> QED
  BY <1>2, <1>3

\* A name bound to p.
LEMMA SetValueHolds ==
  ASSUME NEW L, NEW sc, ScopesOK(sc), ScopesHold(sc, L), NEW x, NEW p \in L
  PROVE  ScopesHold(SetValue(sc, x, p), L)
<1>1. /\ DOMAIN SetValue(sc, x, p) = DOMAIN sc
      /\ \A i \in DOMAIN sc :
           SetValue(sc, x, p)[i] \in {sc[i], [sc[i] EXCEPT !.values = Put(@, x, p)]}
  BY DEF SetValue
<1>2. ASSUME NEW i \in DOMAIN sc, NEW y \in DOMAIN [sc[i] EXCEPT !.values = Put(@, x, p)].values
      PROVE  [sc[i] EXCEPT !.values = Put(@, x, p)].values[y] \in L
  <2>1. [sc[i] EXCEPT !.values = Put(@, x, p)].values = Put(sc[i].values, x, p)
    BY DEF ScopesOK, IsScope
  <2>2. DOMAIN Put(sc[i].values, x, p) = DOMAIN sc[i].values \cup {x}
    BY DEF Put
  <2>3. y = x \/ y \in DOMAIN sc[i].values
    BY <1>2, <2>1, <2>2
  <2>4. Put(sc[i].values, x, p)[y] = IF y = x THEN p ELSE sc[i].values[y]
    BY <2>3 DEF Put
  <2> QED
    BY <2>1, <2>3, <2>4 DEF ScopesHold
<1> QED
  BY <1>1, <1>2 DEF ScopesHold

\* The names of a loop or an assignment bound to a value or to a tuple's items.
LEMMA BoundHolds ==
  ASSUME NEW M, NEW sc, ScopesOK(sc), ScopesHold(sc, M), NEW texts \in Texts, texts # << >>,
         NEW h, ObjectsHold(h, M), NEW b \in Nat, HeapOK(h, b), NEW p \in M,
         Len(texts) # 1 => Is(h, p, "Tuple")
  PROVE  ScopesHold(Bound(sc, texts, h, p), M)
<1>1. texts[1] \in STRING
  BY TextsType
<1>2. CASE Len(texts) = 1
  BY <1>2, SetValueHolds DEF Bound
<1>3. CASE Len(texts) # 1
  <2>1. h[p].val \in Ptr \X Ptr /\ Owned(h[p]) \subseteq M
    BY <1>3 DEF Is, HeapOK, IsObject, ObjectsHold
  <2>2. h[p].val[1] \in M /\ h[p].val[2] \in M /\ h[p].val[1] \in Ptr
    BY <1>3, <2>1 DEF Owned, Is
  <2>3. ScopesOK(SetValue(sc, texts[1], h[p].val[1]))
    BY <1>1, <2>2, SetValueType
  <2>4. ScopesHold(SetValue(sc, texts[1], h[p].val[1]), M)
    BY <2>2, SetValueHolds
  <2> QED
    BY <1>3, <2>2, <2>3, <2>4, SetValueHolds DEF Bound
<1> QED
  BY <1>2, <1>3

\* A step that changes the scopes but no object.
LEMMA ScopeMoves ==
  ASSUME NEW L, NEW M, Supplied(L, M), NEW f, Carries(f, L), stack' = Append(Front(stack), f),
         ScopesHold(scopes', L), UNCHANGED <<brk, modules>>, Settle(heap)
  PROVE  Moves(M)
<1>1. Carries(f, M)
  BY WiderCarries DEF Supplied
<1>2. ScopesHold(scopes', M) /\ ModulesHold(modules', M) /\ ObjectsHold(heap, M)
  BY HoldWider DEF Supplied, AllHold
<1>3. GrowsInto(heap) /\ Registers(heap)
  BY NothingGrows DEF Supplied
<1> QED
  BY <1>1, <1>2, <1>3 DEF Moves

\* Assignment hands on the value or the tuple's items.
LEMMA AssignMoves ==
  ASSUME NEW L, NEW M, Supplied(L, M), Assign
  PROVE  Moves(M) \/ Fails
<1> DEFINE v == Top.vals[1]
<1>1. At("target", 1)
  BY DEF Assign
<1>2. Carries(Done(0), L) /\ v \in L
  BY <1>1, SuppliedFacts
<1>3. CASE ~ /\ IsName(pos) \/ IsPair(pos)
             /\ ~ (IsPair(pos) /\ ~ Is(heap, v, "Tuple"))
  <2>1. \E m : Fail(m)
    BY <1>3 DEF Assign, Is
  <2> QED
    BY <2>1 DEF Fails
<1>6. CASE /\ IsName(pos) \/ IsPair(pos)
           /\ ~ (IsPair(pos) /\ ~ Is(heap, v, "Tuple"))
  <2>1. /\ scopes' = Bound(scopes, NamesAt(pos), heap, v)
        /\ stack' = Append(Front(stack), Done(0))
        /\ UNCHANGED <<brk, modules>>
        /\ Settle(heap)
    BY <1>6 DEF Assign, Is
  <2>2. NamesAt(pos) \in Texts /\ NamesAt(pos) # << >>
    BY <1>6, NamesType DEF Supplied
  <2>3. Len(NamesAt(pos)) # 1 => Is(heap, v, "Tuple")
    BY <1>6 DEF NamesAt
  <2>4. /\ ScopesOK(scopes) /\ ScopesHold(scopes, L) /\ ObjectsHold(heap, L)
        /\ brk \in Nat /\ HeapOK(heap, brk)
    BY DEF Supplied, TypeOK, AllHold
  <2>5. ScopesHold(scopes', L)
    BY <1>2, <2>1, <2>2, <2>3, <2>4, BoundHolds
  <2> QED
    BY <1>2, <2>1, <2>5, ScopeMoves
<1> QED
  BY <1>3, <1>6

\* An import binds the module that was loaded.
LEMMA BindImportMoves ==
  ASSUME NEW L, NEW M, Supplied(L, M), BindImport
  PROVE  Moves(M) \/ Fails
<1>1. At("bind", 2)
  BY DEF BindImport
<1>2. PICK x : scopes' = SetValue(scopes, x, Last(Top.vals))
  BY DEF BindImport
<1>3. Carries(Done(0), L) /\ Last(Top.vals) \in L
  BY <1>1, SuppliedFacts
<1>4. ScopesHold(scopes', L)
  BY <1>2, <1>3, SetValueHolds DEF Supplied, TypeOK, AllHold
<1>5. stack' = Append(Front(stack), Done(0)) /\ UNCHANGED <<brk, modules>> /\ Settle(heap)
  BY DEF BindImport
<1> QED
  BY <1>3, <1>4, <1>5, ScopeMoves

\* A new scope holds nothing,
LEMMA OpenedHolds ==
  ASSUME NEW L, NEW sc, ScopesOK(sc), ScopesHold(sc, L)
  PROVE  ScopesHold(Append(sc, Fresh), L)
<1>1. sc \in Seq(Range(sc) \cup {Fresh})
  BY SeqMonotonic DEF ScopesOK
<1>2. /\ Len(Append(sc, Fresh)) = Len(sc) + 1 /\ Len(sc) \in Nat
      /\ \A i \in 1 .. Len(sc) : Append(sc, Fresh)[i] = sc[i]
      /\ Append(sc, Fresh)[Len(sc) + 1] = Fresh
      /\ DOMAIN Append(sc, Fresh) = 1 .. Len(sc) + 1 /\ DOMAIN sc = 1 .. Len(sc)
  <2>1. Append(sc, Fresh) \in Seq(Range(sc) \cup {Fresh})
    BY <1>1, AppendProperties
  <2> QED
    BY <1>1, <2>1, AppendProperties, LenProperties
<1>3. DOMAIN Fresh.values = {}
  BY DEF Fresh, Empty
<1> QED
  BY <1>2, <1>3 DEF ScopesHold

\* and the other scopes keep what they hold.
LEMMA ClosedHolds ==
  ASSUME NEW L, NEW sc, ScopesOK(sc), ScopesHold(sc, L), Len(sc) > 1
  PROVE  ScopesHold(Front(sc), L)
<1>1. /\ Front(sc) \in Seq(Range(sc)) /\ Len(sc) \in Nat \ {0}
      /\ Len(Front(sc)) = Len(sc) - 1
      /\ \A i \in 1 .. Len(sc) - 1 : Front(sc)[i] = sc[i]
  BY Ends DEF ScopesOK
<1>2. DOMAIN Front(sc) = 1 .. Len(sc) - 1 /\ DOMAIN sc = 1 .. Len(sc)
  BY <1>1, LenProperties DEF ScopesOK
<1> QED
  BY <1>1, <1>2 DEF ScopesHold

\* The step lists of loops.
LEMMA LoopOthers ==
  /\ <<"body", "again">> \in Seq(OtherSteps) /\ <<"skip">> \in Seq(OtherSteps)
  /\ <<"next">> \in Seq(OtherSteps) /\ << >> \in Seq(OtherSteps)
  /\ Handler["WhileLoop"] \in Seq(OtherSteps)
<1>1. {"body", "again", "skip", "next"} \subseteq OtherSteps
  BY DEF OtherSteps, Steps, ChildSteps
<1>2. "WhileLoop" \in DOMAIN Handler /\ "WhileLoop" \notin Collections
  BY DEF Handler, Collections
<1> QED
  BY <1>1, <1>2, ShortOthers, HandlerOthers

\* Loops open and close scopes.
LEMMA LoopsMove ==
  ASSUME NEW L, NEW M, Supplied(L, M), While \/ Again \/ Terminate
  PROVE  Moves(M) \/ Fails
<1>1. ScopesOK(scopes) /\ ScopesHold(scopes, L)
  BY DEF Supplied, TypeOK, AllHold
<1>2. CASE While
  <2>1. At("while", 1)
    BY <1>2 DEF While
  <2>2. Carries(Done(0), L)
    BY <2>1, SuppliedFacts
  <2>3. \A s \in Seq(OtherSteps) : Carries(Then(Done(0), s), L)
    BY <2>2, ThenCarries DEF Supplied
  <2>4. CASE Step(Then(Done(0), <<"skip">>), pos)
    BY <2>3, <2>4, LoopOthers, StepMoves
  <2>5. CASE OpenBody(Done(0))
    <3>1. /\ stack' = Append(Front(stack), Then(Done(0), <<"body", "again">>))
          /\ scopes' = Append(scopes, Fresh)
          /\ UNCHANGED <<brk, modules>> /\ Settle(heap)
      BY <2>5 DEF OpenBody
    <3>2. ScopesHold(scopes', L)
      BY <1>1, <3>1, OpenedHolds
    <3> QED
      BY <2>3, <3>1, <3>2, LoopOthers, ScopeMoves
  <2> QED
    BY <1>2, <2>4, <2>5 DEF While
<1>3. CASE Again
  <2> DEFINE todo == CASE Top.node = "WhileLoop" /\ Top.body = "Break" -> << >>
                       [] Top.node = "WhileLoop" /\ Top.body # "Break" -> Handler["WhileLoop"]
                       [] Top.node # "WhileLoop" /\ Top.body = "Break" -> <<"skip">>
                       [] OTHER -> <<"next">>
             f == [Done(1) EXCEPT !.todo = todo]
  <2>1. At("again", 1) /\ Len(scopes) > 1 /\ scopes' = Front(scopes)
    BY <1>3 DEF Again
  <2>2. stack' = Append(Front(stack), f) /\ UNCHANGED <<brk, modules>> /\ Settle(heap)
    BY <1>3 DEF Again
  <2>3. todo \in Seq(OtherSteps)
    BY LoopOthers
  <2>4. Carries(Done(1), L)
    BY <2>1, SuppliedFacts
  <2>5. Carries(f, L)
    <3> HIDE DEF todo
    <3> QED
      BY <2>3, <2>4, TodoCarries DEF Supplied
  <2>6. ScopesHold(scopes', L)
    BY <1>1, <2>1, ClosedHolds
  <2> HIDE DEF f
  <2> QED
    BY <2>2, <2>5, <2>6, ScopeMoves
<1>4. CASE Terminate
  <2>1. At("terminate", 0)
    BY <1>4 DEF Terminate
  <2>2. /\ scopes' = [scopes EXCEPT ![Len(scopes)].terminated = TRUE]
        /\ stack' = Append(Front(stack), Done(0))
        /\ UNCHANGED <<brk, modules>> /\ Settle(heap)
    BY <1>4 DEF Terminate
  <2>3. DOMAIN scopes' = DOMAIN scopes /\ \A i \in DOMAIN scopes : scopes'[i].values = scopes[i].values
    BY <1>1, <2>2 DEF ScopesOK, IsScope
  <2>4. ScopesHold(scopes', L)
    BY <1>1, <2>3 DEF ScopesHold
  <2>5. Carries(Done(0), L)
    BY <2>1, SuppliedFacts
  <2> QED
    BY <2>2, <2>4, <2>5, ScopeMoves
<1> QED
  BY <1>2, <1>3, <1>4

\* An augmented assignment writes to an Integer.
LEMMA AugmentMoves ==
  ASSUME NEW L, NEW M, Supplied(L, M), Augment
  PROVE  Moves(M) \/ Fails
<1> DEFINE target == Top.vals[1]
           value == Top.vals[2]
           o == Int32(heap[target].val + heap[value].val)
           h == Put(heap, target, o)
<1>1. At("augment", 2)
  BY DEF Augment
<1>2. \/ Fails
      \/ /\ Both(heap, target, value, "Integer")
         /\ Resume(Done(2), pos, h) /\ UNCHANGED brk
  BY DEF Augment, Fails
<1>3. Carries(Done(2), L)
  BY <1>1, SuppliedFacts
<1>4. ASSUME Both(heap, target, value, "Integer"), Resume(Done(2), pos, h), UNCHANGED brk
      PROVE  Moves(M)
  <2>1. Carries(Done(2), M)
    BY <1>3, WiderCarries DEF Supplied
  <2>2. target \in DOMAIN heap /\ heap[target].type = "Integer"
    BY <1>4 DEF Both, Is
  <2>3. Owned(o) = {} /\ o.type = "Integer"
    BY DEF Owned, Int32
  <2>4. /\ DOMAIN h = DOMAIN heap /\ h[target] = o
        /\ \A p \in DOMAIN heap : p # target => h[p] = heap[p]
    BY <2>2 DEF Put
  <2>5. /\ stack' = Append(Front(stack), Done(2)) /\ Settle(h)
        /\ scopes' = scopes /\ modules' = modules
    BY <1>4 DEF Resume
  <2>6. brk \in Nat /\ brk' \in Nat /\ brk <= brk' /\ brk + 1 .. brk' = {}
    BY <1>4 DEF Supplied, TypeOK
  <2>7. ScopesHold(scopes, M) /\ ModulesHold(modules, M) /\ ObjectsHold(heap, M)
    BY HoldWider DEF Supplied, AllHold
  <2> HIDE DEF h, o, target, value
  <2>8. GrowsInto(h)
    BY <2>2, <2>3, <2>4, <2>6 DEF GrowsInto
  <2>9. Registers(h)
    BY <2>5, <2>6 DEF Registers
  <2>10. ObjectsHold(h, M)
    BY <2>3, <2>4, <2>7 DEF ObjectsHold
  <2> QED
    BY <2>1, <2>5, <2>7, <2>8, <2>9, <2>10 DEF Moves
<1> QED
  BY <1>2, <1>4

\* import_module finds the module or makes and lists it.
LEMMA LoadMoves ==
  ASSUME NEW L, NEW M, Supplied(L, M), Load
  PROVE  Moves(M) \/ Fails
<1>1. At("load", 1)
  BY DEF Load
<1>2. Carries(Done(0), L)
  BY <1>1, SuppliedFacts
<1>3. PICK m :
        \/ m \in DOMAIN modules /\ Yield(Use(modules[m]), Done(0), pos)
        \/ Fails
        \/ /\ m \notin DOMAIN modules
           /\ brk' = brk + 1
           /\ modules' = Put(modules, m, brk + 1)
           /\ stack' = Append(Front(stack), Push(Done(0), brk + 1))
           /\ UNCHANGED <<prog, code, pos, scopes, outcome>>
           /\ Settle(Put(heap, brk + 1, Module(m)))
  BY DEF Load, Loaded, Fails
<1>4. CASE m \in DOMAIN modules /\ Yield(Use(modules[m]), Done(0), pos)
  <2>1. modules[m] \in L
    BY <1>4 DEF Supplied, AllHold, ModulesHold
  <2>2. Harmless(Use(modules[m]), L)
    BY <2>1, HarmlessKinds
  <2> QED
    BY <1>2, <1>4, <2>2, YieldMoves
<1>5. CASE /\ m \notin DOMAIN modules
           /\ brk' = brk + 1
           /\ modules' = Put(modules, m, brk + 1)
           /\ stack' = Append(Front(stack), Push(Done(0), brk + 1))
           /\ UNCHANGED <<prog, code, pos, scopes, outcome>>
           /\ Settle(Put(heap, brk + 1, Module(m)))
  <2> DEFINE h == Put(heap, brk + 1, Module(m))
             g == Push(Done(0), brk + 1)
  <2>1. Owned(Module(m)) = {}
    BY DEF Owned, Module
  <2>2. brk \in Nat /\ brk + 1 \in brk + 1 .. brk' /\ brk + 1 \in M
    BY <1>5 DEF Supplied, TypeOK
  <2>3. Carries(g, M)
    <3>1. Carries(Done(0), M)
      BY <1>2, WiderCarries DEF Supplied
    <3> QED
      BY <2>2, <3>1, PushCarries DEF Supplied
  <2>4. ScopesHold(scopes, M) /\ ModulesHold(modules, M) /\ ObjectsHold(heap, M)
    BY HoldWider DEF Supplied, AllHold
  <2>5. GrowsInto(h) /\ ObjectsHold(h, M) /\ h[brk + 1] = Module(m)
    BY <1>5, <2>1, <2>4, ObjectGrows DEF Supplied
  <2>6. ModulesHold(modules', M)
    BY <1>5, <2>2, <2>4 DEF ModulesHold, Put
  <2>7. stack' = Append(Front(stack), g) /\ Settle(h) /\ scopes' = scopes
    BY <1>5
  <2> HIDE DEF h, g
  <2>8. Registers(h)
    BY <1>5, <2>5 DEF Registers
  <2> QED
    BY <2>3, <2>4, <2>5, <2>6, <2>7, <2>8 DEF Moves
<1> QED
  BY <1>3, <1>4, <1>5

\* What an iterator makes to yield a value.
Yields(fresh, M) ==
  /\ Len(fresh) \in Nat
  /\ \A i \in 1 .. Len(fresh) :
       /\ IsObject(fresh[i]) /\ fresh[i].type # "Module" /\ Owned(fresh[i]) \subseteq M
       /\ \A j \in 1 .. Len(fresh) : brk + j \in Owned(fresh[i]) => j # i /\ Owned(fresh[j]) = {}

\* A loop binds its names to what the iterator came upon.
LEMMA BindMoves ==
  ASSUME NEW L, NEW M, Supplied(L, M),
         At("next", 2), Top.rd # << >>, Is(heap, Top.vals[2], "Iterator"),
         NEW fresh, NEW p, brk' = brk + Len(fresh) => Yields(fresh, M) /\ p \in M,
         NEW it, IsObject(it), it.type = "Iterator",
         Bind(fresh, p, it)
  PROVE  Moves(M) \/ Fails
<1> DEFINE n == Len(fresh)
           h == [r \in DOMAIN heap \cup brk + 1 .. brk + Len(fresh) |->
                   IF r > brk THEN fresh[r - brk]
                   ELSE IF r = Top.vals[2] THEN it ELSE heap[r]]
           g == Then(Done(0), <<"body", "again">>)
           f == Push(g, p)
<1>1. \/ Fails
      \/ /\ ~ (Len(Top.rd) # 1 /\ ~ Is(h, p, "Tuple"))
         /\ stack' = Append(Front(stack), f)
         /\ scopes' = Bound(Append(scopes, Fresh), Top.rd, h, p)
         /\ brk' = brk + n
         /\ UNCHANGED <<prog, code, pos, modules, outcome>>
         /\ Settle(h)
  BY DEF Bind, Fails
<1>2. CASE /\ ~ (Len(Top.rd) # 1 /\ ~ Is(h, p, "Tuple"))
           /\ stack' = Append(Front(stack), f)
           /\ scopes' = Bound(Append(scopes, Fresh), Top.rd, h, p)
           /\ brk' = brk + n
           /\ UNCHANGED <<prog, code, pos, modules, outcome>>
           /\ Settle(h)
  <2>1. n \in Nat /\ brk \in Nat /\ HeapOK(heap, brk)
    BY <1>2 DEF Yields, Supplied, TypeOK
  <2>2. Yields(fresh, M) /\ p \in M /\ TypeOK /\ stack # << >>
    BY <1>2 DEF Supplied
  <2>3. /\ DOMAIN h = DOMAIN heap \cup (brk + 1 .. brk')
        /\ \A q \in DOMAIN heap : q <= brk /\ q \in Nat
             /\ h[q] = IF q = Top.vals[2] THEN it ELSE heap[q]
        /\ \A q \in brk + 1 .. brk' : q - brk \in 1 .. n /\ h[q] = fresh[q - brk]
    BY <1>2, <2>1 DEF HeapOK
  <2>4. Carries(f, M)
    <3>1. Carries(Done(0), M)
      <4>1. Carries(Done(0), L)
        BY SuppliedFacts
      <4> QED
        BY <4>1, WiderCarries DEF Supplied
    <3>2. Carries(g, M)
      BY <2>2, <3>1, LoopOthers, ThenCarries
    <3> HIDE DEF g
    <3> QED
      BY <2>2, <3>2, PushCarries
  <2>5. ScopesHold(scopes, M) /\ ModulesHold(modules, M) /\ ObjectsHold(heap, M)
    BY HoldWider DEF Supplied, AllHold
  <2>6. Owned(it) = {} /\ it.type # "Module"
    BY DEF Owned
  <2> HIDE DEF h, f, g, n
  <2>7. HeapOK(h, brk')
    <3>1. DOMAIN h \subseteq 1 .. brk'
      BY <1>2, <2>1, <2>3 DEF HeapOK
    <3>2. \A q \in DOMAIN h : IsObject(h[q])
      BY <2>1, <2>2, <2>3 DEF HeapOK, Yields, n
    <3> QED
      BY <3>1, <3>2 DEF HeapOK
  <2>8. ObjectsHold(h, M)
    BY <2>2, <2>3, <2>5, <2>6 DEF ObjectsHold, Yields, n
  <2>9. GrowsInto(h)
    <3>1. brk' \in Nat /\ brk <= brk'
      BY <1>2, <2>1
    <3>2. ASSUME NEW q \in DOMAIN heap
          PROVE  h[q] = heap[q] \/ (Owned(h[q]) = {} /\ heap[q].type # "Module" /\ h[q].type # "Module")
      BY <2>3, <2>6 DEF Is
    <3>3. ASSUME NEW q \in brk + 1 .. brk', NEW r \in Owned(h[q]), r \in brk + 1 .. brk'
          PROVE  r # q /\ Owned(h[r]) = {}
      <4>1. /\ q - brk \in 1 .. n /\ h[q] = fresh[q - brk]
            /\ r - brk \in 1 .. n /\ h[r] = fresh[r - brk]
            /\ brk + (r - brk) = r
        BY <2>1, <2>3, <3>1, <3>3
      <4>2. brk + (r - brk) \in Owned(fresh[q - brk])
        BY <3>3, <4>1
      <4>3. r - brk # q - brk /\ Owned(fresh[r - brk]) = {}
        BY <2>2, <4>1, <4>2 DEF Yields, n
      <4> QED
        BY <4>1, <4>3
    <3> QED
      BY <2>3, <3>1, <3>2, <3>3 DEF GrowsInto
  <2>10. Registers(h)
    BY <1>2, <2>2, <2>3 DEF Registers, Yields, n
  <2>11. ScopesHold(scopes', M)
    <3>1. ScopesOK(Append(scopes, Fresh)) /\ ScopesHold(Append(scopes, Fresh), M)
      BY <2>2, <2>5, OpenedScopes, OpenedHolds DEF TypeOK
    <3>2. Top.rd \in Texts
      BY <2>2, AtType DEF Frame
    <3>3. brk' \in Nat
      BY <1>2, <2>1
    <3> QED
      BY <1>2, <2>2, <2>7, <2>8, <3>1, <3>2, <3>3, BoundHolds
  <2> QED
    BY <1>2, <2>4, <2>5, <2>8, <2>9, <2>10, <2>11 DEF Moves
<1> QED
  BY <1>1, <1>2

\* The head of a for loop: each iterator's next().
LEMMA AdvanceMoves ==
  ASSUME NEW L, NEW M, Supplied(L, M), Advance
  PROVE  Moves(M) \/ Fails
<1> DEFINE it == heap[Top.vals[2]].val
           d == heap[it.over].val
<1>1. At("next", 2) /\ Top.rd # << >> /\ Is(heap, Top.vals[2], "Iterator")
  BY DEF Advance
<1>2. brk \in Nat /\ HeapOK(heap, brk) /\ ObjectsHold(heap, L) /\ L \subseteq M
  BY DEF Supplied, TypeOK, AllHold
<1>3. Top.vals[2] \in DOMAIN heap /\ IsIterator(it)
  BY <1>1, <1>2 DEF Is, HeapOK, IsObject
<1>4. \A at \in Nat, done \in SUBSET STRING :
        IsObject(Moved(it, at, done)) /\ Moved(it, at, done).type = "Iterator"
  BY <1>3, MovedType DEF Moved, Iter
<1>5. CASE Stop
  <2>1. Carries(Done(0), L)
    BY <1>1, SuppliedFacts
  <2>2. Carries(Then(Done(0), <<"skip">>), L)
    BY <2>1, LoopOthers, ThenCarries DEF Supplied
  <2> QED
    BY <1>5, <2>2, StepMoves DEF Stop
<1>6. CASE Fail(DanglingReference.msg)
  BY <1>6 DEF Fails
<1>7. CASE it.kind = "Range" /\ Bind(<<Int32(it.at)>>, brk + 1, Moved(it, it.at + 1, {}))
  <2> DEFINE o == Int32(it.at)
             moved == Moved(it, it.at + 1, {})
  <2>1. it.at \in Nat /\ it.at + 1 \in Nat /\ {} \in SUBSET STRING
    BY <1>3 DEF IsIterator
  <2>2. IsObject(o) /\ o.type = "Integer" /\ Owned(o) = {}
    BY <2>1, Int32Type DEF Int32, Owned
  <2>3. IsObject(moved) /\ moved.type = "Iterator"
    BY <1>4, <2>1
  <2>4. Bind(<<o>>, brk + 1, moved)
    BY <1>7
  <2> HIDE DEF o, moved
  <2>5. Yields(<<o>>, M)
    BY <2>2 DEF Yields
  <2>6. brk' = brk + Len(<<o>>) => brk + 1 \in M
    BY <1>2 DEF Supplied
  <2> QED
    BY <1>1, <2>3, <2>4, <2>5, <2>6, BindMoves
<1>8. CASE /\ it.kind = "List" /\ Is(heap, it.over, "List")
           /\ ~ (it.at >= Len(d))
           /\ Bind(<< >>, d[it.at + 1], Moved(it, it.at + 1, {}))
  <2> DEFINE moved == Moved(it, it.at + 1, {})
             at == it.at
             p == d[at + 1]
             none == << >>
  <2>1. at \in Nat /\ at + 1 \in Nat /\ {} \in SUBSET STRING
    BY <1>3 DEF IsIterator
  <2>2. d \in Seq(Ptr) /\ \A i \in DOMAIN d : d[i] \in L
    BY <1>2, <1>8 DEF HeapOK, Is, IsObject, ObjectsHold, Owned
  <2>3. p \in M
    <3>1. ~ (at >= Len(d))
      BY <1>8
    <3> HIDE DEF d, at
    <3>2. Len(d) \in Nat /\ DOMAIN d = 1 .. Len(d)
      BY <2>2, LenProperties
    <3>3. at + 1 \in 1 .. Len(d)
      BY <2>1, <3>1, <3>2
    <3> QED
      BY <1>2, <2>2, <3>2, <3>3
  <2>4. IsObject(moved) /\ moved.type = "Iterator"
    BY <1>4, <2>1
  <2>5. Bind(none, p, moved)
    BY <1>8
  <2>6. Len(none) = 0
    OBVIOUS
  <2> HIDE DEF p, moved, none
  <2>7. Yields(none, M)
    BY <2>6 DEF Yields
  <2> QED
    BY <1>1, <2>3, <2>4, <2>5, <2>7, BindMoves
<1>9. CASE /\ it.kind \in {"DictItem", "DictKey"} /\ Is(heap, it.over, "Dictionary")
           /\ \E k \in Least(DOMAIN d \ it.done) :
                LET moved == Moved(it, 0, it.done \cup {k}) IN
                IF it.kind = "DictKey" THEN Bind(<< >>, d[k], moved)
                ELSE Bind(<<Str(k), Pair(brk + 1, d[k])>>, brk + 2, moved)
  <2>1. PICK k \in Least(DOMAIN d \ it.done) :
               LET moved == Moved(it, 0, it.done \cup {k}) IN
               IF it.kind = "DictKey" THEN Bind(<< >>, d[k], moved)
               ELSE Bind(<<Str(k), Pair(brk + 1, d[k])>>, brk + 2, moved)
    BY <1>9
  <2> DEFINE moved == Moved(it, 0, it.done \cup {k})
             v == d[k]
  <2>2. k \in DOMAIN d
    BY DEF Least
  <2>3. k \in STRING /\ v \in Ptr /\ v \in L /\ v \in M
    BY <1>2, <1>9, <2>2 DEF HeapOK, Is, IsObject, ObjectsHold, Owned
  <2>4. IsObject(moved) /\ moved.type = "Iterator"
    <3>1. it.done \cup {k} \in SUBSET STRING
      BY <1>3, <2>3 DEF IsIterator
    <3> QED
      BY <1>4, <3>1
  <2>5. CASE it.kind = "DictKey" /\ Bind(<< >>, v, moved)
    <3> DEFINE none == << >>
    <3>1. Len(none) = 0 /\ Bind(none, v, moved)
      BY <2>5
    <3> HIDE DEF moved, v, none
    <3>2. Yields(none, M)
      BY <3>1 DEF Yields
    <3> QED
      BY <1>1, <2>3, <2>4, <3>1, <3>2, BindMoves
  <2>6. CASE it.kind # "DictKey" /\ Bind(<<Str(k), Pair(brk + 1, v)>>, brk + 2, moved)
    <3> DEFINE key == Str(k)
               pair == Pair(brk + 1, v)
    <3>1. brk + 1 \in Ptr
      BY <1>2 DEF Ptr
    <3>2. /\ IsObject(key) /\ IsObject(pair) /\ key.type = "String" /\ pair.type = "Tuple"
          /\ Owned(key) = {} /\ Owned(pair) = {brk + 1, v}
      <4>1. IsObject(key) /\ IsObject(pair)
        BY <2>3, <3>1, ObjectTypes
      <4>2. key.type = "String" /\ pair.type = "Tuple" /\ pair.val = <<brk + 1, v>>
        BY DEF Str, Pair
      <4>3. Owned(key) = {} /\ Owned(pair) = { pair.val[i] : i \in DOMAIN pair.val }
        <5> HIDE DEF key, pair
        <5> QED
          BY <4>2 DEF Owned
      <4>4. DOMAIN <<brk + 1, v>> = {1, 2} /\ <<brk + 1, v>>[1] = brk + 1 /\ <<brk + 1, v>>[2] = v
        <5> HIDE DEF key, pair, v
        <5> QED
          OBVIOUS
      <4>5. Owned(pair) = {brk + 1, v}
        <5> HIDE DEF key, pair, v
        <5> QED
          BY <4>2, <4>3, <4>4
      <4> QED
        BY <4>1, <4>2, <4>3, <4>5
    <3>3. Bind(<<key, pair>>, brk + 2, moved)
      BY <2>6
    <3>4. v \in DOMAIN heap \/ v = Null
      BY <2>3 DEF Supplied, Live
    <3> HIDE DEF key, pair, moved, v
    <3>5. ASSUME brk' = brk + Len(<<key, pair>>)
          PROVE  Yields(<<key, pair>>, M) /\ brk + 2 \in M
      <4>1. brk + 1 \in M /\ brk + 2 \in M
        BY <1>2, <3>5 DEF Supplied
      <4>2. /\ Len(<<key, pair>>) = 2 /\ <<key, pair>>[1] = key /\ <<key, pair>>[2] = pair
        OBVIOUS
      <4>3. v \notin {brk + 1, brk + 2}
        BY <1>2, <3>4 DEF HeapOK, Null
      <4>4. /\ IsObject(key) /\ key.type # "Module" /\ Owned(key) \subseteq M
            /\ IsObject(pair) /\ pair.type # "Module" /\ Owned(pair) \subseteq M
        BY <1>2, <2>3, <3>2, <4>1
      <4>5. /\ \A j \in 1 .. 2 : brk + j \notin Owned(key)
            /\ \A j \in 1 .. 2 : brk + j \in Owned(pair) => j = 1
        BY <1>2, <3>2, <4>3
      <4>6. /\ Len(<<key, pair>>) \in Nat
            /\ \A i \in 1 .. 2 :
                 /\ IsObject(<<key, pair>>[i]) /\ <<key, pair>>[i].type # "Module"
                 /\ Owned(<<key, pair>>[i]) \subseteq M
                 /\ \A j \in 1 .. 2 : brk + j \in Owned(<<key, pair>>[i])
                      => j # i /\ Owned(<<key, pair>>[j]) = {}
        <5>1. \A i \in 1 .. 2 : i = 1 \/ i = 2
          OBVIOUS
        <5> QED
          BY <3>2, <4>2, <4>4, <4>5, <5>1
      <4> QED
        BY <4>1, <4>2, <4>6 DEF Yields
    <3> QED
      BY <1>1, <2>4, <3>3, <3>5, BindMoves
  <2> QED
    BY <2>1, <2>5, <2>6
<1> QED
  BY <1>5, <1>6, <1>7, <1>8, <1>9
  DEF Advance, NextOfRange, NextOfList, NextOfItems, NextOfDictionary, Left

-----------------------------------------------------------------------------
(* No object owns itself. *)

\* No object is reached from what it owns.
Acyclic(h) == \A p \in DOMAIN h : p \notin Reachable(h, Owned(h[p]))

\* The objects C are all that p owns, and do not own p.
Below(h, p, C) ==
  /\ C \in SUBSET DOMAIN h /\ p \notin C
  /\ Owned(h[p]) \cap DOMAIN h \subseteq C /\ OwnsWithin(h, C)

\* An object that does not own itself has everything it owns below it.
LEMMA AcyclicBelow ==
  ASSUME NEW h, IsFiniteSet(DOMAIN h)
  PROVE  Acyclic(h) <=> \A p \in DOMAIN h : \E C : Below(h, p, C)
<1>1. ASSUME NEW p \in DOMAIN h
      PROVE  p \notin Reachable(h, Owned(h[p])) <=> \E C : Below(h, p, C)
  <2> DEFINE R == Reachable(h, Owned(h[p]))
  <2>1. Spans(h, Owned(h[p]) \cap DOMAIN h, R)
    BY ReachableSpans
  <2> HIDE DEF R
  <2>2. p \notin R => Below(h, p, R)
    BY <2>1 DEF Spans, Below
  <2>3. ASSUME NEW C, Below(h, p, C) PROVE p \notin R
    BY <2>1, <2>3 DEF Spans, Below
  <2> QED
    BY <2>2, <2>3 DEF R
<1> QED
  BY <1>1 DEF Acyclic

\* Reference counting leaves no object to own itself.
LEMMA CollectKeepsAcyclic ==
  ASSUME NEW h, IsFiniteSet(DOMAIN h), Acyclic(h), NEW roots, NEW g, g = Collect(h, roots)
  PROVE  Acyclic(g)
<1>1. Spans(h, roots \cap DOMAIN h, Reachable(h, roots))
  BY ReachableSpans
<1>2. DOMAIN g \subseteq DOMAIN h /\ OwnsWithin(h, DOMAIN g) /\ \A p \in DOMAIN g : g[p] = h[p]
  BY <1>1 DEF Collect, Spans
<1>3. IsFiniteSet(DOMAIN g)
  BY <1>2, FS_Subset
<1>4. ASSUME NEW p \in DOMAIN g
      PROVE  \E C : Below(g, p, C)
  <2>1. PICK C : Below(h, p, C)
    BY <1>2, AcyclicBelow
  <2>2. Below(g, p, C \cap DOMAIN g)
    BY <1>2, <2>1 DEF Below, OwnsWithin
  <2> QED
    BY <2>2
<1> QED
  BY <1>3, <1>4, AcyclicBelow

\* Nor do new objects that own only what was there, or what owns nothing.
LEMMA GrowthKeepsAcyclic ==
  ASSUME TypeOK, Acyclic(heap), ObjectsHold(heap, Live(heap)), NEW h, GrowsInto(h)
  PROVE  /\ Acyclic(h) /\ IsFiniteSet(DOMAIN h) /\ IsFiniteSet(DOMAIN heap)
         /\ DOMAIN h \subseteq 1 .. brk'
<1>1. /\ brk \in Nat /\ brk' \in Nat /\ brk <= brk'
      /\ DOMAIN heap \subseteq 1 .. brk /\ DOMAIN h = DOMAIN heap \cup (brk + 1 .. brk')
  BY DEF TypeOK, HeapOK, GrowsInto
<1>2. DOMAIN h \subseteq 1 .. brk' /\ Null \notin DOMAIN h
  BY <1>1 DEF Null
<1>3. IsFiniteSet(DOMAIN h) /\ IsFiniteSet(DOMAIN heap)
  <2>1. IsFiniteSet(1 .. brk')
    BY <1>1, FS_Interval
  <2>2. DOMAIN heap \subseteq DOMAIN h
    BY <1>1
  <2>3. IsFiniteSet(DOMAIN h)
    BY <1>2, <2>1, FS_Subset
  <2> QED
    BY <2>2, <2>3, FS_Subset
<1>4. \A p \in DOMAIN heap : Owned(h[p]) \cap DOMAIN h \subseteq Owned(heap[p]) \cap DOMAIN heap
  BY <1>2 DEF GrowsInto, ObjectsHold, Live
<1>5. ASSUME NEW p \in DOMAIN heap
      PROVE  \E C : Below(h, p, C)
  <2>1. PICK C : Below(heap, p, C)
    BY <1>3, AcyclicBelow
  <2>2. Below(h, p, C)
    BY <1>1, <1>4, <2>1 DEF Below, OwnsWithin
  <2> QED
    BY <2>2
<1>6. ASSUME NEW p \in brk + 1 .. brk'
      PROVE  \E C : Below(h, p, C)
  <2> DEFINE C == DOMAIN heap \cup (Owned(h[p]) \cap (brk + 1 .. brk'))
  <2>1. \A q \in Owned(h[p]) : q \in brk + 1 .. brk' => q # p /\ Owned(h[q]) = {}
    BY DEF GrowsInto
  <2>2. p \notin C
    BY <1>1, <2>1
  <2>3. OwnsWithin(h, C)
    BY <1>4, <2>1 DEF OwnsWithin
  <2>4. C \in SUBSET DOMAIN h /\ Owned(h[p]) \cap DOMAIN h \subseteq C
    BY <1>1
  <2>5. Below(h, p, C)
    BY <2>2, <2>3, <2>4 DEF Below
  <2> QED
    BY <2>5
<1> QED
  BY <1>1, <1>2, <1>3, <1>5, <1>6, AcyclicBelow

\* What one object comes to own while no object owns it.
LEMMA FillingKeepsAcyclic ==
  ASSUME NEW g, IsFiniteSet(DOMAIN g), Acyclic(g), NEW l \in DOMAIN g,
         NEW h, DOMAIN h = DOMAIN g, \A p \in DOMAIN g : p # l => h[p] = g[p],
         \A p \in DOMAIN h : l \notin Owned(h[p])
  PROVE  Acyclic(h)
<1>1. ASSUME NEW p \in DOMAIN g, p # l
      PROVE  \E C : Below(h, p, C)
  <2>1. PICK C : Below(g, p, C)
    BY AcyclicBelow
  <2>2. h[p] = g[p]
    BY <1>1
  <2>3. Below(h, p, C \ {l})
    <3>1. C \in SUBSET DOMAIN g /\ p \notin C
          /\ Owned(g[p]) \cap DOMAIN g \subseteq C /\ OwnsWithin(g, C)
      BY <2>1 DEF Below
    <3>2. OwnsWithin(h, C \ {l})
      BY <3>1 DEF OwnsWithin
    <3>3. Owned(h[p]) \cap DOMAIN h \subseteq C \ {l}
      BY <2>2, <3>1
    <3> QED
      BY <3>1, <3>2, <3>3 DEF Below
  <2> QED
    BY <2>3
<1>2. Below(h, l, DOMAIN g \ {l})
  BY DEF Below, OwnsWithin
<1> QED
  BY <1>1, <1>2, AcyclicBelow

-----------------------------------------------------------------------------
(* What holds between reference counts. *)

\* Every object that something owns is alive, and none owns itself.
Whole(st, sc, mo, h) ==
  /\ FramesHold(st, Live(h)) /\ ScopesHold(sc, Live(h)) /\ ModulesHold(mo, Live(h))
  /\ ObjectsHold(h, Live(h)) /\ Acyclic(h)

\* m_loaded_modules and the Module objects correspond.
Listed(mo, h) ==
  /\ \A p \in DOMAIN h : h[p].type = "Module" => h[p].val \in DOMAIN mo /\ mo[h[p].val] = p
  /\ \A m \in DOMAIN mo : mo[m] \in DOMAIN h /\ h[mo[m]] = Module(m)

\* What reference counting works on: objects with their numbers.
Countable(h) == IsFiniteSet(DOMAIN h) /\ Null \notin DOMAIN h

\* The heap is what reference counting works on.
LEMMA HeapCountable ==
  ASSUME TypeOK
  PROVE  Countable(heap)
<1>1. brk \in Nat /\ DOMAIN heap \subseteq 1 .. brk
  BY DEF TypeOK, HeapOK
<1>2. IsFiniteSet(1 .. brk)
  BY <1>1, FS_Interval
<1> QED
  BY <1>1, <1>2, FS_Subset DEF Countable, Null

\* The roots of reference counting are what frames, scopes and
\* m_loaded_modules hold.
LEMMA OwnersHeld ==
  ASSUME NEW L, NEW st, NEW sc, NEW mo
  PROVE  FramesHold(st, L) /\ ScopesHold(sc, L) /\ ModulesHold(mo, L)
           => Owners(st, sc, mo) \subseteq L
<1> SUFFICES ASSUME FramesHold(st, L), ScopesHold(sc, L), ModulesHold(mo, L)
             PROVE  Owners(st, sc, mo) \subseteq L
  OBVIOUS
<1>1. ASSUME NEW i \in DOMAIN st
      PROVE  Range(st[i].vals) \subseteq L
  <2>1. st[i].vals \in Seq(L)
    BY DEF FramesHold
  <2> QED
    BY <2>1, ElementOfSeq DEF Range
<1>2. \A i \in DOMAIN sc : Range(sc[i].values) \subseteq L
  BY DEF ScopesHold, Range
<1>3. Range(mo) \subseteq L
  BY DEF ModulesHold, Range
<1>4. \A f \in Range(st) : Range(f.vals) \subseteq L
  BY <1>1 DEF Range
<1>5. \A s \in Range(sc) : Range(s.values) \subseteq L
  BY <1>2 DEF Range
<1> QED
  BY <1>3, <1>4, <1>5 DEF Owners

\* What the owners hold stays within them.
LEMMA HeldByOwners ==
  ASSUME NEW L, NEW st, FramesHold(st, L), NEW sc, NEW mo
  PROVE  /\ FramesHold(st, L \cap Owners(st, sc, mo))
         /\ ScopesHold(sc, Owners(st, sc, mo)) /\ ModulesHold(mo, Owners(st, sc, mo))
<1> DEFINE O == Owners(st, sc, mo)
<1>1. ASSUME NEW i \in DOMAIN st
      PROVE  st[i].vals \in Seq(L \cap O)
  <2>1. st[i].vals \in Seq(L)
    BY DEF FramesHold
  <2>2. st[i] \in Range(st)
    BY DEF Range
  <2>3. Range(st[i].vals) \subseteq O
    BY <2>2 DEF Owners
  <2>4. \A k \in 1 .. Len(st[i].vals) : st[i].vals[k] \in L \cap O
    BY <2>1, <2>3, ElementOfSeq DEF Range
  <2> QED
    BY <2>1, <2>4
<1>2. ASSUME NEW i \in DOMAIN sc, NEW x \in DOMAIN sc[i].values
      PROVE  sc[i].values[x] \in O
  <2>1. sc[i] \in Range(sc)
    BY DEF Range
  <2>2. sc[i].values[x] \in Range(sc[i].values)
    BY DEF Range
  <2> QED
    BY <2>1, <2>2 DEF Owners
<1>3. \A m \in DOMAIN mo : mo[m] \in O
  BY DEF Owners, Range
<1> QED
  BY <1>1, <1>2, <1>3 DEF FramesHold, ScopesHold, ModulesHold

\* When objects were freed, what is left is still whole.
LEMMA SettlesWhole ==
  ASSUME NEW h, Countable(h), Settle(h), Whole(stack', scopes', modules', h)
  PROVE  /\ Whole(stack', scopes', modules', heap')
         /\ DOMAIN heap' \subseteq DOMAIN h /\ \A p \in DOMAIN heap' : heap'[p] = h[p]
         /\ Listed(modules', h) => Listed(modules', heap')
<1> DEFINE O == Owners(stack', scopes', modules')
           g == Collect(h, O)
<1>1. heap' = g
  BY DEF Settle
<1>2. O \subseteq Live(h)
  BY OwnersHeld DEF Whole
<1>3. ObjectsHold(h, Live(h)) /\ Acyclic(h) /\ IsFiniteSet(DOMAIN h) /\ Null \notin DOMAIN h
  BY DEF Whole, Countable
<1>4. FramesHold(stack', O) /\ ScopesHold(scopes', O) /\ ModulesHold(modules', O)
  <2>1. FramesHold(stack', Live(h) \cap O)
    BY HeldByOwners DEF Whole
  <2>2. Live(h) \cap O = O
    BY <1>2
  <2> QED
    BY <2>1, <2>2, HeldByOwners DEF Whole
<1> HIDE DEF O, g
<1>5. /\ DOMAIN g \subseteq DOMAIN h /\ \A p \in DOMAIN g : g[p] = h[p]
      /\ O \subseteq Live(g) /\ ObjectsHold(g, Live(g))
  BY <1>2, <1>3, CollectKeepsOwned DEF g
<1>6. Acyclic(g)
  BY <1>3, CollectKeepsAcyclic DEF g
<1>7. FramesHold(stack', Live(g)) /\ ScopesHold(scopes', Live(g)) /\ ModulesHold(modules', Live(g))
  BY <1>4, <1>5, SeqMonotonic DEF FramesHold, ScopesHold, ModulesHold
<1>8. Listed(modules', h) => Listed(modules', g)
  BY <1>3, <1>5, <1>7 DEF Listed, ModulesHold, Live
<1> QED
  BY <1>1, <1>5, <1>6, <1>7, <1>8 DEF Whole

-----------------------------------------------------------------------------
(* Lists and dictionaries under construction. *)

\* A frame builds a container, or does not write to any.
Shape(f) ==
  IF f.node \in Collections
  THEN \/ f.vals = << >> /\ f.todo = Handler[f.node]
       \/ f.vals # << >> /\ f.todo \in Seq(FillingSteps)
  ELSE f.todo \in Seq(OtherSteps)

\* The frame has made the container that it fills.
Filling(f) == f.node \in Collections /\ f.vals # << >>

\* Apart from frame i's first pointer, all pointers are in L.
Apart(st, sc, mo, h, i, L) ==
  /\ \A j \in DOMAIN st : j # i => st[j].vals \in Seq(L)
  /\ Tail(st[i].vals) \in Seq(L)
  /\ ScopesHold(sc, L) /\ ModulesHold(mo, L) /\ ObjectsHold(h, L)

\* The container that frame i fills is owned by that frame alone.
Private(st, sc, mo, h, i) ==
  /\ st[i].vals[1] # Null
  /\ Apart(st, sc, mo, h, i, Live(h) \ {st[i].vals[1]})

\* The frame waits for the frame above it.
Waiting(f) == f.todo # << >> /\ Head(f.todo) \in ChildSteps

\* Frames are at work on their containers or on something else; a container that
\* is being filled is still unknown to the rest of the program.
Built(st, sc, mo, h) ==
  \A i \in DOMAIN st :
    /\ Shape(st[i])
    /\ i < Len(st) => Waiting(st[i])
    /\ Filling(st[i]) => Private(st, sc, mo, h, i)

\* Two sets that hold the same pointers: their intersection does.
LEMMA HeldByBoth ==
  ASSUME NEW L, NEW M
  PROVE  /\ Seq(L) \cap Seq(M) \subseteq Seq(L \cap M)
         /\ \A sc : ScopesHold(sc, L) /\ ScopesHold(sc, M) => ScopesHold(sc, L \cap M)
         /\ \A mo : ModulesHold(mo, L) /\ ModulesHold(mo, M) => ModulesHold(mo, L \cap M)
         /\ \A h : ObjectsHold(h, L) /\ ObjectsHold(h, M) => ObjectsHold(h, L \cap M)
<1>1. ASSUME NEW s \in Seq(L), s \in Seq(M)
      PROVE  s \in Seq(L \cap M)
  <2>1. \A i \in 1 .. Len(s) : s[i] \in L \cap M
    BY <1>1, ElementOfSeq
  <2> QED
    BY <2>1
<1> QED
  BY <1>1 DEF ScopesHold, ModulesHold, ObjectsHold

\* A container that was private remains so when objects were freed.
LEMMA SettlesPrivate ==
  ASSUME NEW st, NEW sc, NEW mo, NEW g, Whole(st, sc, mo, g),
         NEW h, DOMAIN g \subseteq DOMAIN h, \A p \in DOMAIN g : g[p] = h[p],
         NEW i \in DOMAIN st, st[i].vals # << >>, st[i].vals[1] # Null,
         NEW M, st[i].vals[1] \notin M, Apart(st, sc, mo, h, i, M)
  PROVE  Private(st, sc, mo, g, i)
<1> DEFINE l == st[i].vals[1]
           L == Live(g) \ {l}
<1>1. /\ FramesHold(st, Live(g)) /\ ScopesHold(sc, Live(g)) /\ ModulesHold(mo, Live(g))
      /\ ObjectsHold(g, Live(g))
  BY DEF Whole
<1>2. ObjectsHold(g, M)
  BY DEF Apart, ObjectsHold
<1>3. M \cap Live(g) \subseteq L
  OBVIOUS
<1>4. /\ ScopesHold(sc, M) /\ ModulesHold(mo, M) /\ Tail(st[i].vals) \in Seq(M)
      /\ \A j \in DOMAIN st : j # i => st[j].vals \in Seq(M)
  BY DEF Apart
<1>5. Tail(st[i].vals) \in Seq(Live(g)) /\ \A j \in DOMAIN st : st[j].vals \in Seq(Live(g))
  BY <1>1, HeadTailProperties DEF FramesHold
<1> HIDE DEF l, L
<1>6. Seq(M \cap Live(g)) \subseteq Seq(L)
  BY <1>3, SeqMonotonic
<1>7. Tail(st[i].vals) \in Seq(L) /\ \A j \in DOMAIN st : j # i => st[j].vals \in Seq(L)
  BY <1>4, <1>5, <1>6, HeldByBoth
<1>8. ScopesHold(sc, L) /\ ModulesHold(mo, L) /\ ObjectsHold(g, L)
  <2>1. ScopesHold(sc, M \cap Live(g)) /\ ModulesHold(mo, M \cap Live(g)) /\ ObjectsHold(g, M \cap Live(g))
    BY <1>1, <1>2, <1>4, HeldByBoth
  <2> QED
    BY <1>3, <2>1, HoldWider
<1>9. Apart(st, sc, mo, g, i, L)
  BY <1>7, <1>8 DEF Apart
<1> QED
  BY <1>9 DEF Private, l, L

-----------------------------------------------------------------------------
(* The steps of frames that write to no container. *)

\* Before and after every step.
Accounted ==
  /\ Whole(stack, scopes, modules, heap) /\ Built(stack, scopes, modules, heap)
  /\ Listed(modules, heap)

\* The actions of execute_next that fill no container and enter or leave no frame.
OtherMoves ==
  \/ Skip \/ Drop \/ ReadOp \/ ReadNames \/ CheckCallable \/ Jump
  \/ String \/ Integer \/ Unary \/ Binary \/ Compare \/ Subscript \/ Attribute
  \/ Decided \/ Undecided \/ Call \/ Iterate \/ MakeAlias \/ Member
  \/ Lookup \/ Fetch \/ Decide \/ Choose \/ Assign \/ BindImport \/ While \/ Again \/ Terminate
  \/ Augment \/ Load \/ Advance

\* Each of them hands on only what the frame has.
LEMMA OthersMove ==
  ASSUME NEW L, NEW M, Supplied(L, M), OtherMoves
  PROVE  Moves(M) \/ Fails
<1>1. CASE \/ Skip \/ Drop \/ ReadOp \/ ReadNames \/ CheckCallable \/ Jump
           \/ Lookup \/ Fetch \/ Decide \/ Choose \/ Assign \/ BindImport
  BY <1>1, PlainMove, NamesMove, DecisionsMove, AssignMoves, BindImportMoves
<1>2. CASE \/ String \/ Integer \/ Unary \/ Binary \/ Compare \/ Subscript \/ Attribute
           \/ Decided \/ Undecided \/ Call \/ Iterate \/ MakeAlias \/ Member
  BY <1>2, OpsMove
<1>3. CASE While \/ Again \/ Terminate \/ Augment \/ Load \/ Advance
  BY <1>3, LoopsMove, AugmentMoves, LoadMoves, AdvanceMoves
<1> QED
  BY <1>1, <1>2, <1>3 DEF OtherMoves

\* The steps that write to a container, or make one.
Writing == FillingSteps \cup { "list", "dictionary" }

\* The other actions take other steps.
LEMMA OtherMovesSteps ==
  ASSUME OtherMoves
  PROVE  \E step, n : At(step, n) /\ step \notin Writing
<1> DEFINE Others == { "skip", "stmt", "dropString", "dropInteger", "dropOp", "op", "names",
              "dropNames", "callable", "break", "continue", "string", "integer", "unary",
              "binary", "compare", "subscript", "attribute", "decided", "undecided", "call",
              "iterate", "alias", "member", "lookup", "fetch", "decide", "choose", "target",
              "bind", "while", "again", "terminate", "augment", "load", "next" }
<1>1. Others \cap Writing = {}
  BY DEF Writing, FillingSteps
<1> SUFFICES \E step \in Others : \E n : At(step, n)
  BY <1>1
<1>2. CASE Skip \/ Drop \/ ReadOp \/ ReadNames \/ CheckCallable \/ Jump
  <2>1. DOMAIN Dropped = {"dropString", "dropInteger", "dropOp"}
    BY DEF Dropped
  <2> HIDE DEF Others
  <2>2. {"dropString", "dropInteger", "dropOp", "skip", "stmt", "op", "names", "dropNames",
         "callable", "break", "continue"} \subseteq Others
    BY DEF Others
  <2> QED
    BY <1>2, <2>1, <2>2 DEF Skip, Drop, ReadOp, ReadNames, CheckCallable, Jump
<1>3. CASE String \/ Integer \/ Unary \/ Binary \/ Compare \/ Subscript \/ Attribute
  BY <1>3 DEF String, Integer, Unary, Binary, Compare, Subscript, Attribute
<1>4. CASE Decided \/ Undecided \/ Call \/ Iterate \/ MakeAlias \/ Member
  BY <1>4 DEF Decided, Undecided, Call, Iterate, MakeAlias, Member
<1>5. CASE Lookup \/ Fetch \/ Decide \/ Choose \/ Assign \/ BindImport
  BY <1>5 DEF Lookup, Fetch, Decide, Choose, Assign, BindImport
<1>6. CASE While \/ Again \/ Terminate \/ Augment \/ Load \/ Advance
  BY <1>6 DEF While, Again, Terminate, Augment, Load, Advance
<1> QED
  BY <1>2, <1>3, <1>4, <1>5, <1>6 DEF OtherMoves

\* The top frame, where there is one.
LEMMA TopIndex ==
  ASSUME TypeOK, stack # << >>
  PROVE  /\ Len(stack) \in Nat \ {0} /\ Len(stack) \in DOMAIN stack /\ Top = stack[Len(stack)]
         /\ DOMAIN stack = 1 .. Len(stack) /\ stack \in Seq(Frame)
         /\ Len(Front(stack)) = Len(stack) - 1 /\ Front(stack) \in Seq(Frame)
         /\ \A i \in 1 .. Len(stack) - 1 : Front(stack)[i] = stack[i]
<1>1. stack \in Seq(Frame)
  BY DEF TypeOK
<1>2. /\ Len(stack) \in Nat \ {0} /\ Front(stack) \in Seq(Frame)
      /\ Len(Front(stack)) = Len(stack) - 1
      /\ \A i \in 1 .. Len(stack) - 1 : Front(stack)[i] = stack[i]
  BY <1>1, Ends
<1>3. DOMAIN stack = 1 .. Len(stack)
  BY <1>1
<1> QED
  BY <1>1, <1>2, <1>3 DEF Top, Last

\* The stack after the top frame became f.
LEMMA NewTop ==
  ASSUME TypeOK, stack # << >>, NEW f, NEW st, st = Append(Front(stack), f)
  PROVE  /\ DOMAIN st = DOMAIN stack /\ Len(st) = Len(stack) /\ st[Len(stack)] = f
         /\ \A i \in DOMAIN stack : i # Len(stack) => st[i] = stack[i]
<1>1. /\ Len(stack) \in Nat \ {0} /\ DOMAIN stack = 1 .. Len(stack)
      /\ Len(Front(stack)) = Len(stack) - 1 /\ Front(stack) \in Seq(Frame)
      /\ \A i \in 1 .. Len(stack) - 1 : Front(stack)[i] = stack[i]
  BY TopIndex
<1> DEFINE s == Front(stack)
<1>2. s \in Seq(Frame) /\ st = Append(s, f)
  BY <1>1
<1> HIDE DEF s
<1>3. /\ Len(st) = Len(s) + 1 /\ DOMAIN st = 1 .. Len(s) + 1 /\ st[Len(s) + 1] = f
      /\ \A i \in 1 .. Len(s) : st[i] = s[i]
  BY <1>2
<1>4. Len(s) + 1 = Len(stack) /\ \A i \in 1 .. Len(s) : s[i] = stack[i]
  BY <1>1 DEF s
<1>5. \A i \in DOMAIN stack : i # Len(stack) => i \in 1 .. Len(s)
  BY <1>1, <1>4
<1>6. DOMAIN st = DOMAIN stack /\ Len(st) = Len(stack) /\ st[Len(stack)] = f
  BY <1>1, <1>3, <1>4
<1>7. \A i \in DOMAIN stack : i # Len(stack) => st[i] = stack[i]
  BY <1>3, <1>4, <1>5
<1> QED
  BY <1>6, <1>7

\* A frame that writes to no container goes on, or execute() ends.
LEMMA TopSupplied ==
  ASSUME TypeOK, Accounted, stack # << >>, Top.node \notin Collections
  PROVE  /\ Supplied(Live(heap), Live(heap) \cup (brk + 1 .. brk'))
         /\ \A i \in DOMAIN stack :
              i < Len(stack) /\ Filling(stack[i])
                => LET l == stack[i].vals[1]
                   IN  Supplied(Live(heap) \ {l},
                             (Live(heap) \cup (brk + 1 .. brk')) \ {l})
<1>1. Top.todo \in Seq(OtherSteps)
  BY TopIndex DEF Accounted, Built, Shape
<1>2. AllHold(Live(heap))
  <2>1. Top.vals \in Seq(Live(heap))
    BY TopIndex DEF Accounted, Whole, FramesHold
  <2> QED
    BY <2>1 DEF Accounted, Whole, AllHold, Live
<1>3. Supplied(Live(heap), Live(heap) \cup (brk + 1 .. brk'))
  BY <1>1, <1>2 DEF Supplied
<1>4. ASSUME NEW i \in DOMAIN stack, i < Len(stack), Filling(stack[i]),
             NEW l, l = stack[i].vals[1]
      PROVE  Supplied(Live(heap) \ {l}, (Live(heap) \cup (brk + 1 .. brk')) \ {l})
  <2> DEFINE L == Live(heap) \ {l}
  <2>1. l # Null /\ Apart(stack, scopes, modules, heap, i, L)
    BY <1>4 DEF Accounted, Built, Private
  <2>2. l \in DOMAIN heap /\ l \notin brk + 1 .. brk'
    <3>1. stack[i].vals \in Seq(Live(heap)) /\ stack[i].vals # << >>
      BY <1>4 DEF Accounted, Whole, FramesHold, Filling
    <3>2. stack[i].vals[1] \in Live(heap)
      BY <3>1, ElementOfSeq
    <3> QED
      BY <1>4, <2>1, <3>2 DEF Live, TypeOK, HeapOK
  <2>3. AllHold(L)
    <3>1. Top.vals \in Seq(L)
      <4>1. Len(stack) \in DOMAIN stack /\ Top = stack[Len(stack)] /\ Len(stack) # i
        BY <1>4, TopIndex
      <4> QED
        BY <2>1, <4>1 DEF Apart
    <3>2. Null \in L
      BY <2>1 DEF Live
    <3> QED
      BY <2>1, <3>1, <3>2 DEF Apart, AllHold
  <2>4. L \subseteq Live(heap) /\ L \subseteq (Live(heap) \cup (brk + 1 .. brk')) \ {l}
        /\ brk + 1 .. brk' \subseteq (Live(heap) \cup (brk + 1 .. brk')) \ {l}
    BY <2>2
  <2> HIDE DEF L
  <2>5. Supplied(L, (Live(heap) \cup (brk + 1 .. brk')) \ {l})
    BY <1>1, <2>3, <2>4 DEF Supplied
  <2> QED
    BY <2>5 DEF L
<1> QED
  BY <1>3, <1>4

\* What is held among the old objects and the new ones is alive.
LEMMA GrownLive ==
  ASSUME TypeOK, NEW h, GrowsInto(h)
  PROVE  /\ Live(h) = Live(heap) \cup (brk + 1 .. brk')
         /\ Seq(Live(heap)) \subseteq Seq(Live(h)) /\ Countable(h)
<1>1. Live(h) = Live(heap) \cup (brk + 1 .. brk')
  BY DEF GrowsInto, Live
<1>2. Seq(Live(heap)) \subseteq Seq(Live(h))
  BY <1>1, SeqMonotonic
<1>3. Countable(h)
  <2>1. brk \in Nat /\ brk' \in Nat /\ brk <= brk' /\ DOMAIN h \subseteq 1 .. brk'
    BY DEF TypeOK, HeapOK, GrowsInto
  <2>2. IsFiniteSet(1 .. brk')
    BY <2>1, FS_Interval
  <2> QED
    BY <2>1, <2>2, FS_Subset DEF Countable, Null
<1> QED
  BY <1>1, <1>2, <1>3

\* The correspondence of modules and objects, with a new module or none.
LEMMA RegistersListed ==
  ASSUME TypeOK, Listed(modules, heap), NEW h, GrowsInto(h), Registers(h)
  PROVE  Listed(modules', h)
<1>1. brk \in Nat /\ brk' \in Nat /\ DOMAIN heap \subseteq 1 .. brk
  BY DEF TypeOK, HeapOK, GrowsInto
<1>2. /\ DOMAIN h = DOMAIN heap \cup (brk + 1 .. brk')
      /\ \A p \in DOMAIN heap : heap[p].type = "Module" \/ h[p].type = "Module" => h[p] = heap[p]
  BY DEF GrowsInto
<1>3. \A m : Module(m).type = "Module" /\ Module(m).val = m
  BY DEF Module
<1>4. \A m \in DOMAIN modules : modules[m] \in DOMAIN h /\ h[modules[m]] = Module(m)
  BY <1>2, <1>3 DEF Listed
<1>5. \A p \in DOMAIN heap : h[p].type = "Module" =>
        h[p].val \in DOMAIN modules /\ modules[h[p].val] = p
  BY <1>2 DEF Listed
<1>6. CASE modules' = modules /\ \A p \in brk + 1 .. brk' : h[p].type # "Module"
  BY <1>2, <1>4, <1>5, <1>6 DEF Listed
<1>7. ASSUME NEW m, m \notin DOMAIN modules, modules' = Put(modules, m, brk + 1),
             brk' = brk + 1, h[brk + 1] = Module(m)
      PROVE  Listed(modules', h)
  <2>1. /\ DOMAIN modules' = DOMAIN modules \cup {m} /\ modules'[m] = brk + 1
        /\ \A k \in DOMAIN modules : modules'[k] = modules[k]
    BY <1>7 DEF Put
  <2>2. DOMAIN h = DOMAIN heap \cup {brk + 1}
    BY <1>1, <1>2, <1>7
  <2>3. ASSUME NEW p \in DOMAIN h, h[p].type = "Module"
        PROVE  h[p].val \in DOMAIN modules' /\ modules'[h[p].val] = p
    BY <1>3, <1>5, <1>7, <2>1, <2>2, <2>3
  <2>4. \A k \in DOMAIN modules' : modules'[k] \in DOMAIN h /\ h[modules'[k]] = Module(k)
    BY <1>4, <1>7, <2>1, <2>2
  <2> QED
    BY <2>3, <2>4 DEF Listed
<1> QED
  BY <1>6, <1>7 DEF Registers

\* A step of a frame that writes to no container.
LEMMA MovesCount ==
  ASSUME TypeOK, Accounted, stack # << >>, Top.node \notin Collections, OtherMoves, ~ Fails
  PROVE  Accounted'
<1> DEFINE n == Len(stack)
           All == Live(heap) \cup (brk + 1 .. brk')
<1>1. Moves(All)
  BY TopSupplied, OthersMove
<1>2. PICK f, h : /\ Carries(f, All) /\ stack' = Append(Front(stack), f)
                  /\ GrowsInto(h) /\ Registers(h) /\ ObjectsHold(h, All) /\ Settle(h)
  BY <1>1 DEF Moves
<1>3. /\ n \in DOMAIN stack /\ DOMAIN stack = 1 .. n /\ n \in Nat
      /\ DOMAIN stack' = DOMAIN stack /\ Len(stack') = n /\ stack'[n] = f
      /\ \A i \in DOMAIN stack : i # n => stack'[i] = stack[i]
  <2> DEFINE st == Append(Front(stack), f)
  <2>1. /\ DOMAIN st = DOMAIN stack /\ Len(st) = Len(stack) /\ st[Len(stack)] = f
        /\ \A i \in DOMAIN stack : i # Len(stack) => st[i] = stack[i]
    BY NewTop
  <2>2. stack' = st
    BY <1>2
  <2> HIDE DEF st
  <2> QED
    BY <2>1, <2>2, TopIndex
<1>4. /\ Live(h) = All /\ Seq(Live(heap)) \subseteq Seq(Live(h)) /\ Countable(h)
      /\ Acyclic(h) /\ Listed(modules', h)
  BY <1>2, GrownLive, GrowthKeepsAcyclic, RegistersListed DEF Accounted, Whole
<1>5. Whole(stack', scopes', modules', h)
  <2>1. FramesHold(stack', Live(h))
    BY <1>2, <1>3, <1>4 DEF Accounted, Whole, FramesHold, Carries
  <2>2. ScopesHold(scopes', Live(h)) /\ ModulesHold(modules', Live(h))
    BY <1>1, <1>4 DEF Moves
  <2> QED
    BY <1>2, <1>4, <2>1, <2>2 DEF Whole
<1>6. Whole(stack', scopes', modules', heap') /\ Listed(modules', heap')
  BY <1>2, <1>4, <1>5, SettlesWhole
<1>7. Shape(f) /\ ~ Filling(f)
  BY <1>2 DEF Carries, Shape, Filling
<1>8. ASSUME NEW i \in DOMAIN stack, i # n, Filling(stack[i])
      PROVE  Private(stack', scopes', modules', heap', i)
  <2> DEFINE l == stack[i].vals[1]
             M == All \ {l}
  <2>1. i < n /\ stack'[i] = stack[i]
    BY <1>3, <1>8
  <2>2. Supplied(Live(heap) \ {l}, M)
    BY <1>8, <2>1, TopSupplied
  <2>3. Moves(M)
    BY <2>2, OthersMove
  <2>4. l # Null /\ Apart(stack, scopes, modules, heap, i, Live(heap) \ {l}) /\ l \notin M
    BY <1>8, <2>1 DEF Accounted, Built, Private
  <2>5. Live(heap) \ {l} \subseteq M
    BY <2>2 DEF Supplied
  <2> HIDE DEF M
  <2>6. PICK g, k : /\ Carries(g, M) /\ stack' = Append(Front(stack), g)
                    /\ GrowsInto(k) /\ ObjectsHold(k, M) /\ Settle(k)
    BY <2>3 DEF Moves
  <2>7. stack'[n].vals \in Seq(M)
    <3> DEFINE st == Append(Front(stack), g)
    <3>1. st[n] = g
      BY NewTop
    <3>2. stack' = st
      BY <2>6
    <3> HIDE DEF st
    <3> QED
      BY <2>6, <3>1, <3>2 DEF Carries
  <2>8. \A j \in DOMAIN stack' : j # i => stack'[j].vals \in Seq(M)
    <3>1. Seq(Live(heap) \ {l}) \subseteq Seq(M)
      BY <2>5, SeqMonotonic
    <3> QED
      BY <1>3, <2>4, <2>7, <3>1 DEF Apart
  <2>9. Tail(stack'[i].vals) \in Seq(M)
    BY <2>1, <2>4, <2>5, SeqMonotonic DEF Apart
  <2>10. Apart(stack', scopes', modules', k, i, M)
    BY <2>3, <2>6, <2>8, <2>9 DEF Moves, Apart
  <2>11. DOMAIN heap' \subseteq DOMAIN k /\ \A p \in DOMAIN heap' : heap'[p] = k[p]
    BY <2>6 DEF Settle, Collect
  <2>12. /\ i \in DOMAIN stack' /\ stack'[i].vals # << >> /\ stack'[i].vals[1] # Null
         /\ stack'[i].vals[1] \notin M
    BY <1>3, <1>8, <2>1, <2>4 DEF Filling
  <2> QED
    BY <1>6, <2>10, <2>11, <2>12, SettlesPrivate
<1>9. Built(stack', scopes', modules', heap')
  BY <1>3, <1>7, <1>8 DEF Accounted, Built
<1> QED
  BY <1>6, <1>9 DEF Accounted

-----------------------------------------------------------------------------
(* Entering and leaving. *)

\* execute() ends.
LEMMA FailsCount ==
  ASSUME TypeOK, Accounted, Fails
  PROVE  Accounted'
<1>1. stack' = << >> /\ scopes' = <<scopes[1]>> /\ modules' = modules /\ Settle(heap)
  BY DEF Fails, Fail
<1>2. scopes # << >> /\ 1 \in DOMAIN scopes
  <2>1. scopes \in Seq(Range(scopes)) /\ scopes # << >>
    BY DEF TypeOK, ScopesOK
  <2> QED
    BY <2>1, EmptySeq, LenProperties
<1>3. Whole(stack', scopes', modules', heap)
  <2>1. ScopesHold(<<scopes[1]>>, Live(heap))
    BY <1>2 DEF Accounted, Whole, ScopesHold
  <2> QED
    BY <1>1, <2>1 DEF Accounted, Whole, FramesHold
<1>4. Countable(heap) /\ Listed(modules', heap)
  BY <1>1, HeapCountable DEF Accounted
<1>5. Whole(stack', scopes', modules', heap') /\ Listed(modules', heap')
  BY <1>1, <1>3, <1>4, SettlesWhole
<1>6. Built(stack', scopes', modules', heap')
  BY <1>1 DEF Built
<1> QED
  BY <1>5, <1>6 DEF Accounted

\* A node's first frame holds nothing.
LEMMA NewFrameShape ==
  ASSUME NEW t \in DOMAIN Handler, NEW p, NEW l, NEW f, f = NewFrame(t, p, l)
  PROVE  Shape(f) /\ ~ Filling(f) /\ \A L : f.vals \in Seq(L)
<1>1. f.vals = << >>
  BY DEF NewFrame
<1>2. Shape(f) /\ ~ Filling(f)
  BY HandlerOthers DEF NewFrame, Shape, Filling
<1>3. \A L : f.vals \in Seq(L)
  BY <1>1
<1> QED
  BY <1>2, <1>3

\* Entering a node.
LEMMA EnterCounts ==
  ASSUME TypeOK, Accounted, NEW step \in ChildSteps, Enter(step), ~ Fails
  PROVE  Accounted'
<1> DEFINE n == Len(stack)
<1>1. PICK t, p, l :
        /\ t \in DOMAIN Handler
        /\ At(step, 0) /\ stack' = Append(stack, NewFrame(t, p, l))
        /\ UNCHANGED <<prog, code, scopes, heap, brk, modules, outcome>>
  BY DEF Enter, Fails
<1> DEFINE f == NewFrame(t, p, l)
<1>2. Shape(f) /\ ~ Filling(f) /\ (\A L : f.vals \in Seq(L)) /\ stack' = Append(stack, f)
  BY <1>1, NewFrameShape
<1> HIDE DEF f
<1>3. stack # << >> /\ Waiting(Top)
  BY <1>1 DEF At, Waiting
<1>4. /\ n \in Nat \ {0} /\ stack \in Seq(Frame) /\ DOMAIN stack = 1 .. n /\ Top = stack[n]
  BY <1>3, TopIndex
<1>5. /\ DOMAIN stack' = 1 .. n + 1 /\ Len(stack') = n + 1 /\ stack'[n + 1] = f
      /\ \A i \in 1 .. n : stack'[i] = stack[i]
  BY <1>2, <1>4
<1>6. Whole(stack', scopes', modules', heap') /\ Listed(modules', heap')
  <2>1. FramesHold(stack', Live(heap))
    BY <1>2, <1>4, <1>5 DEF Accounted, Whole, FramesHold
  <2> QED
    BY <1>1, <2>1 DEF Accounted, Whole
<1>7. ASSUME NEW i \in 1 .. n, Filling(stack[i])
      PROVE  Private(stack', scopes', modules', heap', i)
  <2> DEFINE L == Live(heap) \ {stack[i].vals[1]}
  <2>1. stack[i].vals[1] # Null /\ Apart(stack, scopes, modules, heap, i, L)
    BY <1>4, <1>7 DEF Accounted, Built, Private
  <2>2. stack'[i] = stack[i]
    BY <1>5
  <2> HIDE DEF L
  <2>3. ASSUME NEW j \in DOMAIN stack', j # i
        PROVE  stack'[j].vals \in Seq(L)
    <3>1. CASE j \in 1 .. n
      <4>1. stack[j].vals \in Seq(L)
        BY <1>4, <2>1, <2>3, <3>1 DEF Apart
      <4> QED
        BY <1>5, <3>1, <4>1
    <3>2. CASE j = n + 1
      BY <1>2, <1>5, <3>2
    <3> QED
      BY <1>4, <1>5, <3>1, <3>2
  <2>4. Apart(stack', scopes', modules', heap', i, L)
    BY <1>1, <2>1, <2>2, <2>3 DEF Apart
  <2> QED
    BY <1>1, <2>1, <2>2, <2>4 DEF Private, L
<1>8. \A i \in 1 .. n : Shape(stack[i]) /\ Waiting(stack[i])
  BY <1>3, <1>4 DEF Accounted, Built
<1>9. Built(stack', scopes', modules', heap')
  BY <1>2, <1>5, <1>7, <1>8 DEF Built
<1> QED
  BY <1>6, <1>9 DEF Accounted

\* execute() starts.
LEMMA ExecuteCounts ==
  ASSUME TypeOK, Accounted, Execute
  PROVE  Accounted'
<1>1. PICK t, p, l :
        /\ t \in DOMAIN Handler
        /\ stack' = <<NewFrame(t, p, l)>>
        /\ UNCHANGED <<prog, code, scopes, heap, brk, modules>>
  BY DEF Execute
<1> DEFINE f == NewFrame(t, p, l)
<1>2. Shape(f) /\ ~ Filling(f) /\ (\A L : f.vals \in Seq(L)) /\ stack' = <<f>>
  BY <1>1, NewFrameShape
<1> HIDE DEF f
<1>3. DOMAIN stack' = {1} /\ Len(stack') = 1 /\ stack'[1] = f
  BY <1>2
<1>4. Whole(stack', scopes', modules', heap')
  BY <1>1, <1>2, <1>3 DEF Accounted, Whole, FramesHold
<1>5. Built(stack', scopes', modules', heap')
  BY <1>2, <1>3 DEF Built
<1> QED
  BY <1>1, <1>4, <1>5 DEF Accounted

\* What the caller holds of a child's value, where the caller waits.
LEMMA ReceivedHolds ==
  ASSUME NEW c \in Frame, Waiting(c), Shape(c), NEW v, NEW l,
         NEW f, f = Received(c, v, l)
  PROVE  /\ Shape(f)
         /\ \A L : c.vals \in Seq(L) /\ v \in L => f.vals \in Seq(L)
         /\ Filling(f) => /\ Filling(c) /\ f.vals[1] = c.vals[1]
                          /\ \A L : Tail(c.vals) \in Seq(L) /\ v \in L => Tail(f.vals) \in Seq(L)
<1>1. /\ f.node = c.node /\ f.todo = Tail(c.todo)
      /\ f.vals \in {c.vals, <<v>>, Append(c.vals, v)}
      /\ Head(c.todo) = "expr" => f.vals = Append(c.vals, v)
  BY DEF Received, Frame
<1>2. c.todo \in Seq(Steps) /\ c.todo # << >> /\ Head(c.todo) \in ChildSteps /\ c.vals \in Seq(Ptr)
  BY DEF Frame, Waiting
<1>3. ASSUME NEW L, c.vals \in Seq(L), v \in L
      PROVE  f.vals \in Seq(L)
  <2>1. Append(c.vals, v) \in Seq(L) /\ <<v>> \in Seq(L)
    BY <1>3, AppendProperties
  <2> QED
    BY <1>1, <1>3, <2>1
<1>4. CASE c.node \notin Collections
  <2>1. f.todo \in Seq(OtherSteps)
    BY <1>1, <1>2, <1>4, HeadTailProperties DEF Shape
  <2> QED
    BY <1>1, <1>3, <1>4, <2>1 DEF Shape, Filling
<1>5. CASE c.node \in Collections
  <2>1. c.todo # Handler[c.node]
    <3>1. Head(Handler["List"]) = "list" /\ Head(Handler["Dictionary"]) = "dictionary"
      BY DEF Handler
    <3>2. "list" \notin ChildSteps /\ "dictionary" \notin ChildSteps
      BY DEF ChildSteps
    <3> QED
      BY <1>2, <1>5, <3>1, <3>2 DEF Collections
  <2>2. c.vals # << >> /\ c.todo \in Seq(FillingSteps)
    BY <1>5, <2>1 DEF Shape
  <2>3. Head(c.todo) = "expr" /\ f.todo \in Seq(FillingSteps)
    <3>1. Head(c.todo) \in FillingSteps /\ Tail(c.todo) \in Seq(FillingSteps)
      BY <1>2, <2>2, HeadTailProperties
    <3>2. \A s \in FillingSteps : s \in ChildSteps => s = "expr"
      BY DEF FillingSteps, ChildSteps
    <3> QED
      BY <1>1, <1>2, <3>1, <3>2
  <2>4. f.vals = Append(c.vals, v)
    BY <1>1, <2>3
  <2>5. f.vals # << >> /\ f.vals[1] = c.vals[1]
    BY <1>2, <2>2, <2>4
  <2>6. ASSUME NEW L, Tail(c.vals) \in Seq(L), v \in L
        PROVE  Tail(f.vals) \in Seq(L)
    <3>1. Tail(Append(c.vals, v)) = Append(Tail(c.vals), v)
      BY <1>2, <2>2
    <3> QED
      BY <2>4, <2>6, <3>1, AppendProperties
  <2> QED
    BY <1>1, <1>3, <1>5, <2>2, <2>3, <2>5, <2>6 DEF Shape, Filling
<1> QED
  BY <1>4, <1>5

\* The stack after the two top frames became f.
LEMMA NewCaller ==
  ASSUME TypeOK, Len(stack) > 1, NEW f, NEW st, st = Append(Front(Front(stack)), f)
  PROVE  /\ Len(st) = Len(stack) - 1 /\ DOMAIN st = 1 .. Len(stack) - 1
         /\ st[Len(stack) - 1] = f
         /\ \A i \in 1 .. Len(stack) - 2 : st[i] = stack[i]
<1>1. stack \in Seq(Frame) /\ stack # << >>
  BY DEF TypeOK
<1>2. /\ Len(stack) \in Nat \ {0} /\ Front(stack) \in Seq(Frame)
      /\ Len(Front(stack)) = Len(stack) - 1
      /\ \A i \in 1 .. Len(stack) - 1 : Front(stack)[i] = stack[i]
  BY <1>1, Ends
<1> DEFINE s == Front(stack)
           t == Front(s)
<1>3. s # << >> /\ s \in Seq(Frame) /\ Len(s) = Len(stack) - 1 /\ Len(s) \in Nat
      /\ \A i \in 1 .. Len(s) : s[i] = stack[i]
  BY <1>2, EmptySeq
<1> HIDE DEF s
<1>4. /\ t \in Seq(Frame) /\ Len(t) = Len(s) - 1
      /\ \A i \in 1 .. Len(s) - 1 : t[i] = s[i]
  BY <1>3, Ends
<1>5. st = Append(t, f)
  BY DEF s
<1> HIDE DEF t
<1>6. /\ Len(st) = Len(t) + 1 /\ DOMAIN st = 1 .. Len(t) + 1 /\ st[Len(t) + 1] = f
      /\ \A i \in 1 .. Len(t) : st[i] = t[i]
  BY <1>4, <1>5
<1>7. Len(t) + 1 = Len(stack) - 1 /\ Len(t) = Len(stack) - 2
  BY <1>2, <1>3, <1>4
<1>8. \A i \in 1 .. Len(stack) - 2 : st[i] = stack[i]
  BY <1>2, <1>3, <1>4, <1>6, <1>7
<1> QED
  BY <1>6, <1>7, <1>8

\* What a frame returns it holds, or it is null.
LEMMA ReturnValueHeld ==
  ASSUME NEW L, Null \in L, NEW f, f.vals \in Seq(L)
  PROVE  ReturnValue(f) \in L
<1>1. f.vals # << >> => Last(f.vals) \in L
  BY Ends
<1> QED
  BY <1>1 DEF ReturnValue

\* Leaving a node.
LEMMA ReturnCounts ==
  ASSUME TypeOK, Accounted, Return
  PROVE  Accounted'
<1> DEFINE n == Len(stack)
           c == stack[n - 1]
           v == ReturnValue(Top)
           f == Received(c, v, Top.ls)
<1>1. /\ n > 1 /\ stack' = Append(Front(Front(stack)), f) /\ Settle(heap)
      /\ UNCHANGED <<scopes, modules>>
  BY DEF Return
<1>2. /\ n \in Nat /\ DOMAIN stack = 1 .. n /\ Top = stack[n] /\ stack \in Seq(Frame)
  <2>1. stack # << >>
    BY <1>1 DEF TypeOK
  <2> QED
    BY <2>1, TopIndex
<1>3. /\ Len(stack') = n - 1 /\ DOMAIN stack' = 1 .. n - 1 /\ stack'[n - 1] = f
      /\ \A i \in 1 .. n - 2 : stack'[i] = stack[i]
  <2> HIDE DEF f
  <2> DEFINE st == Append(Front(Front(stack)), f)
  <2>1. /\ Len(st) = n - 1 /\ DOMAIN st = 1 .. n - 1 /\ st[n - 1] = f
        /\ \A i \in 1 .. n - 2 : st[i] = stack[i]
    BY <1>1, NewCaller
  <2> QED
    BY <1>1, <2>1
<1>4. c \in Frame /\ Shape(c) /\ Waiting(c)
  <2>1. n - 1 \in DOMAIN stack
    BY <1>1, <1>2
  <2> QED
    BY <1>1, <1>2, <2>1, ElementOfSeq DEF Accounted, Built
<1> HIDE DEF c, v, n
<1>5. /\ n - 1 \in 1 .. n /\ 1 .. n - 1 \subseteq 1 .. n
      /\ \A i \in 1 .. n - 1 : i # n - 1 => i \in 1 .. n - 2
      /\ \A i \in 1 .. n - 1 : i < n /\ i # n /\ (i < n - 1 => i # n - 1)
  BY <1>1, <1>2
<1>6. /\ Shape(f)
      /\ \A L : c.vals \in Seq(L) /\ v \in L => f.vals \in Seq(L)
      /\ Filling(f) => /\ Filling(c) /\ f.vals[1] = c.vals[1]
                       /\ \A L : Tail(c.vals) \in Seq(L) /\ v \in L => Tail(f.vals) \in Seq(L)
  BY <1>4, ReceivedHolds
<1> HIDE DEF f
<1>7. Whole(stack', scopes', modules', heap)
  <2>1. \A i \in 1 .. n : stack[i].vals \in Seq(Live(heap))
    BY <1>2 DEF Accounted, Whole, FramesHold
  <2>2. c.vals \in Seq(Live(heap)) /\ Top.vals \in Seq(Live(heap))
    BY <1>5, <1>1, <1>2, <2>1 DEF c
  <2>3. v \in Live(heap)
    BY <2>2, ReturnValueHeld DEF v, Live
  <2>4. FramesHold(stack', Live(heap))
    BY <1>5, <1>1, <1>2, <1>3, <1>6, <2>1, <2>2, <2>3 DEF FramesHold
  <2> QED
    BY <1>1, <2>4 DEF Accounted, Whole
<1>8. /\ Whole(stack', scopes', modules', heap') /\ Listed(modules', heap')
      /\ DOMAIN heap' \subseteq DOMAIN heap /\ \A p \in DOMAIN heap' : heap'[p] = heap[p]
  BY <1>1, <1>7, HeapCountable, SettlesWhole DEF Accounted
<1>9. ASSUME NEW i \in 1 .. n - 1, Filling(stack'[i])
      PROVE  Private(stack', scopes', modules', heap', i)
  <2> DEFINE l == stack'[i].vals[1]
             L == Live(heap) \ {l}
  <2>1. Filling(stack[i]) /\ l = stack[i].vals[1]
    BY <1>5, <1>1, <1>2, <1>3, <1>6, <1>9 DEF c
  <2>2. l # Null /\ Apart(stack, scopes, modules, heap, i, L)
    BY <1>5, <1>2, <2>1 DEF Accounted, Built, Private
  <2> HIDE DEF L
  <2>3. \A j \in 1 .. n : j # i => stack[j].vals \in Seq(L)
    BY <1>2, <2>2 DEF Apart
  <2>4. v \in L
    <3>1. Top.vals \in Seq(L)
      BY <1>5, <1>1, <1>2, <2>3
    <3>2. Null \in L
      BY <2>2 DEF L, Live
    <3> QED
      BY <3>1, <3>2, ReturnValueHeld DEF v
  <2>5. ASSUME NEW j \in DOMAIN stack', j # i
        PROVE  stack'[j].vals \in Seq(L)
    <3>1. stack[j].vals \in Seq(L)
      BY <1>5, <1>1, <1>2, <1>3, <2>3, <2>5
    <3>2. CASE j = n - 1
      BY <1>3, <1>6, <2>4, <3>1, <3>2 DEF c
    <3>3. CASE j # n - 1
      BY <1>5, <1>1, <1>2, <1>3, <3>1, <3>3
    <3> QED
      BY <3>2, <3>3
  <2>6. Tail(stack'[i].vals) \in Seq(L)
    <3>1. Tail(stack[i].vals) \in Seq(L)
      BY <2>2 DEF Apart
    <3>2. CASE i = n - 1
      BY <1>3, <1>6, <1>9, <2>4, <3>1, <3>2 DEF c
    <3>3. CASE i # n - 1
      BY <1>5, <1>1, <1>2, <1>3, <3>1, <3>3
    <3> QED
      BY <3>2, <3>3
  <2>7. ScopesHold(scopes', L) /\ ModulesHold(modules', L) /\ ObjectsHold(heap, L)
    BY <1>1, <2>2 DEF Apart
  <2>8. Apart(stack', scopes', modules', heap, i, L)
    BY <2>5, <2>6, <2>7 DEF Apart
  <2>9. i \in DOMAIN stack' /\ stack'[i].vals # << >> /\ l # Null /\ l \notin L
    BY <1>3, <1>9, <2>2 DEF Filling, L
  <2> QED
    BY <1>8, <2>8, <2>9, SettlesPrivate
<1>10. Built(stack', scopes', modules', heap')
  <2>1. \A i \in 1 .. n - 2 : Shape(stack'[i]) /\ Waiting(stack'[i])
    BY <1>5, <1>1, <1>2, <1>3 DEF Accounted, Built
  <2> QED
    BY <1>5, <1>1, <1>2, <1>3, <1>6, <1>9, <2>1 DEF Built
<1> QED
  BY <1>8, <1>10 DEF Accounted

-----------------------------------------------------------------------------
(* The frames that build a list or a dictionary. *)

\* f and h hold only what the top frame and the heap do, and the new objects.
Fills(f, h) ==
  \A L : Top.vals \in Seq(L) /\ ObjectsHold(heap, L)
           => /\ f.vals \in Seq(L \cup (DOMAIN h \ DOMAIN heap))
              /\ ObjectsHold(h, L \cup (DOMAIN h \ DOMAIN heap))

\* The other frames, the scopes and the modules hold nothing outside K.
OthersHold(K) ==
  /\ \A j \in DOMAIN stack : j # Len(stack) => stack[j].vals \in Seq(K)
  /\ ScopesHold(scopes, K) /\ ModulesHold(modules, K)

\* The container that f fills is f's alone.
FillsAlone(f, h) ==
  LET K == Live(heap) \ {f.vals[1]}
  IN  f.vals[1] # Null /\ OthersHold(K) /\ Tail(f.vals) \in Seq(K) /\ ObjectsHold(h, K)

\* A frame that builds its container keeps the reference counts true.
LEMMA FillingCounts ==
  ASSUME TypeOK, Accounted, stack # << >>,
         NEW f, NEW h, stack' = Append(Front(stack), f), UNCHANGED <<scopes, modules>>, Settle(h),
         Countable(h), DOMAIN heap \subseteq DOMAIN h, Acyclic(h), Listed(modules, h),
         Shape(f), Fills(f, h), Filling(f) => FillsAlone(f, h)
  PROVE  Accounted'
<1> DEFINE n == Len(stack)
           N == DOMAIN h \ DOMAIN heap
<1>1. /\ n \in DOMAIN stack /\ DOMAIN stack = 1 .. n /\ n \in Nat /\ Top = stack[n]
      /\ DOMAIN stack' = DOMAIN stack /\ Len(stack') = n /\ stack'[n] = f
      /\ \A i \in DOMAIN stack : i # n => stack'[i] = stack[i]
  <2> DEFINE st == Append(Front(stack), f)
  <2>1. /\ DOMAIN st = DOMAIN stack /\ Len(st) = Len(stack) /\ st[Len(stack)] = f
        /\ \A i \in DOMAIN stack : i # Len(stack) => st[i] = stack[i]
    BY NewTop
  <2>2. stack' = st
    OBVIOUS
  <2> HIDE DEF st
  <2> QED
    BY <2>1, <2>2, TopIndex
<1> HIDE DEF n, N
<1>2. Live(h) = Live(heap) \cup N /\ N \cap Live(heap) = {}
  BY DEF Live, Countable, N
<1>3. /\ \A i \in DOMAIN stack : stack[i].vals \in Seq(Live(heap))
      /\ ScopesHold(scopes, Live(heap)) /\ ModulesHold(modules, Live(heap))
      /\ ObjectsHold(heap, Live(heap))
  BY DEF Accounted, Whole, FramesHold
<1>4. Whole(stack', scopes', modules', h)
  <2>1. f.vals \in Seq(Live(h)) /\ ObjectsHold(h, Live(h))
    BY <1>1, <1>2, <1>3 DEF Fills, N
  <2>2. Seq(Live(heap)) \subseteq Seq(Live(h))
    BY <1>2, SeqMonotonic
  <2>3. FramesHold(stack', Live(h))
    BY <1>1, <1>3, <2>1, <2>2 DEF FramesHold
  <2>4. ScopesHold(scopes, Live(h)) /\ ModulesHold(modules, Live(h))
    BY <1>2, <1>3, HoldWider
  <2> QED
    BY <2>1, <2>3, <2>4 DEF Whole
<1>5. /\ Whole(stack', scopes', modules', heap') /\ Listed(modules', heap')
      /\ DOMAIN heap' \subseteq DOMAIN h /\ \A p \in DOMAIN heap' : heap'[p] = h[p]
  BY <1>4, SettlesWhole
<1>6. ASSUME NEW i \in DOMAIN stack, i # n, Filling(stack[i])
      PROVE  Private(stack', scopes', modules', heap', i)
  <2> DEFINE l == stack[i].vals[1]
             L == Live(heap) \ {l}
             M == L \cup N
  <2>1. stack'[i] = stack[i]
    BY <1>1, <1>6
  <2>2. l # Null /\ Apart(stack, scopes, modules, heap, i, L)
    BY <1>6 DEF Accounted, Built, Private
  <2>3. l \in Live(heap)
    <3>1. stack[i].vals # << >>
      BY <1>6 DEF Filling
    <3> QED
      BY <1>3, <3>1, ElementOfSeq
  <2>4. l \notin M
    BY <1>2, <2>3
  <2> HIDE DEF L
  <2>5. L \subseteq M /\ Seq(L) \subseteq Seq(M)
    BY SeqMonotonic
  <2>6. Top.vals \in Seq(L) /\ ObjectsHold(heap, L)
    BY <1>1, <1>6, <2>2 DEF Apart
  <2>7. f.vals \in Seq(M) /\ ObjectsHold(h, M)
    BY <2>6 DEF Fills, N
  <2> HIDE DEF M
  <2>8. ASSUME NEW j \in DOMAIN stack', j # i
        PROVE  stack'[j].vals \in Seq(M)
    <3>1. j # n => stack[j].vals \in Seq(M)
      BY <1>1, <2>2, <2>5, <2>8 DEF Apart
    <3> QED
      BY <1>1, <2>7, <3>1
  <2>9. ScopesHold(scopes', M) /\ ModulesHold(modules', M)
    BY <2>2, <2>5, HoldWider DEF Apart
  <2>10. Tail(stack'[i].vals) \in Seq(M)
    BY <2>1, <2>2, <2>5 DEF Apart
  <2>11. Apart(stack', scopes', modules', h, i, M)
    BY <2>7, <2>8, <2>9, <2>10 DEF Apart
  <2>12. i \in DOMAIN stack' /\ stack'[i].vals # << >> /\ stack'[i].vals[1] # Null
         /\ stack'[i].vals[1] \notin M
    BY <1>1, <1>6, <2>1, <2>2, <2>4 DEF Filling
  <2> QED
    BY <1>5, <2>11, <2>12, SettlesPrivate
<1>7. ASSUME Filling(f)
      PROVE  Private(stack', scopes', modules', heap', n)
  <2> DEFINE K == Live(heap) \ {f.vals[1]}
  <2>1. f.vals[1] # Null /\ OthersHold(K) /\ Tail(f.vals) \in Seq(K) /\ ObjectsHold(h, K)
    BY <1>7 DEF FillsAlone
  <2>2. f.vals # << >> /\ f.vals[1] \notin K
    BY <1>7 DEF Filling
  <2> HIDE DEF K
  <2>3. ASSUME NEW j \in DOMAIN stack', j # n
        PROVE  stack'[j].vals \in Seq(K)
    BY <1>1, <2>1, <2>3 DEF OthersHold, n
  <2>4. Tail(stack'[n].vals) \in Seq(K) /\ ScopesHold(scopes', K) /\ ModulesHold(modules', K)
    BY <1>1, <2>1 DEF OthersHold
  <2>5. Apart(stack', scopes', modules', h, n, K)
    BY <2>1, <2>3, <2>4 DEF Apart
  <2> QED
    BY <1>1, <1>5, <2>1, <2>2, <2>5, SettlesPrivate
<1>8. \A i \in DOMAIN stack : i # n => Shape(stack[i]) /\ Waiting(stack[i])
  <2>1. \A i \in DOMAIN stack : i # n => i < n
    BY <1>1
  <2>2. n = Len(stack)
    BY DEF n
  <2> QED
    BY <2>1, <2>2 DEF Accounted, Built
<1>9. Built(stack', scopes', modules', heap')
  BY <1>1, <1>6, <1>7, <1>8 DEF Built
<1> QED
  BY <1>5, <1>9 DEF Accounted

\* The container that the top frame fills, and the rest of what it holds.
LEMMA TopFills ==
  ASSUME TypeOK, Accounted, stack # << >>, Filling(Top)
  PROVE  /\ Top.vals[1] # Null /\ Top.vals[1] \in DOMAIN heap
         /\ OthersHold(Live(heap) \ {Top.vals[1]})
         /\ Tail(Top.vals) \in Seq(Live(heap) \ {Top.vals[1]})
         /\ ObjectsHold(heap, Live(heap) \ {Top.vals[1]})
<1> DEFINE n == Len(stack)
           L == Live(heap) \ {Top.vals[1]}
<1>1. n \in DOMAIN stack /\ Top = stack[n]
  BY TopIndex
<1>2. Top.vals[1] # Null /\ Apart(stack, scopes, modules, heap, n, L)
  BY <1>1 DEF Accounted, Built, Private
<1>3. Top.vals[1] \in Live(heap)
  <2>1. Top.vals \in Seq(Live(heap)) /\ Top.vals # << >>
    BY <1>1 DEF Accounted, Whole, FramesHold, Filling
  <2> QED
    BY <2>1, ElementOfSeq
<1> HIDE DEF L
<1>4. OthersHold(L) /\ Tail(Top.vals) \in Seq(L) /\ ObjectsHold(heap, L)
  BY <1>1, <1>2 DEF Apart, OthersHold
<1> QED
  BY <1>2, <1>3, <1>4 DEF L, Live

\* Reading a count or a name.
LEMMA StepCounts ==
  ASSUME TypeOK, Accounted, stack # << >>, NEW f, NEW p, Step(f, p),
         f.vals = Top.vals, f.node = Top.node, Shape(f)
  PROVE  Accounted'
<1>1. /\ stack' = Append(Front(stack), f) /\ UNCHANGED <<scopes, modules>> /\ Settle(heap)
  BY DEF Step, Resume
<1>2. Countable(heap) /\ Acyclic(heap) /\ Listed(modules, heap)
  BY HeapCountable DEF Accounted, Whole
<1>3. Fills(f, heap)
  <2>1. DOMAIN heap \ DOMAIN heap = {} /\ \A L : L \cup {} = L
    OBVIOUS
  <2> QED
    BY <2>1 DEF Fills
<1>4. Filling(f) => FillsAlone(f, heap)
  BY TopFills DEF Filling, FillsAlone
<1> QED
  BY <1>1, <1>2, <1>3, <1>4, FillingCounts

\* The body of a counted loop keeps the shape of its frame.
LEMMA RepeatsFillings ==
  /\ Repeats["elements"] \in Seq(FillingSteps) /\ Repeats["entries"] \in Seq(FillingSteps)
<1>1. "expr" \in FillingSteps /\ "append" \in FillingSteps /\ "name" \in FillingSteps
      /\ "insert" \in FillingSteps
  BY DEF FillingSteps
<1>2. \A a, b, c \in FillingSteps : <<a, b>> \in Seq(FillingSteps) /\ <<a, b, c>> \in Seq(FillingSteps)
  OBVIOUS
<1>3. Repeats["elements"] = <<"expr", "append">> /\ Repeats["entries"] = <<"name", "expr", "insert">>
  BY DEF Repeats
<1> QED
  BY <1>1, <1>2, <1>3

\* Where the top frame's steps come from.
TopSteps == IF Top.node \in Collections THEN FillingSteps ELSE OtherSteps

\* A frame whose next step is neither "list" nor "dictionary".
LEMMA TopShape ==
  ASSUME TypeOK, Accounted, stack # << >>, Top.todo # << >>,
         Head(Top.todo) \notin {"list", "dictionary"}
  PROVE  /\ Top.todo \in Seq(TopSteps) /\ Head(Top.todo) \in TopSteps
         /\ Tail(Top.todo) \in Seq(TopSteps)
         /\ Top.node \in Collections => Filling(Top)
<1>1. Shape(Top)
  BY TopIndex DEF Accounted, Built
<1>2. CASE Top.node \notin Collections
  <2>1. Top.todo \in Seq(TopSteps)
    BY <1>1, <1>2 DEF Shape, TopSteps
  <2> QED
    BY <1>2, <2>1, HeadTailProperties
<1>3. CASE Top.node \in Collections
  <2>1. Top.todo # Handler[Top.node]
    <3>1. Head(Handler["List"]) = "list" /\ Head(Handler["Dictionary"]) = "dictionary"
      BY DEF Handler
    <3> QED
      BY <1>3, <3>1 DEF Collections
  <2>2. Top.vals # << >> /\ Top.todo \in Seq(FillingSteps)
    BY <1>1, <1>3, <2>1 DEF Shape
  <2>3. Top.todo \in Seq(TopSteps)
    BY <1>3, <2>2 DEF TopSteps
  <2> QED
    BY <1>3, <2>2, <2>3, HeadTailProperties DEF Filling
<1> QED
  BY <1>2, <1>3

\* The steps that fill a container follow one another.
LEMMA TopStepsShape ==
  ASSUME NEW f, f.node = Top.node, f.todo \in Seq(TopSteps), f.node \in Collections => f.vals # << >>
  PROVE  Shape(f)
BY DEF Shape, TopSteps

\* read_data of the number of elements or entries.
LEMMA CountCounts ==
  ASSUME TypeOK, Accounted, Count
  PROVE  Accounted'
<1>1. PICK step \in DOMAIN Repeats :
        /\ At(step, 0) /\ Reads("u32", pos)
        /\ Step(Then(Done(0), Times(code[pos].val, Repeats[step])), pos + 1)
  BY DEF Count
<1> DEFINE s == Times(code[pos].val, Repeats[step])
           f == Then(Done(0), s)
<1>2. /\ stack # << >> /\ Top.todo # << >> /\ Head(Top.todo) = step
  BY <1>1 DEF At
<1>3. step \notin {"list", "dictionary"}
  BY DEF Repeats
<1>4. /\ step \in TopSteps /\ Tail(Top.todo) \in Seq(TopSteps)
      /\ Top.node \in Collections => Filling(Top)
  BY <1>2, <1>3, TopShape
<1>5. Repeats[step] \in Seq(TopSteps)
  <2>1. CASE Top.node \in Collections
    <3>1. step \in {"elements", "entries"}
      BY <1>4, <2>1 DEF TopSteps, FillingSteps, Repeats
    <3> QED
      BY <2>1, <3>1, RepeatsFillings DEF TopSteps
  <2>2. CASE Top.node \notin Collections
    BY <1>4, <2>2, RepeatsOthers DEF TopSteps
  <2> QED
    BY <2>1, <2>2
<1>6. s \in Seq(TopSteps)
  BY <1>1, <1>5, FieldType, TimesType
<1> HIDE DEF s
<1>7. f.vals = Top.vals /\ f.node = Top.node /\ f.todo = s \o Tail(Top.todo)
  <2>1. Top.vals \in Seq(Ptr) /\ DOMAIN Top = {"node", "start", "ls", "body", "todo", "vals", "rd"}
    BY <1>2, TopFields
  <2>2. SubSeq(Top.vals, 1, Len(Top.vals) - 0) = Top.vals
    BY <2>1
  <2> QED
    BY <2>1, <2>2 DEF Then, Done
<1>8. Step(f, pos + 1)
  BY <1>1 DEF s
<1> HIDE DEF f
<1>9. f.todo \in Seq(TopSteps)
  BY <1>4, <1>6, <1>7, ConcatProperties
<1>10. Shape(f)
  BY <1>4, <1>7, <1>9, TopStepsShape DEF Filling
<1> QED
  BY <1>2, <1>7, <1>8, <1>10, StepCounts

\* read_data of a key.
LEMMA ReadNameCounts ==
  ASSUME TypeOK, Accounted, ReadName, ~ Fails
  PROVE  Accounted'
<1> DEFINE f == Reading(Done(0), NamesAt(pos))
<1>1. At("name", 0) /\ Step(f, PastNames(pos))
  BY DEF ReadName, Fails
<1>2. stack # << >> /\ Top.todo # << >> /\ Head(Top.todo) = "name"
  BY <1>1 DEF At
<1>3. Tail(Top.todo) \in Seq(TopSteps) /\ (Top.node \in Collections => Filling(Top))
  BY <1>2, TopShape
<1>4. f.vals = Top.vals /\ f.node = Top.node /\ f.todo = Tail(Top.todo)
  <2>1. Top.vals \in Seq(Ptr) /\ DOMAIN Top = {"node", "start", "ls", "body", "todo", "vals", "rd"}
    BY <1>2, TopFields
  <2>2. SubSeq(Top.vals, 1, Len(Top.vals) - 0) = Top.vals
    BY <2>1
  <2> QED
    BY <2>1, <2>2 DEF Reading, Done
<1> HIDE DEF f
<1>5. Shape(f)
  BY <1>3, <1>4, TopStepsShape DEF Filling
<1> QED
  BY <1>1, <1>2, <1>4, <1>5, StepCounts

\* A new list or dictionary belongs to the frame that makes it.
LEMMA NewContainerCounts ==
  ASSUME TypeOK, Accounted, NEW step \in {"list", "dictionary"}, At(step, 0),
         NEW o, Owned(o) = {}, o.type # "Module", Yield(New(o), Done(0), pos), ~ Fails
  PROVE  Accounted'
<1> DEFINE f == Push(Done(0), brk + 1)
           h == Put(heap, brk + 1, o)
<1>1. /\ stack # << >> /\ Top.todo # << >> /\ Head(Top.todo) = step
  BY DEF At
<1>2. /\ brk' = brk + 1 /\ stack' = Append(Front(stack), f)
      /\ UNCHANGED <<scopes, modules>> /\ Settle(h)
  <2>1. New(o).kind = "new" /\ New(o).obj = o
    BY DEF New
  <2> HIDE DEF f
  <2> QED
    BY <2>1 DEF Yield, Resume, Fails, f
<1>3. /\ brk \in Nat /\ brk + 1 \notin DOMAIN heap /\ brk + 1 # Null
      /\ brk + 1 .. brk' = {brk + 1}
  BY <1>2 DEF TypeOK, HeapOK, Null
<1>4. Top.node \in Collections /\ Top.vals = << >> /\ Top.todo = Handler[Top.node]
  <2>1. Shape(Top) /\ Top.todo \in Seq(Steps)
    BY <1>1, TopIndex, TopFields DEF Accounted, Built
  <2>2. step \notin FillingSteps /\ step \notin OtherSteps
    BY DEF FillingSteps, OtherSteps
  <2>3. Top.todo \notin Seq(FillingSteps) /\ Top.todo \notin Seq(OtherSteps)
    BY <1>1, <2>2, HeadTailProperties
  <2> QED
    BY <2>1, <2>3 DEF Shape
<1>5. /\ f.vals = <<brk + 1>> /\ f.node = Top.node /\ f.todo = Tail(Top.todo)
  <2>1. DOMAIN Top = {"node", "start", "ls", "body", "todo", "vals", "rd"}
    BY <1>1, TopFields
  <2>2. Top.vals \in Seq(Ptr)
    BY <1>1, TopFields
  <2>3. SubSeq(Top.vals, 1, Len(Top.vals) - 0) = Top.vals
    BY <2>2
  <2>4. f.vals = Append(Top.vals, brk + 1) /\ f.node = Top.node /\ f.todo = Tail(Top.todo)
    BY <2>1, <2>3 DEF Push, Done
  <2>5. Append(<< >>, brk + 1) = <<brk + 1>>
    OBVIOUS
  <2> QED
    BY <1>4, <2>4, <2>5
<1> HIDE DEF f
<1>6. Shape(f)
  <2>1. /\ Tail(Handler["List"]) = <<"elements">>
        /\ Tail(Handler["Dictionary"]) = <<"entries">>
    BY DEF Handler
  <2>2. <<"elements">> \in Seq(FillingSteps) /\ <<"entries">> \in Seq(FillingSteps)
    BY DEF FillingSteps
  <2>3. Tail(Handler[Top.node]) \in Seq(FillingSteps)
    BY <1>4, <2>1, <2>2 DEF Collections
  <2>4. f.todo \in Seq(FillingSteps)
    BY <1>4, <1>5, <2>3
  <2>5. f.vals # << >>
    BY <1>5
  <2> QED
    BY <1>4, <1>5, <2>4, <2>5 DEF Shape
<1>7. /\ DOMAIN h = DOMAIN heap \cup {brk + 1} /\ h[brk + 1] = o
      /\ \A p \in DOMAIN heap : h[p] = heap[p]
  BY <1>3 DEF Put
<1>8. ObjectsHold(heap, Live(heap)) /\ Acyclic(heap) /\ Listed(modules, heap)
  BY DEF Accounted, Whole
<1>9. GrowsInto(h) /\ h[brk + 1] = o
  BY <1>2, <1>8, ObjectGrows
<1> HIDE DEF h
<1>10. Acyclic(h) /\ Countable(h)
  BY <1>8, <1>9, GrowthKeepsAcyclic, GrownLive
<1>11. Listed(modules, h)
  <2>1. Registers(h)
    BY <1>2, <1>3, <1>9 DEF Registers
  <2> QED
    BY <1>2, <1>8, <1>9, <2>1, RegistersListed
<1>12. Fills(f, h)
  <2>1. DOMAIN h \ DOMAIN heap = {brk + 1}
    BY <1>3, <1>7
  <2>2. ASSUME NEW L, Top.vals \in Seq(L), ObjectsHold(heap, L)
        PROVE  f.vals \in Seq(L \cup {brk + 1}) /\ ObjectsHold(h, L \cup {brk + 1})
    <3>1. f.vals \in Seq(L \cup {brk + 1})
      BY <1>5
    <3>2. ObjectsHold(h, L \cup {brk + 1})
      BY <1>7, <2>2 DEF ObjectsHold
    <3> QED
      BY <3>1, <3>2
  <2> QED
    BY <2>1, <2>2 DEF Fills
<1>13. FillsAlone(f, h)
  <2>1. f.vals[1] = brk + 1 /\ Tail(f.vals) = << >> /\ << >> \in Seq(Live(heap))
    BY <1>5
  <2>2. Live(heap) \ {brk + 1} = Live(heap)
    BY <1>3 DEF Live
  <2>3. OthersHold(Live(heap))
    BY DEF OthersHold, Accounted, Whole, FramesHold
  <2>4. ObjectsHold(h, Live(heap))
    BY <1>7, <1>8 DEF ObjectsHold
  <2> QED
    BY <1>3, <2>1, <2>2, <2>3, <2>4 DEF FillsAlone
<1>14. DOMAIN heap \subseteq DOMAIN h
  BY <1>7
<1> QED
  BY <1>1, <1>2, <1>6, <1>10, <1>11, <1>12, <1>13, <1>14, FillingCounts

\* A list or a dictionary is made.
LEMMA NewContainersCount ==
  ASSUME TypeOK, Accounted, NewList \/ NewDictionary, ~ Fails
  PROVE  Accounted'
<1>1. Owned(List(<< >>)) = {} /\ List(<< >>).type # "Module"
  BY DEF Owned, List
<1>2. Owned(Dict(Empty)) = {} /\ Dict(Empty).type # "Module"
  BY DEF Owned, Dict, Empty
<1> QED
  BY <1>1, <1>2, NewContainerCounts DEF NewList, NewDictionary

\* A container under construction comes to own one more object.
LEMMA FilledCounts ==
  ASSUME TypeOK, Accounted, NEW step \in {"append", "insert"}, At(step, 2),
         NEW o, o.type # "Module", heap[Top.vals[1]].type # "Module",
         Owned(o) \subseteq Owned(heap[Top.vals[1]]) \cup {Top.vals[2]},
         Resume(Done(1), pos, Put(heap, Top.vals[1], o))
  PROVE  Accounted'
<1> DEFINE l == Top.vals[1]
           v == Top.vals[2]
           f == Done(1)
           h == Put(heap, l, o)
           L == Live(heap) \ {l}
<1>1. /\ stack # << >> /\ Top.todo # << >> /\ Head(Top.todo) = step
      /\ Top.vals \in Seq(Ptr) /\ Len(Top.vals) \in Nat /\ Len(Top.vals) >= 2
  BY AtType DEF At
<1>2. /\ stack' = Append(Front(stack), f) /\ UNCHANGED <<scopes, modules>> /\ Settle(h)
  BY DEF Resume
<1>3. /\ Tail(Top.todo) \in Seq(TopSteps) /\ Top.node \in Collections /\ Filling(Top)
  <2>1. /\ Head(Top.todo) \in TopSteps /\ Tail(Top.todo) \in Seq(TopSteps)
        /\ Top.node \in Collections => Filling(Top)
    BY <1>1, TopShape
  <2>2. Top.node \in Collections
    BY <1>1, <2>1 DEF TopSteps, OtherSteps
  <2> QED
    BY <2>1, <2>2
<1>4. /\ l # Null /\ l \in DOMAIN heap /\ OthersHold(L) /\ Tail(Top.vals) \in Seq(L)
      /\ ObjectsHold(heap, L)
  BY <1>1, <1>3, TopFills
<1>5. v \in L
  <2>1. Tail(Top.vals)[1] = v /\ Len(Tail(Top.vals)) >= 1
    BY <1>1
  <2> QED
    BY <1>4, <2>1, ElementOfSeq
<1>6. /\ f.vals = SubSeq(Top.vals, 1, Len(Top.vals) - 1) /\ f.node = Top.node
      /\ f.todo = Tail(Top.todo)
  <2>1. DOMAIN Top = {"node", "start", "ls", "body", "todo", "vals", "rd"}
    BY <1>1, TopFields
  <2> QED
    BY <2>1 DEF Done
<1> HIDE DEF f
<1>7. /\ f.vals # << >> /\ f.vals[1] = l
      /\ \A M : Top.vals \in Seq(M) => f.vals \in Seq(M)
      /\ Tail(f.vals) \in Seq(L)
  <2>1. f.vals # << >> /\ f.vals[1] = l
    <3>1. Top.vals # << >> /\ Len(Top.vals) > 1
      BY <1>1
    <3> QED
      BY <1>1, <1>6, <3>1, Shrink DEF Front
  <2>2. ASSUME NEW M, Top.vals \in Seq(M) PROVE f.vals \in Seq(M)
    BY <1>1, <1>6, <2>2, Prefix
  <2>3. Tail(f.vals) \in Seq(L)
    <3>1. Tail(f.vals) = SubSeq(Tail(Top.vals), 1, Len(Tail(Top.vals)) - 1)
      BY <1>1, <1>6
    <3>2. Len(Tail(Top.vals)) \in Nat
      BY <1>4, LenProperties
    <3> QED
      BY <1>4, <3>1, <3>2, Prefix
  <2> QED
    BY <2>1, <2>2, <2>3
<1>8. Shape(f)
  BY <1>3, <1>6, <1>7, TopStepsShape
<1>9. /\ DOMAIN h = DOMAIN heap /\ h[l] = o
      /\ \A p \in DOMAIN heap : p # l => h[p] = heap[p]
  BY <1>4 DEF Put
<1> HIDE DEF h
<1>10. \A M : ObjectsHold(heap, M) /\ v \in M => ObjectsHold(h, M)
  BY <1>4, <1>9 DEF ObjectsHold
<1>11. ObjectsHold(h, L)
  BY <1>4, <1>5, <1>10
<1>12. Countable(h) /\ Acyclic(h)
  <2>1. Countable(heap) /\ Acyclic(heap) /\ IsFiniteSet(DOMAIN heap)
    BY HeapCountable DEF Accounted, Whole, Countable
  <2>2. \A p \in DOMAIN h : l \notin Owned(h[p])
    BY <1>11 DEF ObjectsHold
  <2> QED
    BY <1>4, <1>9, <2>1, <2>2, FillingKeepsAcyclic DEF Countable
<1>13. Listed(modules, h)
  BY <1>9 DEF Listed, Accounted, Module
<1>14. Fills(f, h)
  <2>1. DOMAIN h \ DOMAIN heap = {} /\ \A M : M \cup {} = M
    BY <1>9
  <2>2. ASSUME NEW M, Top.vals \in Seq(M), ObjectsHold(heap, M)
        PROVE  f.vals \in Seq(M) /\ ObjectsHold(h, M)
    <3>1. v \in M
      BY <1>1, <2>2, ElementOfSeq
    <3> QED
      BY <1>7, <1>10, <2>2, <3>1
  <2> QED
    BY <2>1, <2>2 DEF Fills
<1>15. FillsAlone(f, h)
  BY <1>4, <1>7, <1>11 DEF FillsAlone
<1>16. DOMAIN heap \subseteq DOMAIN h
  BY <1>9
<1> QED
  BY <1>1, <1>2, <1>8, <1>12, <1>13, <1>14, <1>15, <1>16, FillingCounts

\* A list or a dictionary gets an element or an entry.
LEMMA FillsCount ==
  ASSUME TypeOK, Accounted, AppendElement \/ InsertEntry
  PROVE  Accounted'
<1> DEFINE l == Top.vals[1]
           v == Top.vals[2]
<1>1. CASE AppendElement
  <2> DEFINE s == heap[l].val
             o == List(Append(s, v))
  <2>1. At("append", 2) /\ Is(heap, l, "List") /\ Resume(Done(1), pos, Put(heap, l, o))
    BY <1>1 DEF AppendElement
  <2>2. s \in Seq(Ptr)
    BY <2>1 DEF TypeOK, HeapOK, Is, IsObject
  <2>3. Owned(o) \subseteq Owned(heap[l]) \cup {v}
    <3>1. Owned(heap[l]) = { s[i] : i \in DOMAIN s }
      BY <2>1 DEF Owned, Is
    <3>2. Owned(o) = { Append(s, v)[i] : i \in DOMAIN Append(s, v) }
      BY DEF Owned, List
    <3> HIDE DEF s, v
    <3>3. \A i \in DOMAIN Append(s, v) : Append(s, v)[i] = v \/ (i \in DOMAIN s /\ Append(s, v)[i] = s[i])
      BY <2>2
    <3> QED
      BY <3>1, <3>2, <3>3
  <2>4. o.type # "Module" /\ heap[l].type # "Module"
    BY <2>1 DEF List, Is
  <2> HIDE DEF o
  <2> QED
    BY <2>1, <2>3, <2>4, FilledCounts
<1>2. CASE InsertEntry
  <2> DEFINE d == heap[l].val
             k == Top.rd[1]
             o == Dict(Put(d, k, v))
  <2>1. At("insert", 2) /\ Is(heap, l, "Dictionary") /\ Resume(Done(1), pos, Put(heap, l, o))
    BY <1>2 DEF InsertEntry
  <2>2. Owned(o) \subseteq Owned(heap[l]) \cup {v}
    <3>1. Owned(heap[l]) = { d[i] : i \in DOMAIN d }
      BY <2>1 DEF Owned, Is
    <3> DEFINE e == Put(d, k, v)
    <3>2. Owned(o) = { e[i] : i \in DOMAIN e }
      BY DEF Owned, Dict
    <3>3. \A i \in DOMAIN e : e[i] = v \/ (i \in DOMAIN d /\ e[i] = d[i])
      BY DEF Put
    <3> HIDE DEF e, d, v
    <3> QED
      BY <3>1, <3>2, <3>3
  <2>3. o.type # "Module" /\ heap[l].type # "Module"
    BY <2>1 DEF Dict, Is
  <2> HIDE DEF o
  <2> QED
    BY <2>1, <2>2, <2>3, FilledCounts
<1> QED
  BY <1>1, <1>2

-----------------------------------------------------------------------------
(* The host, and the whole specification. *)

\* The objects that are no modules.
Data(h) == { p \in DOMAIN h : h[p].type # "Module" } \cup {Null}

\* Until execute() starts, m_loaded_modules alone owns modules.
IdleOwners ==
  outcome = "idle" =>
    stack = << >> /\ ScopesHold(scopes, Data(heap)) /\ ObjectsHold(heap, Data(heap))

\* The heap to which the host added objects.
Extended(h, fresh) ==
  /\ DOMAIN h = DOMAIN heap \cup (brk + 1 .. brk + Len(fresh))
  /\ \A p \in DOMAIN heap : h[p] = heap[p]
  /\ \A i \in 1 .. Len(fresh) : h[brk + i] = fresh[i]

\* The host's objects own objects without owners.
Presets(fresh) ==
  /\ Len(fresh) \in Nat
  /\ \A i \in 1 .. Len(fresh) : \A q \in Owned(fresh[i]) :
       \E j \in 1 .. Len(fresh) :
         q = brk + j /\ j # i /\ Owned(fresh[j]) = {} /\ fresh[j].type # "Module"

\* The host adds objects to the heap.
LEMMA PresetExtends ==
  ASSUME TypeOK, NEW fresh, Presets(fresh), NEW sc, NEW mo, Preset(fresh, sc, mo)
  PROVE  /\ brk' = brk + Len(fresh) /\ scopes' = sc /\ modules' = mo
         /\ stack' = stack /\ outcome' = outcome
         /\ \E h : Extended(h, fresh) /\ Settle(h)
<1> DEFINE h == [r \in DOMAIN heap \cup brk + 1 .. brk + Len(fresh) |->
                   IF r > brk THEN fresh[r - brk] ELSE heap[r]]
<1>1. /\ brk' = brk + Len(fresh) /\ scopes' = sc /\ modules' = mo
      /\ stack' = stack /\ outcome' = outcome /\ Settle(h)
  BY DEF Preset
<1>2. brk \in Nat /\ DOMAIN heap \subseteq 1 .. brk /\ Len(fresh) \in Nat
  BY DEF TypeOK, HeapOK, Presets
<1>3. DOMAIN h = DOMAIN heap \cup (brk + 1 .. brk + Len(fresh))
  OBVIOUS
<1>4. \A p \in DOMAIN heap : h[p] = heap[p]
  BY <1>2
<1>5. \A i \in 1 .. Len(fresh) : h[brk + i] = fresh[i]
  BY <1>2
<1> HIDE DEF h
<1>6. Extended(h, fresh)
  BY <1>3, <1>4, <1>5 DEF Extended
<1> QED
  BY <1>1, <1>6

\* A heap with the host's objects.
LEMMA ExtendedGrows ==
  ASSUME TypeOK, Accounted, IdleOwners, outcome = "idle", NEW fresh, Presets(fresh),
         brk' = brk + Len(fresh), NEW h, Extended(h, fresh)
  PROVE  /\ GrowsInto(h) /\ ObjectsHold(h, Data(h)) /\ Data(heap) \subseteq Data(h)
         /\ Data(h) \subseteq Live(h) /\ Live(heap) \subseteq Live(h) /\ Countable(h) /\ Acyclic(h)
<1> DEFINE n == Len(fresh)
<1>1. /\ n \in Nat /\ brk \in Nat /\ DOMAIN heap \subseteq 1 .. brk
      /\ DOMAIN h = DOMAIN heap \cup (brk + 1 .. brk + n)
      /\ \A p \in DOMAIN heap : h[p] = heap[p]
      /\ \A i \in 1 .. n : h[brk + i] = fresh[i]
  BY DEF TypeOK, HeapOK, Extended, Presets
<1>2. \A i \in 1 .. n : \A q \in Owned(fresh[i]) : \E j \in 1 .. n :
        q = brk + j /\ j # i /\ Owned(fresh[j]) = {} /\ fresh[j].type # "Module"
  BY DEF Presets
<1>3. brk' = brk + n
  OBVIOUS
<1> HIDE DEF n
<1>4. \A p \in brk + 1 .. brk + n : \E i \in 1 .. n : p = brk + i
  <2>1. \A p \in brk + 1 .. brk + n : p - brk \in 1 .. n /\ p = brk + (p - brk)
    BY <1>1
  <2> QED
    BY <2>1
<1>5. \A p \in brk + 1 .. brk + n : \A q \in Owned(h[p]) :
        q \in brk + 1 .. brk + n /\ q # p /\ Owned(h[q]) = {} /\ h[q].type # "Module"
  <2>1. ASSUME NEW i \in 1 .. n, NEW q \in Owned(h[brk + i])
        PROVE  q \in brk + 1 .. brk + n /\ q # brk + i /\ Owned(h[q]) = {} /\ h[q].type # "Module"
    <3>1. PICK j \in 1 .. n :
            q = brk + j /\ j # i /\ Owned(fresh[j]) = {} /\ fresh[j].type # "Module"
      BY <1>1, <1>2, ZenonT(40)
    <3>2. h[q] = fresh[j]
      BY <1>1, <3>1
    <3>3. q \in brk + 1 .. brk + n /\ q # brk + i
      BY <1>1, <3>1
    <3> QED
      BY <3>1, <3>2, <3>3
  <2> QED
    BY <1>4, <2>1
<1>6. GrowsInto(h)
  <2>1. brk' \in Nat /\ brk <= brk'
    BY <1>1, <1>3
  <2> QED
    BY <1>1, <1>3, <1>5, <2>1 DEF GrowsInto
<1>7. Data(heap) \subseteq Data(h) /\ Data(h) \subseteq Live(h) /\ Live(heap) \subseteq Live(h)
  BY <1>1 DEF Data, Live
<1>8. ObjectsHold(h, Data(h))
  <2>1. ObjectsHold(heap, Data(heap))
    BY DEF IdleOwners
  <2>2. \A p \in DOMAIN heap : Owned(h[p]) \subseteq Data(h)
    BY <1>1, <1>7, <2>1 DEF ObjectsHold
  <2>3. \A p \in brk + 1 .. brk + n : Owned(h[p]) \subseteq Data(h)
    BY <1>1, <1>5 DEF Data
  <2> QED
    BY <1>1, <2>2, <2>3 DEF ObjectsHold
<1>9. Countable(h) /\ Acyclic(h)
  BY <1>6, GrownLive, GrowthKeepsAcyclic DEF Accounted, Whole
<1> QED
  BY <1>6, <1>7, <1>8, <1>9

\* Objects that are freed leave the rest as it was for the host.
LEMMA PresetCounts ==
  ASSUME TypeOK, Accounted, IdleOwners, outcome = "idle", NEW fresh, Presets(fresh),
         brk' = brk + Len(fresh), stack' = stack, NEW h, Extended(h, fresh), Settle(h),
         ScopesHold(scopes', Data(h)), ModulesHold(modules', Live(h)),
         Listed(modules', h) \/ Listed(modules', heap')
  PROVE  Accounted' /\ IdleOwners'
<1>1. /\ GrowsInto(h) /\ ObjectsHold(h, Data(h)) /\ Data(h) \subseteq Live(h)
      /\ Countable(h) /\ Acyclic(h)
  BY ExtendedGrows
<1>2. stack' = << >>
  BY DEF IdleOwners
<1>3. Whole(stack', scopes', modules', h)
  <2>1. FramesHold(stack', Live(h))
    BY <1>2 DEF FramesHold
  <2>2. ScopesHold(scopes', Live(h)) /\ ObjectsHold(h, Live(h))
    BY <1>1, HoldWider
  <2> QED
    BY <1>1, <2>1, <2>2 DEF Whole
<1>4. /\ Whole(stack', scopes', modules', heap') /\ Listed(modules', heap')
      /\ DOMAIN heap' \subseteq DOMAIN h /\ \A p \in DOMAIN heap' : heap'[p] = h[p]
  BY <1>1, <1>3, SettlesWhole
<1>5. Built(stack', scopes', modules', heap')
  BY <1>2 DEF Built
<1>6. ScopesHold(scopes', Data(heap')) /\ ObjectsHold(heap', Data(heap'))
  <2>1. Data(h) \cap Live(heap') \subseteq Data(heap')
    BY <1>4 DEF Data, Live
  <2>2. ScopesHold(scopes', Live(heap')) /\ ObjectsHold(heap', Live(heap'))
    BY <1>4 DEF Whole
  <2>3. ObjectsHold(heap', Data(h))
    BY <1>1, <1>4 DEF ObjectsHold
  <2>4. ScopesHold(scopes', Data(h) \cap Live(heap')) /\ ObjectsHold(heap', Data(h) \cap Live(heap'))
    BY <2>2, <2>3, HeldByBoth
  <2> QED
    BY <2>1, <2>4, HoldWider
<1> QED
  BY <1>2, <1>4, <1>5, <1>6 DEF Accounted, IdleOwners

\* set_string and set_list.
LEMMA NamedPresetCounts ==
  ASSUME TypeOK, Accounted, IdleOwners, outcome = "idle", NEW fresh, Presets(fresh),
         Len(fresh) > 0, \A i \in 1 .. Len(fresh) : fresh[i].type # "Module",
         NEW x, Preset(fresh, SetValue(scopes, x, brk + 1), modules)
  PROVE  Accounted' /\ IdleOwners'
<1>1. /\ brk' = brk + Len(fresh) /\ scopes' = SetValue(scopes, x, brk + 1)
      /\ modules' = modules /\ stack' = stack
  BY PresetExtends
<1>2. PICK h : Extended(h, fresh) /\ Settle(h)
  BY PresetExtends
<1>3. /\ GrowsInto(h) /\ Data(heap) \subseteq Data(h) /\ Live(heap) \subseteq Live(h)
  BY <1>1, <1>2, ExtendedGrows
<1>4. /\ DOMAIN h = DOMAIN heap \cup (brk + 1 .. brk + Len(fresh)) /\ brk \in Nat /\ Len(fresh) \in Nat
      /\ \A i \in 1 .. Len(fresh) : h[brk + i] = fresh[i]
  BY <1>2 DEF Extended, TypeOK, Presets
<1>5. \A p \in brk + 1 .. brk + Len(fresh) : h[p].type # "Module"
  <2>1. \A p \in brk + 1 .. brk + Len(fresh) : p - brk \in 1 .. Len(fresh) /\ p = brk + (p - brk)
    BY <1>4
  <2> QED
    BY <1>4, <2>1
<1>6. brk + 1 \in Data(h)
  <2>1. brk + 1 \in brk + 1 .. brk + Len(fresh)
    BY <1>4
  <2> QED
    BY <1>4, <1>5, <2>1 DEF Data
<1>7. ScopesHold(scopes', Data(h))
  <2>1. ScopesHold(scopes, Data(h))
    BY <1>3, HoldWider DEF IdleOwners
  <2>2. ScopesOK(scopes)
    BY DEF TypeOK
  <2> QED
    BY <1>1, <1>6, <2>1, <2>2, SetValueHolds
<1>8. ModulesHold(modules', Live(h))
  BY <1>1, <1>3, HoldWider DEF Accounted, Whole
<1>9. Listed(modules', h)
  <2>1. Registers(h)
    BY <1>1, <1>5 DEF Registers
  <2> QED
    BY <1>3, <2>1, RegistersListed DEF Accounted
<1> QED
  BY <1>1, <1>2, <1>7, <1>8, <1>9, PresetCounts

\* A module that the host replaces is freed.
LEMMA ReplacedModule ==
  ASSUME TypeOK, Accounted, IdleOwners, outcome = "idle", NEW m \in DOMAIN modules,
         modules' = Put(modules, m, brk + 1), scopes' = scopes, stack' = stack,
         brk' = brk + 1, NEW h, Extended(h, <<Module(m)>>), Settle(h)
  PROVE  Listed(modules', heap')
<1> DEFINE old == modules[m]
           L == Live(h) \ {old}
<1>1. Presets(<<Module(m)>>) /\ Len(<<Module(m)>>) = 1
  <2> DEFINE o == Module(m)
  <2>1. Owned(o) = {}
    BY DEF Owned, Module
  <2> HIDE DEF o
  <2>2. Presets(<<o>>) /\ Len(<<o>>) = 1
    BY <2>1 DEF Presets
  <2> QED
    BY <2>2 DEF o
<1>2. /\ GrowsInto(h) /\ ObjectsHold(h, Data(h)) /\ Data(heap) \subseteq Data(h)
      /\ Data(h) \subseteq Live(h) /\ Live(heap) \subseteq Live(h) /\ Countable(h) /\ Acyclic(h)
  BY <1>1, ExtendedGrows
<1>3. /\ brk \in Nat /\ DOMAIN heap \subseteq 1 .. brk
      /\ DOMAIN h = DOMAIN heap \cup {brk + 1} /\ h[brk + 1] = Module(m)
      /\ \A p \in DOMAIN heap : h[p] = heap[p]
  <2> DEFINE o == Module(m)
  <2>1. /\ DOMAIN h = DOMAIN heap \cup (brk + 1 .. brk + 1) /\ \A p \in DOMAIN heap : h[p] = heap[p]
        /\ h[brk + 1] = o
    <3> HIDE DEF o
    <3>1. Extended(h, <<o>>)
      BY DEF o
    <3>2. Len(<<o>>) = 1 /\ <<o>>[1] = o /\ 1 \in 1 .. 1
      OBVIOUS
    <3> QED
      BY <3>1, <3>2 DEF Extended
  <2>2. brk \in Nat /\ DOMAIN heap \subseteq 1 .. brk
    BY DEF TypeOK, HeapOK
  <2> HIDE DEF o
  <2>3. brk + 1 .. brk + 1 = {brk + 1}
    BY <2>2
  <2> QED
    BY <2>1, <2>2, <2>3 DEF o
<1>4. /\ DOMAIN modules' = DOMAIN modules \cup {m} /\ modules'[m] = brk + 1
      /\ \A k \in DOMAIN modules : k # m => modules'[k] = modules[k]
  BY DEF Put
<1>5. \A k : Module(k).type = "Module" /\ Module(k).val = k
  BY DEF Module
<1>6. \A k \in DOMAIN modules : modules[k] \in DOMAIN heap /\ heap[modules[k]] = Module(k)
  BY DEF Accounted, Listed
<1>7. /\ old \in DOMAIN heap /\ old \notin Data(h) /\ old # brk + 1
      /\ \A k \in DOMAIN modules : k # m => modules[k] # old
  <2>1. old \in DOMAIN heap /\ h[old] = Module(m)
    BY <1>3, <1>6
  <2>2. old \notin Data(h)
    BY <1>3, <1>5, <2>1 DEF Data, Null
  <2>3. \A k \in DOMAIN modules : k # m => modules[k] # old
    BY <1>5, <1>6
  <2> QED
    BY <1>3, <2>1, <2>2, <2>3
<1>8. Data(h) \subseteq L
  BY <1>2, <1>7
<1>9. stack' = << >> /\ ScopesHold(scopes', Data(h))
  BY <1>2, HoldWider DEF IdleOwners
<1>10. /\ ScopesHold(scopes', L) /\ ObjectsHold(h, L) /\ FramesHold(stack', L)
       /\ ModulesHold(modules', L)
  <2>1. ScopesHold(scopes', L) /\ ObjectsHold(h, L)
    BY <1>2, <1>8, <1>9, HoldWider
  <2>2. FramesHold(stack', L)
    BY <1>9 DEF FramesHold
  <2>3. ModulesHold(modules', L)
    BY <1>3, <1>4, <1>6, <1>7 DEF ModulesHold, Live
  <2> QED
    BY <2>1, <2>2, <2>3
<1>11. old \notin DOMAIN heap'
  <2>1. Owners(stack', scopes', modules') \subseteq L
    BY <1>10, OwnersHeld
  <2>2. \A q \in DOMAIN h : old \notin Owned(h[q])
    BY <1>10 DEF ObjectsHold
  <2>3. heap' = Collect(h, Owners(stack', scopes', modules'))
    BY DEF Settle
  <2> QED
    BY <1>2, <2>1, <2>2, <2>3, CollectFrees DEF Countable
<1>12. /\ Whole(stack', scopes', modules', heap')
       /\ DOMAIN heap' \subseteq DOMAIN h /\ \A p \in DOMAIN heap' : heap'[p] = h[p]
  <2>1. L \subseteq Live(h)
    OBVIOUS
  <2>2. Whole(stack', scopes', modules', h)
    <3>1. FramesHold(stack', Live(h))
      BY <1>9 DEF FramesHold
    <3> DEFINE M == Live(h)
    <3>2. L \subseteq M /\ Live(h) = M
      BY <2>1
    <3> HIDE DEF L, M
    <3>3. ScopesHold(scopes', M)
      BY <1>10, <3>2, HoldWider
    <3>4. ModulesHold(modules', M)
      BY <1>10, <3>2, HoldWider
    <3>5. ObjectsHold(h, M)
      BY <1>10, <3>2, HoldWider
    <3>6. Acyclic(h)
      BY <1>2
    <3> QED
      BY <3>1, <3>2, <3>3, <3>4, <3>5, <3>6 DEF Whole
  <2> QED
    BY <1>2, <2>2, SettlesWhole
<1>13. ASSUME NEW p \in DOMAIN heap', heap'[p].type = "Module"
       PROVE  heap'[p].val \in DOMAIN modules' /\ modules'[heap'[p].val] = p
  <2>1. p \in DOMAIN h /\ heap'[p] = h[p] /\ p # old
    BY <1>11, <1>12
  <2>2. CASE p = brk + 1
    BY <1>3, <1>4, <1>5, <2>1, <2>2
  <2>3. CASE p \in DOMAIN heap
    <3>1. heap[p].val \in DOMAIN modules /\ modules[heap[p].val] = p
      BY <1>3, <1>13, <2>1, <2>3 DEF Accounted, Listed
    <3>2. heap[p].val # m
      BY <2>1, <3>1
    <3> QED
      BY <1>3, <1>4, <2>1, <2>3, <3>1, <3>2
  <2> QED
    BY <1>3, <2>1, <2>2, <2>3
<1>14. ASSUME NEW k \in DOMAIN modules'
       PROVE  modules'[k] \in DOMAIN heap' /\ heap'[modules'[k]] = Module(k)
  <2>1. modules'[k] \in DOMAIN h /\ h[modules'[k]] = Module(k) /\ modules'[k] # Null
    BY <1>3, <1>4, <1>6 DEF Null
  <2>2. modules'[k] \in Live(heap')
    BY <1>12 DEF Whole, ModulesHold
  <2> QED
    BY <1>12, <2>1, <2>2 DEF Live
<1> QED
  BY <1>13, <1>14 DEF Listed

\* set_module: the module is listed, and one that it replaces is freed.
LEMMA SetModuleCounts ==
  ASSUME TypeOK, Accounted, IdleOwners, outcome = "idle", SetModule
  PROVE  Accounted' /\ IdleOwners'
<1>1. PICK m \in HostModules : Preset(<<Module(m)>>, scopes, Put(modules, m, brk + 1))
  BY DEF SetModule
<1> DEFINE o == Module(m)
<1>2. Owned(o) = {} /\ o = Module(m)
  BY DEF Owned, Module
<1>3. Preset(<<o>>, scopes, Put(modules, m, brk + 1))
  BY <1>1
<1> HIDE DEF o
<1>4. Presets(<<o>>) /\ Len(<<o>>) = 1
  BY <1>2 DEF Presets
<1>5. /\ brk' = brk + 1 /\ scopes' = scopes /\ modules' = Put(modules, m, brk + 1)
      /\ stack' = stack
  BY <1>3, <1>4, PresetExtends
<1>6. PICK h : Extended(h, <<o>>) /\ Settle(h)
  BY <1>3, <1>4, PresetExtends
<1>7. /\ GrowsInto(h) /\ Data(heap) \subseteq Data(h) /\ Live(heap) \subseteq Live(h)
  BY <1>4, <1>5, <1>6, ExtendedGrows
<1>8. ScopesHold(scopes', Data(h))
  BY <1>5, <1>7, HoldWider DEF IdleOwners
<1>9. brk \in Nat /\ brk + 1 \in DOMAIN h /\ h[brk + 1] = o
  <2>1. Len(<<o>>) = 1 /\ <<o>>[1] = o /\ 1 \in 1 .. 1 /\ brk \in Nat
    BY DEF TypeOK
  <2> QED
    BY <1>6, <2>1 DEF Extended
<1>10. ModulesHold(modules', Live(h))
  <2>1. ModulesHold(modules, Live(h))
    BY <1>7, HoldWider DEF Accounted, Whole
  <2>2. brk + 1 \in Live(h)
    BY <1>9 DEF Live
  <2> QED
    BY <1>5, <2>1, <2>2 DEF ModulesHold, Put
<1>11. Listed(modules', h) \/ Listed(modules', heap')
  <2>1. CASE m \in DOMAIN modules
    <3>1. Extended(h, <<Module(m)>>)
      BY <1>2, <1>6
    <3> QED
      BY <1>5, <1>6, <2>1, <3>1, ReplacedModule
  <2>2. CASE m \notin DOMAIN modules
    <3>1. Registers(h)
      BY <1>2, <1>5, <1>9, <2>2 DEF Registers
    <3> QED
      BY <1>7, <3>1, RegistersListed DEF Accounted
  <2> QED
    BY <2>1, <2>2
<1> QED
  BY <1>4, <1>5, <1>6, <1>8, <1>10, <1>11, PresetCounts

\* What the host does before execute().
LEMMA HostCounts ==
  ASSUME TypeOK, Accounted, IdleOwners, SetString \/ SetList \/ SetModule
  PROVE  Accounted' /\ IdleOwners'
<1>1. outcome = "idle"
  BY DEF SetString, PresetString, SetList, PresetList, SetModule, Preset, Idle
<1>2. CASE SetString
  <2>1. PICK x \in HostNames, t \in HostTexts :
          Preset(<<Str(t)>>, SetValue(scopes, x, brk + 1), modules)
    BY <1>2 DEF SetString, PresetString
  <2> DEFINE o == Str(t)
  <2>2. Owned(o) = {} /\ o.type # "Module"
    BY DEF Owned, Str
  <2>3. Preset(<<o>>, SetValue(scopes, x, brk + 1), modules)
    BY <2>1
  <2> HIDE DEF o
  <2>4. Presets(<<o>>) /\ Len(<<o>>) > 0 /\ \A i \in 1 .. Len(<<o>>) : <<o>>[i].type # "Module"
    BY <2>2 DEF Presets
  <2> QED
    BY <1>1, <2>3, <2>4, NamedPresetCounts
<1>3. CASE SetList
  <2>1. PICK x \in HostNames, t \in HostTexts, u \in HostTexts :
          Preset(<<List(<<brk + 2, brk + 3>>), Str(t), Str(u)>>,
                 SetValue(scopes, x, brk + 1), modules)
    BY <1>3 DEF SetList, PresetList
  <2> DEFINE o == List(<<brk + 2, brk + 3>>)
             v == Str(t)
             w == Str(u)
  <2>2. Owned(v) = {} /\ v.type # "Module" /\ Owned(w) = {} /\ w.type # "Module"
        /\ o.type # "Module"
    BY DEF Owned, Str, List
  <2>3. Owned(o) = {brk + 2, brk + 3}
    <3>1. Owned(o) = { <<brk + 2, brk + 3>>[i] : i \in DOMAIN <<brk + 2, brk + 3>> }
      BY DEF Owned, List
    <3> QED
      BY <3>1
  <2>4. Preset(<<o, v, w>>, SetValue(scopes, x, brk + 1), modules)
    BY <2>1
  <2> HIDE DEF o, v, w
  <2> DEFINE fresh == <<o, v, w>>
  <2>5. Len(fresh) = 3 /\ fresh[1] = o /\ fresh[2] = v /\ fresh[3] = w
    OBVIOUS
  <2> HIDE DEF fresh
  <2>6. brk \in Nat
    BY DEF TypeOK
  <2>7. Presets(fresh)
    BY <2>2, <2>3, <2>5, <2>6 DEF Presets
  <2>8. Len(fresh) > 0 /\ \A i \in 1 .. Len(fresh) : fresh[i].type # "Module"
    BY <2>2, <2>5
  <2>9. Preset(fresh, SetValue(scopes, x, brk + 1), modules)
    BY <2>4 DEF fresh
  <2> QED
    BY <1>1, <2>7, <2>8, <2>9, NamedPresetCounts
<1>4. CASE SetModule
  BY <1>1, <1>4, SetModuleCounts
<1> QED
  BY <1>2, <1>3, <1>4

\* Every action of execute_next, of one kind or another.
LEMMA StepsCount ==
  ASSUME TypeOK, Accounted, Nodes \/ Expressions \/ Statement
  PROVE  Accounted' /\ outcome = "running"
<1>1. CASE OtherMoves
  <2>1. PICK step, n : At(step, n) /\ step \notin Writing
    BY <1>1, OtherMovesSteps
  <2>2. /\ outcome = "running" /\ stack # << >> /\ Top.todo # << >> /\ Head(Top.todo) \notin Writing
    BY <2>1 DEF At
  <2>3. Top.node \notin Collections
    <3>1. Head(Top.todo) \in TopSteps
      BY <2>2, TopShape DEF Writing
    <3> QED
      BY <2>2, <3>1 DEF TopSteps, Writing
  <2> QED
    BY <1>1, <2>2, <2>3, MovesCount, FailsCount
<1>2. CASE (\E step \in ChildSteps : Enter(step)) \/ Count \/ Return
  <2>1. outcome = "running"
    BY <1>2 DEF Enter, Count, Return, At
  <2> QED
    BY <1>2, <2>1, EnterCounts, CountCounts, ReturnCounts, FailsCount
<1>3. CASE ReadName \/ NewList \/ NewDictionary \/ AppendElement \/ InsertEntry
  <2>1. outcome = "running"
    BY <1>3 DEF ReadName, NewList, NewDictionary, AppendElement, InsertEntry, At
  <2> QED
    BY <1>3, <2>1, ReadNameCounts, NewContainersCount, FillsCount, FailsCount
<1> QED
  BY <1>1, <1>2, <1>3 DEF Nodes, Expressions, Statement, OtherMoves

\* Every step.
LEMMA NextCounts ==
  ASSUME TypeOK, Accounted, IdleOwners, [Next]_vars
  PROVE  Accounted' /\ IdleOwners'
<1>1. CASE SetString \/ SetList \/ SetModule
  BY <1>1, HostCounts
<1>2. CASE Execute
  <2>1. outcome' = "running"
    BY <1>2 DEF Execute
  <2> QED
    BY <1>2, <2>1, ExecuteCounts DEF IdleOwners
<1>3. CASE Nodes \/ Expressions \/ Statement
  <2>1. Accounted' /\ outcome = "running"
    BY <1>3, StepsCount
  <2>2. outcome' = outcome \/ outcome' \notin Unthrown
    BY <1>3, ActivationsKeepTypes DEF Kept
  <2>3. outcome' # "idle"
    BY <2>1, <2>2 DEF Unthrown
  <2> QED
    BY <2>1, <2>3 DEF IdleOwners
<1>4. CASE Finish
  <2> DEFINE v == ReturnValue(Top)
             msg == IF ~ Is(heap, v, "Bool") THEN "result is not a boolean"
                    ELSE IF heap[v].val THEN "true" ELSE "false"
  <2>1. Fail(msg) /\ msg # "idle"
    BY <1>4 DEF Finish
  <2> HIDE DEF msg
  <2>2. outcome' # "idle" /\ Fails
    BY <2>1 DEF Fail, Fails
  <2> QED
    BY <2>2, FailsCount DEF IdleOwners
<1>5. CASE UNCHANGED vars
  BY <1>5 DEF vars, Accounted, IdleOwners
<1> QED
  BY <1>1, <1>2, <1>3, <1>4, <1>5 DEF Next, Host, Interpret, Ended

\* The initial states.
LEMMA InitCounts ==
  ASSUME Init
  PROVE  Accounted /\ IdleOwners
<1>1. stack = << >> /\ scopes = <<Fresh>> /\ heap = Empty /\ modules = Empty
  BY DEF Init
<1>2. DOMAIN heap = {} /\ DOMAIN modules = {}
  BY <1>1 DEF Empty
<1>3. \A L : ScopesHold(scopes, L)
  <2>1. DOMAIN scopes = {1} /\ DOMAIN scopes[1].values = {}
    BY <1>1 DEF Fresh, Empty
  <2> QED
    BY <2>1 DEF ScopesHold
<1>4. Whole(stack, scopes, modules, heap) /\ Listed(modules, heap)
  BY <1>1, <1>2, <1>3 DEF Whole, Listed, FramesHold, ModulesHold, ObjectsHold, Acyclic
<1>5. Built(stack, scopes, modules, heap)
  BY <1>1 DEF Built
<1> QED
  BY <1>1, <1>2, <1>3, <1>4, <1>5 DEF Accounted, IdleOwners, ObjectsHold

\* The inductive invariant of ownership.
LEMMA AccountedCorrect == Spec => [](Accounted /\ IdleOwners)
<1>1. Init => TypeOK /\ Accounted /\ IdleOwners
  BY InitTypes, InitCounts
<1>2. TypeOK /\ Accounted /\ IdleOwners /\ [Next]_vars => (TypeOK /\ Accounted /\ IdleOwners)'
  BY NextKeepsTypes, NextCounts
<1> QED
  BY <1>1, <1>2, PTL DEF Spec

(***************************************************************************)
(* Whatever the program, no list, dictionary or tuple ever comes to own    *)
(* itself, be it through others; so shared_ptr's counts free all that is   *)
(* out of use, which is what the model's reachability computes.  The byte  *)
(* code has no operation that stores into a container which a name or      *)
(* another container already owns: a list or a dictionary is filled only   *)
(* by the frame that made it, which has handed it to nobody.               *)
(***************************************************************************)
THEOREM NoCyclesCorrect == Spec => []NoCycles
<1>1. Accounted => NoCycles
  BY DEF Accounted, Whole, Acyclic, NoCycles
<1> QED
  BY <1>1, AccountedCorrect, PTL

(***************************************************************************)
(* However often a program imports a module, and whatever modules the host *)
(* set beforehand, import_module finds the one that is listed: there are   *)
(* never two Module objects of one name that the interpreter or the        *)
(* program holds.  A module which the host replaced before execute() has   *)
(* lost its only owner, m_loaded_modules, unless the host keeps a pointer  *)
(* of its own, which is outside the model: then it lives on, but nothing   *)
(* that execute() does can find it.                                        *)
(***************************************************************************)
THEOREM OneModuleCorrect == Spec => []OneModule
<1>1. Accounted => OneModule
  BY DEF Accounted, Listed, OneModule
<1> QED
  BY <1>1, AccountedCorrect, PTL

\* Every pointer that is held is null or points to a live object.
OwnedAreLive ==
  Owners(stack, scopes, modules) \cup (UNION { Owned(heap[p]) : p \in DOMAIN heap })
    \subseteq DOMAIN heap \cup {Null}

(***************************************************************************)
(* What a frame, a scope, m_loaded_modules, a list, a dictionary or a      *)
(* tuple owns is null or a live object, in every state: an object is freed *)
(* only once nothing owns it.  The pointers that dangle in this            *)
(* interpreter are raw ones (BorrowsAreLive), never counted ones.          *)
(***************************************************************************)
THEOREM OwnedAreLiveCorrect == Spec => []OwnedAreLive
<1>1. Accounted => OwnedAreLive
  <2> SUFFICES ASSUME Accounted PROVE OwnedAreLive
    OBVIOUS
  <2>1. Owners(stack, scopes, modules) \subseteq Live(heap)
    BY OwnersHeld DEF Accounted, Whole
  <2>2. UNION { Owned(heap[p]) : p \in DOMAIN heap } \subseteq Live(heap)
    BY DEF Accounted, Whole, ObjectsHold
  <2> QED
    BY <2>1, <2>2 DEF OwnedAreLive, Live
<1> QED
  BY <1>1, AccountedCorrect, PTL

=============================================================================
