------------------------------- MODULE Values -------------------------------
(***************************************************************************)
(* The values of chipy and the operations on them that change no state.    *)
(*                                                                         *)
(* A ValuePtr is the number of an object, in order of allocation, or Null. *)
(* The operators take the heap h, which maps the live objects' numbers to  *)
(* the objects: p \notin DOMAIN h says that p is null (or dangles), and    *)
(* looking through it is undefined behaviour.                              *)
(*                                                                         *)
(* An operation that yields a value or throws is an operator that returns  *)
(* a Result: a new object to allocate, an existing pointer, or the         *)
(* exception.                                                              *)
(***************************************************************************)
EXTENDS Integers, Sequences, FiniteSets

CONSTANTS
  IntMin, IntMax,   \* the range of int32_t
  Concat(_, _),     \* std::string operator+
  ToStr(_),         \* std::to_string
  Numeral,          \* the strings that strtol reads a number from |-> the number
  Before(_, _),     \* the order of the keys of a std::map<std::string, ...>
  RandInt(_, _)     \* what a freshly seeded generator draws from a range

Int32Range == IntMin .. IntMax

ASSUME IntRange == IntMin \in Int /\ IntMax \in Int /\ IntMin <= 0 /\ 2 <= IntMax

ASSUME Numerals == Numeral \in [DOMAIN Numeral -> Int]

ASSUME Randomness == \A a, b \in Int32Range : RandInt(a, b) \in Int32Range

Null == 0
Ptr  == Nat

\* The empty map, and f with k mapped to v.
Empty == [x \in {} |-> Null]
Put(f, k, v) == [x \in DOMAIN f \cup {k} |-> IF x = k THEN v ELSE f[x]]

\* Two's complement: what signed overflow and narrowing do in the builds.
Wrap(i) == ((i - IntMin) % (IntMax - IntMin + 1)) + IntMin

-----------------------------------------------------------------------------
(* Objects. *)

Bool(b)     == [type |-> "Bool",       val |-> b]
Unwrapped(i) == [type |-> "Integer",   val |-> i]   \* mutant of Int32
Int32(i)    == [type |-> "Integer",    val |-> Wrap(i)]
Str(s)      == [type |-> "String",     val |-> s]
List(s)     == [type |-> "List",       val |-> s]
Dict(d)     == [type |-> "Dictionary", val |-> d]
Pair(p, q)  == [type |-> "Tuple",      val |-> <<p, q>>]
Alias(n, a) == [type |-> "Alias",      val |-> <<n, a>>]
Module(n)   == [type |-> "Module",     val |-> n]
Func(m, n)  == [type |-> "Function",   val |-> <<m, n>>]
Builtin(n)  == [type |-> "Builtin",    val |-> n]
Items(d)    == [type |-> "DictItems",  val |-> d]

(***************************************************************************)
(* Iterators hold a plain reference ("over") to their container, which     *)
(* keeps nothing alive.  "at" is the position of a range or list iterator, *)
(* "done" the keys a dictionary iterator has passed.                       *)
(***************************************************************************)
IteratorKinds == { "Range", "List", "DictItem", "DictKey" }

Iter(kind, over, at, stop, done) ==
  [type |-> "Iterator",
   val |-> [kind |-> kind, over |-> over, at |-> at, stop |-> stop, done |-> done]]

IsIterator(v) ==
  /\ v.kind \in IteratorKinds /\ v.over \in Ptr
  /\ v.at \in Nat /\ v.stop \in Int /\ v.done \in SUBSET STRING

IsObject(o) ==
  /\ o.type \in { "Bool", "Integer", "String", "List", "Dictionary", "Tuple",
                  "Alias", "Module", "Function", "Builtin", "DictItems", "Iterator" }
  /\ o.type = "Bool"       => o.val \in BOOLEAN
  /\ o.type = "Integer"    => o.val \in Int32Range
  /\ o.type = "List"       => o.val \in Seq(Ptr)
  /\ o.type = "Dictionary" => /\ DOMAIN o.val \in SUBSET STRING
                              /\ \A k \in DOMAIN o.val : o.val[k] \in Ptr
  /\ o.type = "Tuple"      => o.val \in Ptr \X Ptr
  /\ o.type \in {"Alias", "Function"}  => o.val \in STRING \X STRING
  /\ o.type \in {"Module", "Builtin"} => o.val \in STRING
  /\ o.type = "DictItems"  => o.val \in Ptr
  /\ o.type = "Iterator"   => IsIterator(o.val)

Is(h, p, type) == p \in DOMAIN h /\ h[p].type = type

\* The pointers an object owns (its ValuePtr members).
Owned(o) ==
  CASE o.type \in {"List", "Tuple"} -> { o.val[i] : i \in DOMAIN o.val }
    [] o.type = "Dictionary"        -> { o.val[k] : k \in DOMAIN o.val }
    [] OTHER                        -> {}

\* The plain references an object holds without owning.
Borrowed(o) ==
  CASE o.type = "DictItems" -> { o.val }
    [] o.type = "Iterator" /\ o.val.kind # "Range" -> { o.val.over }
    [] OTHER -> {}

(***************************************************************************)
(* Reference counting: the objects that survive are those reachable from   *)
(* the roots through ValuePtr members.                                     *)
(***************************************************************************)
Reachable(h, roots) ==
  LET reach[s \in SUBSET DOMAIN h] ==
        LET t == s \cup ((UNION { Owned(h[r]) : r \in s }) \cap DOMAIN h)
        IN  IF t = s THEN s ELSE reach[t]
  IN  reach[roots \cap DOMAIN h]

Collect(h, roots) == [r \in DOMAIN h \cap Reachable(h, roots) |-> h[r]]

-----------------------------------------------------------------------------
(* Results. *)

New(o)     == [kind |-> "new", obj |-> o]
Use(p)     == [kind |-> "use", ptr |-> p]
Raise(msg) == [kind |-> "raise", msg |-> msg]

NullDereference == Raise("null dereference")
DanglingReference == Raise("dangling reference")
BadCast         == Raise("value_exception")

\* What execute() has not thrown when outcome is one of these.
Unthrown == {"idle", "running", "true", "false"}

IsResult(r) ==
  \/ r.kind = "new"   /\ IsObject(r.obj)
  \/ r.kind = "use"   /\ r.ptr \in Ptr
  \/ r.kind = "raise" /\ r.msg \notin Unthrown

\* Mutant of Truth: a null operand counts as unequal to everything.
TruthOfNull(faults, b) == New(Bool(~ faults /\ b))

Truth(faults, b) == IF faults THEN NullDereference ELSE New(Bool(b))

\* bool_test: true unless a Bool or an Integer says otherwise.
BoolTest(o) == CASE o.type = "Bool"    -> o.val
                 [] o.type = "Integer" -> o.val # 0
                 [] OTHER              -> TRUE

Both(h, p, q, type) == Is(h, p, type) /\ Is(h, q, type)

Equal(h, p, q) ==
  \E type \in {"String", "Integer"} : Both(h, p, q, type) /\ h[p].val = h[q].val

Greater(h, p, q) == Both(h, p, q, "Integer") /\ h[p].val > h[q].val
MoreThan(h, p, q) == Greater(h, p, q)               \* mutant of AtLeast
AtLeast(h, p, q) == Both(h, p, q, "Integer") /\ h[p].val >= h[q].val

\* The operators look at the second operand's type only when the first one
\* has one of the given types.
Faults(h, p, q, types) ==
  p \notin DOMAIN h \/ (h[p].type \in types /\ q \notin DOMAIN h)

\* Mutant of ListContains: only the first element is looked at.
HeadIs(h, elems, p) ==
  Truth(elems # << >> /\ Faults(h, elems[1], p, {"String", "Integer"}),
        elems # << >> /\ Equal(h, elems[1], p))

\* List::contains stops at the first equal element.
ListContains(h, elems, p) ==
  LET hit(i) == Equal(h, elems[i], p)
      bad(i) == Faults(h, elems[i], p, {"String", "Integer"})
  IN  Truth(\E i \in DOMAIN elems : bad(i) /\ \A j \in 1 .. i - 1 : ~ hit(j),
            \E i \in DOMAIN elems : hit(i))

Negated(r) == IF r.kind = "new" THEN New(Bool(~ r.obj.val)) ELSE r

\* NodeType::Compare, one operator of the chain.
CompareResult(h, op, p, q) ==
  LET equality == Truth(Faults(h, p, q, {"String", "Integer"}), Equal(h, p, q))
      member == IF q \notin DOMAIN h THEN NullDereference
                ELSE IF Is(h, q, "List") THEN ListContains(h, h[q].val, p)
                ELSE Raise("Can only call in on lists")
  IN  CASE op = "Equals"    -> equality
        [] op = "NotEqual"  -> Negated(equality)
        [] op = "In"        -> member
        [] op = "NotIn"     -> Negated(member)
        [] op = "More"      -> Truth(Faults(h, p, q, {"Integer"}), Greater(h, p, q))
        [] op = "MoreEqual" -> Truth(Faults(h, p, q, {"Integer"}), AtLeast(h, p, q))
        [] op = "Less"      -> Truth(Faults(h, q, p, {"Integer"}), Greater(h, q, p))
        [] op = "LessEqual" -> Truth(Faults(h, q, p, {"Integer"}), AtLeast(h, q, p))
        [] OTHER            -> Raise("Unknown op type")

UnaryResult(h, op, p) ==
  LET not(b) == IF op = "Not" THEN New(Bool(b)) ELSE Raise("Unknown unary operation")
  IN  CASE Is(h, p, "Bool") -> not(~ h[p].val)
        [] Is(h, p, "Integer") -> IF op = "Sub" THEN New(Int32(-1 * h[p].val)) ELSE not(FALSE)
        [] OTHER -> not(p \notin DOMAIN h)

AddResult(h, p, q) ==
  CASE Faults(h, p, q, {"Integer", "String"}) -> NullDereference
    [] Both(h, p, q, "Integer") -> New(Int32(h[p].val + h[q].val))
    [] Both(h, p, q, "String")  -> New(Str(Concat(h[p].val, h[q].val)))
    [] OTHER                    -> Raise("failed to add")

MultResult(h, p, q) ==
  CASE Faults(h, p, q, {"Integer"}) -> NullDereference
    [] Both(h, p, q, "Integer")     -> New(Int32(h[p].val * h[q].val))
    [] OTHER                        -> Raise("failed to multiply")

SubResult(h, p, q) ==
  CASE ~ {p, q} \subseteq DOMAIN h -> Raise("Cannot subtract on none values")
    [] Both(h, p, q, "Integer")    -> New(Int32(h[p].val - h[q].val))
    [] OTHER                       -> Raise("failed to sub")

BinaryResult(h, op, p, q) ==
  CASE op = "Add"  -> AddResult(h, p, q)
    [] op = "Mult" -> MultResult(h, p, q)
    [] op = "Sub"  -> SubResult(h, p, q)
    [] OTHER       -> Raise("Unknown binary operation")

\* A negative index becomes a large unsigned one; a missing key is null.
SubscriptResult(h, slice, p) ==
  CASE Faults(h, p, slice, {"Dictionary", "List"}) -> NullDereference
    [] Is(h, p, "Dictionary") /\ Is(h, slice, "String") ->
         LET d == h[p].val
             k == h[slice].val
         IN  Use(IF k \in DOMAIN d THEN d[k] ELSE Null)
    [] Is(h, p, "List") /\ Is(h, slice, "Integer") ->
         LET i == h[slice].val + 1
         IN  IF i \in DOMAIN h[p].val THEN Use(h[p].val[i])
                                      ELSE Raise("List index out of range")
    [] OTHER -> Raise("Invalid subscript")

\* RandModule knows one name; a module of the host resolves every name.
MemberResult(mod, name) ==
  IF mod = "rand" /\ name # "randint" THEN Raise("No such member")
                                      ELSE New(Func(mod, name))

AttributeResult(h, p, name) ==
  CASE p \notin DOMAIN h    -> NullDereference
    [] Is(h, p, "Module")   -> MemberResult(h[p].val, name)
    [] Is(h, p, "Dictionary") /\ name = "items" -> New(Items(p))
    [] OTHER                -> Raise("Cannot get attribute")

-----------------------------------------------------------------------------
(* Calls. *)

Callable(o) == o.type \in {"Builtin", "DictItems", "Function"}

Builtins == { "range", "int", "str", "print" }

\* Builtin::call
BuiltinResult(h, name, args) ==
  LET p == args[1]
      value == h[p].val
      is(n, type) == name = n /\ Is(h, p, type)
      mismatch == CASE name = "range" -> Raise("invalid argument type")
                    [] name # "range" /\ p \notin DOMAIN h -> NullDereference
                    [] name = "print" /\ p \in DOMAIN h -> Raise("Argument not a string")
                    [] OTHER -> Raise("Can't conver to integer")
  IN  CASE Len(args) # 1 -> Raise("Invalid number of arguments")
        [] Len(args) = 1 /\ is("range", "Integer") -> New(Iter("Range", Null, 0, value, {}))
        [] Len(args) = 1 /\ (is("str", "String") \/ is("int", "Integer")) -> Use(p)
        [] Len(args) = 1 /\ is("str", "Integer") -> New(Str(ToStr(value)))
        [] Len(args) = 1 /\ is("int", "String") ->
             New(Int32(IF value \in DOMAIN Numeral THEN Numeral[value] ELSE 0))
        [] Len(args) = 1 /\ is("print", "String") -> Use(Null)
        [] OTHER -> mismatch

\* randint: two integers, or value_cast throws.  The generator is seeded
\* anew by each call, so the draw is a function of the range; from an empty
\* range (undefined behaviour of the distribution) it is some integer.
RandIntResult(h, args) ==
  IF Len(args) # 2 THEN Raise("Invalid number of arguments")
  ELSE IF ~ Both(h, args[1], args[2], "Integer") THEN BadCast
  ELSE New(Int32(RandInt(h[args[1]].val, h[args[2]].val)))

\* What the functions of the host's modules do: those of the tests, one
\* without an argument that returns a constant and one that doubles its own.
HostResult(h, args) ==
  IF args = << >> THEN New(Int32(2))
  ELSE IF Is(h, args[1], "Integer") THEN New(Int32(2 * h[args[1]].val))
  ELSE BadCast

CallResult(h, p, args) ==
  CASE h[p].type = "Builtin"    -> BuiltinResult(h, h[p].val, args)
    [] h[p].type = "Function"   ->
         IF h[p].val[1] = "rand" THEN RandIntResult(h, args) ELSE HostResult(h, args)
    [] h[p].type = "DictItems"  ->
         IF args # << >> THEN Raise("invalid number of arguments")
         ELSE IF h[p].val \notin DOMAIN h THEN DanglingReference
         ELSE New(Iter("DictItem", h[p].val, 0, 0, {}))
    [] OTHER                    -> BadCast

\* What a for loop iterates over: an iterator itself, or a new one.
IterateResult(h, p) ==
  CASE p \notin DOMAIN h       -> NullDereference
    [] Is(h, p, "Iterator")    -> Use(p)
    [] Is(h, p, "List")        -> New(Iter("List", p, 0, 0, {}))
    [] Is(h, p, "Dictionary")  -> New(Iter("DictKey", p, 0, 0, {}))
    [] OTHER                   -> Raise("Can't iterate")

=============================================================================
