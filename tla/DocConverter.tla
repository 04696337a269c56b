---------------------------- MODULE DocConverter ----------------------------
(***************************************************************************)
(* create_from_document: a json::Document iterates over itself and calls   *)
(* a DocConverter, which builds the value with a stack of its own.         *)
(*                                                                         *)
(* The document library is not in the repository.  "doc", "open" and       *)
(* "root" are what its calls say of the document: the values reported so   *)
(* far, in the form of the heap that should come out, and the containers   *)
(* that it is inside of.  The converter sees the calls and their keys only.*)
(* A value is known by the number of the call that reports it, and so is   *)
(* the object made for it.  handle_binary does nothing, so the documents   *)
(* here have no binary data.                                               *)
(***************************************************************************)
EXTENDS Values, SequencesExt

CONSTANTS
  Keys,        \* the keys of maps
  ElementKey,  \* the key that the library reports for an element of an array
  Texts,       \* the strings in documents
  Numbers,     \* the integers in documents, of 64 bits
  Floats,      \* the floating-point numbers in documents
  MaxCalls     \* bound: a document has no more values

ASSUME NumbersAreIntegers == Numbers \subseteq Int

VARIABLES
  doc,          \* the document reported so far: value |-> contents
  open,         \* the maps and arrays that are being reported, outermost first
  root,         \* <<the document's value>>, or << >>
  calls,        \* the number of values reported
  heap,         \* the objects made
  parse_stack,  \* of the converter, the top last
  outcome       \* "reading", "value", or the exception

converter == <<doc, open, root, calls, heap, parse_stack, outcome>>

Float(x) == [type |-> "Float", val |-> x]

Containers == { "Dictionary", "List" }

\* Dictionary::insert or List::append on the container c.
Child(h, c, key, p) ==
  [h EXCEPT ![c].val = IF h[c].type = "Dictionary" THEN Put(@, key, p) ELSE Append(@, p)]

Made(h, p, o) == Put(h, p, o)

-----------------------------------------------------------------------------
(* What the document library may call next. *)

\* The root comes first and has no key; a map has each key once.
KeysOf(c) ==
  IF doc[c].type = "Dictionary" THEN Keys \ DOMAIN doc[c].val ELSE { ElementKey }

NextKeys ==
  CASE open # << >>                    -> KeysOf(Last(open))
    [] open = << >> /\ root = << >>    -> { "" }
    [] OTHER                           -> {}

\* The document's next value is p, with the contents o unless it is null.
Report(key, p, o) ==
  LET known == IF p = Null THEN doc ELSE Made(doc, p, o)
  IN  /\ calls < MaxCalls /\ calls' = calls + 1
      /\ IF open = << >>
         THEN doc' = known /\ root' = <<p>>
         ELSE doc' = Child(known, Last(open), key, p) /\ UNCHANGED root

-----------------------------------------------------------------------------
(* DocConverter. *)

Throw(msg) == outcome' = msg /\ parse_stack' = << >> /\ heap' = Empty

\* Mutant of AppendChild: the root gets every child.
AppendToRoot(h, key, p, st) ==
  IF parse_stack = << >> THEN Throw("cannot append child at this point!")
  ELSE heap' = Child(h, parse_stack[1], key, p) /\ parse_stack' = st /\ UNCHANGED outcome

\* append_child, on the objects h; the stack becomes st
AppendChild(h, key, p, st) ==
  IF parse_stack = << >> THEN Throw("cannot append child at this point!")
  ELSE LET top == Last(parse_stack) IN
    CASE top \notin DOMAIN h -> Throw("null dereference")
      [] top \in DOMAIN h /\ h[top].type \notin Containers -> Throw("Failed to append child")
      [] OTHER -> heap' = Child(h, top, key, p) /\ parse_stack' = st /\ UNCHANGED outcome

\* add_value
AddValue(h, key, p) ==
  IF key = "" THEN heap' = h /\ parse_stack' = Append(parse_stack, p) /\ UNCHANGED outcome
              ELSE AppendChild(h, key, p, parse_stack)

\* handle_string, handle_integer, handle_boolean, handle_float: the document
\* has "said", and the converter makes an object of it
Scalar(key, said, made) ==
  LET p == calls + 1
  IN  /\ Report(key, p, said)
      /\ AddValue(Made(heap, p, made), key, p)
      /\ UNCHANGED open

HandleString(key) == \E t \in Texts : Scalar(key, Str(t), Str(t))

\* Mutant of HandleInteger: an integer keeps its 64 bits.
HandleLong(key) == \E i \in Numbers : Scalar(key, Unwrapped(i), Unwrapped(i))

\* create_integer takes an int32_t.
HandleInteger(key) == \E i \in Numbers : Scalar(key, Unwrapped(i), Int32(i))

HandleBoolean(key) == \E b \in BOOLEAN : Scalar(key, Bool(b), Bool(b))

HandleFloat(key) == \E x \in Floats : Scalar(key, Float(x), Float(x))

HandleNull(key) == Report(key, Null, Null) /\ AddValue(heap, key, Null) /\ UNCHANGED open

HandleDatetime == Throw("Datetime not supported") /\ UNCHANGED <<doc, open, root, calls>>

\* handle_map_start and handle_array_start
HandleStart(key, empty) ==
  LET p == calls + 1
      h == Made(heap, p, empty)
      st == Append(parse_stack, p)
  IN  /\ Report(key, p, empty)
      /\ open' = Append(open, p)
      /\ IF key # "" THEN AppendChild(h, key, p, st)
                     ELSE heap' = h /\ parse_stack' = st /\ UNCHANGED outcome

\* Mutants of Popped: the root is popped as well, or nothing is.
PoppedAlways(st) == Front(st)
PoppedNever(st)  == st

Popped(st) == IF Len(st) > 1 THEN Front(st) ELSE st

\* handle_map_end and handle_array_end
HandleEnd ==
  /\ open # << >>
  /\ open' = Front(open)
  /\ parse_stack' = Popped(parse_stack)
  /\ UNCHANGED <<doc, root, calls, heap, outcome>>

\* get_result, once the document has been iterated over
GetResult ==
  /\ open = << >>
  /\ IF Len(parse_stack) # 1 THEN Throw("Json converter in an invalid child")
                             ELSE outcome' = "value" /\ UNCHANGED <<heap, parse_stack>>
  /\ UNCHANGED <<doc, open, root, calls>>

-----------------------------------------------------------------------------
ConverterInit ==
  /\ doc = Empty /\ open = << >> /\ root = << >> /\ calls = 0
  /\ heap = Empty /\ parse_stack = << >>
  /\ outcome = "reading"

Handle(key) ==
  \/ HandleString(key) \/ HandleInteger(key) \/ HandleBoolean(key) \/ HandleFloat(key)
  \/ HandleNull(key)
  \/ HandleStart(key, Dict(Empty)) \/ HandleStart(key, List(<< >>))

ConverterNext ==
  /\ outcome = "reading"
  /\ \/ \E key \in NextKeys : Handle(key)
     \/ NextKeys # {} /\ HandleDatetime
     \/ HandleEnd
     \/ GetResult

ConverterSpec == ConverterInit /\ [][ConverterNext]_converter

-----------------------------------------------------------------------------
(* Properties. *)

Narrowed(o) == IF o.type = "Integer" THEN Int32(o.val) ELSE o

\* The types of the converter's state: its stack holds values that were
\* reported, its objects are those values' and have integers of 32 bits.
ConverterTypeOK ==
  /\ calls \in Nat /\ DOMAIN heap \subseteq 1 .. calls
  /\ \A p \in DOMAIN heap : heap[p].type = "Integer" => heap[p].val \in Int32Range
  /\ parse_stack \in Seq(0 .. calls)

\* While the document is read, the converter's stack, its only knowledge of
\* where it is, is the document's nesting (or the root, when that is over).
StackIsNesting ==
  outcome = "reading" => parse_stack = IF open = << >> THEN root ELSE open

\* The objects are the document's values, each in its place, with integers
\* narrowed to 32 bits; and the result is the document's root.
ValueIsDocument ==
  /\ outcome \in {"reading", "value"} => heap = [p \in DOMAIN doc |-> Narrowed(doc[p])]
  /\ outcome = "value" => parse_stack = root /\ root # << >>

\* An exception means that the document is empty or has a date: "Not a valid
\* document?", as get_result's comment says.
ValidDocumentsConvert ==
  \/ outcome \in {"reading", "value", "Datetime not supported"}
  \/ outcome = "Json converter in an invalid child" /\ root = << >>

=============================================================================
