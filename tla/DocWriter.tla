----------------------------- MODULE DocWriter -----------------------------
(***************************************************************************)
(* value_to_document, composed with create_from_document: the value that a *)
(* DocConverter made is written with a json::Writer.                       *)
(*                                                                         *)
(* value_to_bdoc recurses over the value; its activations are "walk", each *)
(* a container and the keys or positions that are left.  "written" is the  *)
(* document that the calls of the writer describe, in the form of a heap   *)
(* whose numbers are those of the values written, and "nested" the maps    *)
(* and arrays that were started in it and not yet ended.                   *)
(***************************************************************************)
EXTENDS DocConverter

VARIABLES
  walk,     \* the activations of value_to_bdoc, the innermost one last
  written,  \* what the writer has been told
  nested,   \* the containers that it is inside of
  ended     \* "no", "writing", "document", or the exception

writer == <<walk, written, nested, ended>>
vars   == <<converter, writer>>

-----------------------------------------------------------------------------
(* json::Writer. *)

\* start_map, start_array, write_string, write_integer: the value p comes
\* under a key, or as the next element, in the innermost container.
Tell(key, p, contents) ==
  LET known == Put(written, p, contents)
  IN  written' = IF nested = << >> THEN known ELSE Child(known, Last(nested), key, p)

-----------------------------------------------------------------------------
(* value_to_bdoc. *)

Refuse(msg) == ended' = msg /\ walk' = << >> /\ UNCHANGED <<written, nested>>

StringsOnly == { "String" }                \* mutant of Written
Written     == { "String", "Integer" }

Emptied(o) == IF o.type = "List" THEN List(<< >>) ELSE Dict(Empty)

\* An activation begins, and ends at once unless its value is a container;
\* "st" is its caller's activations.
Begin(key, p, st) ==
  CASE p \notin DOMAIN heap -> Refuse("null dereference")
    [] p \in DOMAIN heap /\ heap[p].type \in Written ->
         Tell(key, p, heap[p]) /\ walk' = st /\ ended' = "writing" /\ UNCHANGED nested
    [] p \in DOMAIN heap /\ heap[p].type \in Containers ->
         /\ Tell(key, p, Emptied(heap[p]))
         /\ nested' = Append(nested, p)
         /\ walk' = Append(st, [of |-> p, left |-> DOMAIN heap[p].val])
         /\ ended' = "writing"
    [] OTHER -> Refuse("Unknown value type")

\* Elements come by position, members in the order of a std::map.
Earlier(c, j, k) == IF heap[c].type = "Dictionary" THEN Before(j, k) ELSE j < k
First(f) == { k \in f.left : \A other \in f.left \ {k} : Earlier(f.of, k, other) }

\* Mutant of ChildKey: a map's members are written as an array's are.
NoKey(c, k)    == ""
ChildKey(c, k) == IF heap[c].type = "Dictionary" THEN k ELSE ""

WriteValue == ended = "no" /\ Begin("", parse_stack[1], << >>)

WriteChild ==
  /\ ended = "writing" /\ walk # << >>
  /\ LET f == Last(walk) IN
       \E k \in First(f) :
         Begin(ChildKey(f.of, k), heap[f.of].val[k],
               Append(Front(walk), [f EXCEPT !.left = @ \ {k}]))

\* end_map, for maps and for arrays
WriteEnd ==
  /\ ended = "writing" /\ walk # << >> /\ Last(walk).left = {}
  /\ walk' = Front(walk)
  /\ nested' = Front(nested)
  /\ UNCHANGED <<written, ended>>

MakeDocument ==
  /\ ended = "writing" /\ walk = << >>
  /\ ended' = "document"
  /\ UNCHANGED <<walk, written, nested>>

-----------------------------------------------------------------------------
Init ==
  /\ ConverterInit
  /\ walk = << >> /\ written = Empty /\ nested = << >> /\ ended = "no"

Write ==
  /\ outcome = "value"
  /\ WriteValue \/ WriteChild \/ WriteEnd \/ MakeDocument
  /\ UNCHANGED converter

Next == (ConverterNext /\ UNCHANGED writer) \/ Write

Spec == Init /\ [][Next]_vars

-----------------------------------------------------------------------------
(* Properties. *)

\* A document that was read and written again is the same document but for
\* integers of more than 32 bits, with every container ended.
RoundTrip ==
  ended = "document" => written = [p \in DOMAIN doc |-> Narrowed(doc[p])] /\ nested = << >>

\* The writer refuses a value, or dies of it, only for what a document may
\* hold and the writer does not know: a Boolean, a floating-point number, a null.
Nulls(o) == o.type \in Containers /\ \E k \in DOMAIN o.val : o.val[k] = Null

RefusesForCause ==
  /\ ended = "Unknown value type" => \E p \in DOMAIN doc : doc[p].type \in {"Bool", "Float"}
  /\ ended = "null dereference"   => root = <<Null>> \/ \E p \in DOMAIN doc : Nulls(doc[p])

=============================================================================
