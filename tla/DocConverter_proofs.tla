------------------------ MODULE DocConverter_proofs ------------------------
(***************************************************************************)
(* The DocConverter builds the document it is called for, whatever the     *)
(* document, if no key is empty.                                           *)
(*                                                                         *)
(* The argument: the stack is the document's nesting, so the container on  *)
(* top of it is the one that the document is inside of; then the object    *)
(* and the document get the same child, and narrowing commutes with that.  *)
(*                                                                         *)
(* The document written from that value is the document that was read.     *)
(* The document is a tree, so a child that value_to_bdoc comes to has not  *)
(* been written before, and is written at the place that it has in its     *)
(* container; when no activation is left, the values written are closed    *)
(* under "child of" and hold the root, so they are all there are.          *)
(***************************************************************************)
EXTENDS DocWriter, SequenceLemmas

\* No map has an empty key, and array elements have keys that are not empty.
NamedKeys == "" \notin Keys /\ ElementKey # ""

-----------------------------------------------------------------------------
(* Objects in a heap. *)

IsRecord(o) == o = [type |-> o.type, val |-> o.val]

IsHeap(h) == h = [q \in DOMAIN h |-> h[q]] /\ \A q \in DOMAIN h : IsRecord(h[q])

NarrowedAll(h) == [q \in DOMAIN h |-> Narrowed(h[q])]

Grown(o, key, p) == IF o.type = "Dictionary" THEN Put(o.val, key, p) ELSE Append(o.val, p)

\* A container with one child more, and the others as they were.
LEMMA ChildObject ==
  ASSUME NEW h, IsHeap(h), NEW c \in DOMAIN h, NEW key, NEW p
  PROVE  Child(h, c, key, p) =
           [q \in DOMAIN h |->
              IF q = c THEN [type |-> h[c].type, val |-> Grown(h[c], key, p)] ELSE h[q]]
<1> DEFINE v == Grown(h[c], key, p)
           ty == h[c].type
           va == h[c].val
<1>1. Child(h, c, key, p) = [h EXCEPT ![c] = [h[c] EXCEPT !.val = v]]
  BY DEF Child, Grown
<1>2. h[c] = [type |-> ty, val |-> va]
  BY DEF IsRecord, IsHeap
<1> HIDE DEF v, ty, va
<1>3. [[type |-> ty, val |-> va] EXCEPT !.val = v] = [type |-> ty, val |-> v]
  OBVIOUS
<1>4. h = [q \in DOMAIN h |-> h[q]]
  BY DEF IsHeap
<1>5. [h EXCEPT ![c] = [type |-> ty, val |-> v]]
        = [q \in DOMAIN h |-> IF q = c THEN [type |-> ty, val |-> v] ELSE h[q]]
  BY <1>4
<1>6. QED
  BY <1>1, <1>2, <1>3, <1>5 DEF ty, v

\* ... so that heaps stay heaps, and types types.
LEMMA ChildHeap ==
  ASSUME NEW h, IsHeap(h), NEW c \in DOMAIN h, NEW key, NEW p
  PROVE  /\ IsHeap(Child(h, c, key, p)) /\ DOMAIN Child(h, c, key, p) = DOMAIN h
         /\ \A q \in DOMAIN h : Child(h, c, key, p)[q].type = h[q].type
         /\ \A q \in DOMAIN h : q # c => Child(h, c, key, p)[q] = h[q]
<1> DEFINE ty == h[c].type
           v  == Grown(h[c], key, p)
           o  == [type |-> ty, val |-> v]
           g  == [q \in DOMAIN h |-> IF q = c THEN o ELSE h[q]]
<1>1. Child(h, c, key, p) = g
  BY ChildObject
<1>2. o.type = ty /\ IsRecord(o)
  <2> HIDE DEF ty, v
  <2> QED
    BY DEF IsRecord
<1> HIDE DEF o
<1>3. IsHeap(g)
  BY <1>2 DEF IsHeap
<1>4. \A q \in DOMAIN h : g[q].type = h[q].type
  BY <1>2
<1>5. QED
  BY <1>1, <1>3, <1>4

LEMMA NarrowedRecord ==
  ASSUME NEW o, IsRecord(o)
  PROVE  IsRecord(Narrowed(o)) /\ Narrowed(o).type = o.type
  BY DEF Narrowed, IsRecord, Int32

LEMMA NarrowedHeap ==
  ASSUME NEW h, IsHeap(h)
  PROVE  /\ IsHeap(NarrowedAll(h)) /\ DOMAIN NarrowedAll(h) = DOMAIN h
         /\ \A q \in DOMAIN h : NarrowedAll(h)[q] = Narrowed(h[q])
         /\ \A q \in DOMAIN h : NarrowedAll(h)[q].type = h[q].type
<1>1. \A q \in DOMAIN h : NarrowedAll(h)[q] = Narrowed(h[q])
  BY DEF NarrowedAll
<1>2. \A q \in DOMAIN h : IsRecord(Narrowed(h[q])) /\ Narrowed(h[q]).type = h[q].type
  BY NarrowedRecord DEF IsHeap
<1>3. QED
  BY <1>1, <1>2 DEF NarrowedAll, IsHeap

\* Narrowing commutes with making an object ...
LEMMA NarrowedMade ==
  ASSUME NEW h, IsHeap(h), NEW p, NEW o, IsRecord(o)
  PROVE  NarrowedAll(Made(h, p, o)) = Made(NarrowedAll(h), p, Narrowed(o))
  BY DEF NarrowedAll, Made, Put

\* ... and with adding a child.
LEMMA NarrowedChild ==
  ASSUME NEW h, IsHeap(h), NEW c \in DOMAIN h, h[c].type \in Containers, NEW key, NEW p
  PROVE  NarrowedAll(Child(h, c, key, p)) = Child(NarrowedAll(h), c, key, p)
<1> DEFINE n == NarrowedAll(h)
           o == [type |-> h[c].type, val |-> Grown(h[c], key, p)]
<1>1. IsHeap(n) /\ c \in DOMAIN n /\ DOMAIN n = DOMAIN h
  BY NarrowedHeap
<1>2. n[c] = h[c]
  BY NarrowedHeap DEF Narrowed, Containers
<1>3. Child(n, c, key, p) = [q \in DOMAIN n |-> IF q = c THEN o ELSE n[q]]
  BY <1>1, <1>2, ChildObject
<1>4. Child(h, c, key, p) = [q \in DOMAIN h |-> IF q = c THEN o ELSE h[q]]
  BY ChildObject
<1>5. Narrowed(o) = o
  <2> DEFINE ty == h[c].type
             v  == Grown(h[c], key, p)
  <2>1. ty # "Integer"
    BY DEF Containers
  <2> HIDE DEF ty, v
  <2>2. Narrowed([type |-> ty, val |-> v]) = [type |-> ty, val |-> v]
    BY <2>1 DEF Narrowed
  <2>3. QED
    BY <2>2 DEF ty, v
<1> HIDE DEF o
<1>6. NarrowedAll([q \in DOMAIN h |-> IF q = c THEN o ELSE h[q]])
        = [q \in DOMAIN h |-> IF q = c THEN o ELSE n[q]]
  BY <1>5 DEF NarrowedAll
<1>7. QED
  BY <1>1, <1>3, <1>4, <1>6

-----------------------------------------------------------------------------
(* The document's own state. *)

DocOK ==
  /\ calls \in Nat /\ IsHeap(doc) /\ DOMAIN doc \subseteq 1 .. calls
  /\ open \in Seq(DOMAIN doc) /\ \A i \in DOMAIN open : doc[open[i]].type \in Containers
  /\ root = << >> \/ \E r \in 0 .. calls : root = <<r>>
  /\ open # << >> => root = <<open[1]>>

\* The document with one more value.
Known(p, o) == IF p = Null THEN doc ELSE Made(doc, p, o)

\* The call that reports p can come: p is null, or a new value.
Reportable(p, o) == p = Null \/ (p = calls + 1 /\ IsRecord(o))

LEMMA KnownHeap ==
  ASSUME DocOK, NEW p, NEW o, Reportable(p, o)
  PROVE  /\ IsHeap(Known(p, o)) /\ DOMAIN Known(p, o) \subseteq 1 .. calls + 1
         /\ \A q \in DOMAIN doc : q \in DOMAIN Known(p, o) /\ Known(p, o)[q] = doc[q]
         /\ p # Null => p \in DOMAIN Known(p, o) /\ Known(p, o)[p] = o
<1>1. CASE p = Null
  BY <1>1 DEF Known, DocOK
<1>2. CASE p = calls + 1 /\ IsRecord(o)
  <2>1. p # Null /\ p \notin DOMAIN doc
    BY <1>2 DEF DocOK, Null
  <2>2. Known(p, o) = Made(doc, p, o) /\ IsHeap(doc)
    BY <2>1 DEF Known, DocOK
  <2> DEFINE m == Made(doc, p, o)
  <2>3. /\ IsHeap(m) /\ DOMAIN m = DOMAIN doc \cup {p} /\ m[p] = o
        /\ \A q \in DOMAIN doc : q # p => m[q] = doc[q]
    <3>1. IsHeap(doc) /\ IsRecord(o)
      BY <1>2, <2>2
    <3>2. QED
      BY <3>1 DEF Made, Put, IsHeap
  <2> HIDE DEF m
  <2>4. DOMAIN m \subseteq 1 .. calls + 1
    BY <1>2, <2>3 DEF DocOK
  <2>5. \A q \in DOMAIN doc : q \in DOMAIN m /\ m[q] = doc[q]
    BY <2>1, <2>3
  <2>6. QED
    BY <2>2, <2>3, <2>4, <2>5 DEF m
<1>3. QED
  BY <1>1, <1>2 DEF Reportable

LEMMA OpenTop ==
  ASSUME DocOK, open # << >>
  PROVE  Last(open) \in DOMAIN doc /\ doc[Last(open)].type \in Containers
<1>1. Last(open) \in DOMAIN doc /\ Len(open) \in Nat \ {0}
  BY Ends DEF DocOK
<1>2. Last(open) = open[Len(open)] /\ Len(open) \in DOMAIN open
  BY <1>1 DEF Last, DocOK
<1>3. QED
  BY <1>1, <1>2 DEF DocOK

\* The document after a call, as a heap.
LEMMA ReportedHeap ==
  ASSUME DocOK, NEW key, NEW p, NEW o, Reportable(p, o), Report(key, p, o)
  PROVE  /\ calls' = calls + 1 /\ IsHeap(doc') /\ DOMAIN doc' = DOMAIN Known(p, o)
         /\ \A q \in DOMAIN Known(p, o) : doc'[q].type = Known(p, o)[q].type
         /\ open = << >> => doc' = Known(p, o) /\ root' = <<p>>
         /\ open # << >> => /\ doc' = Child(Known(p, o), Last(open), key, p)
                            /\ root' = root
<1> DEFINE k == Known(p, o)
<1>1. IsHeap(k) /\ \A q \in DOMAIN doc : q \in DOMAIN k
  BY KnownHeap
<1>2. calls' = calls + 1
  BY DEF Report
<1>3. CASE open = << >>
  BY <1>1, <1>2, <1>3 DEF Report, Known
<1>4. CASE open # << >>
  <2>1. Last(open) \in DOMAIN k
    BY <1>1, <1>4, OpenTop
  <2>2. doc' = Child(k, Last(open), key, p) /\ root' = root
    BY <1>4 DEF Report, Known
  <2> HIDE DEF k
  <2>3. IsHeap(doc') /\ DOMAIN doc' = DOMAIN k /\ \A q \in DOMAIN k : doc'[q].type = k[q].type
    BY <1>1, <2>1, <2>2, ChildHeap
  <2>4. QED
    BY <1>2, <1>4, <2>2, <2>3 DEF k
<1>5. QED
  BY <1>3, <1>4

\* A call keeps the document in order, whether it opens a container or not.
LEMMA ReportKeepsDocument ==
  ASSUME DocOK, NEW key, NEW p, NEW o, Reportable(p, o), Report(key, p, o),
         open = << >> => root = << >>,
         \/ open' = open
         \/ p # Null /\ o.type \in Containers /\ open' = Append(open, p)
  PROVE  DocOK'
<1> DEFINE k == Known(p, o)
<1>1. /\ IsHeap(k) /\ DOMAIN k \subseteq 1 .. calls + 1
      /\ \A q \in DOMAIN doc : q \in DOMAIN k /\ k[q] = doc[q]
      /\ p # Null => p \in DOMAIN k /\ k[p] = o
  BY KnownHeap
<1>2. /\ calls' = calls + 1 /\ IsHeap(doc') /\ DOMAIN doc' = DOMAIN k
      /\ \A q \in DOMAIN k : doc'[q].type = k[q].type
      /\ open = << >> => root' = <<p>>
      /\ open # << >> => root' = root
  BY ReportedHeap
<1>3. calls \in Nat /\ p \in 0 .. calls + 1 /\ open \in Seq(DOMAIN doc)
  BY DEF DocOK, Reportable, Null
<1> HIDE DEF k
<1>4. calls' \in Nat /\ DOMAIN doc' \subseteq 1 .. calls'
  BY <1>1, <1>2, <1>3
<1>5. /\ open' \in Seq(DOMAIN k)
      /\ \A i \in DOMAIN open' : open'[i] \in DOMAIN k /\ k[open'[i]].type \in Containers
      /\ open # << >> => open' # << >> /\ open'[1] = open[1]
      /\ open = << >> /\ open' # << >> => open'[1] = p
  <2>1. DOMAIN doc \subseteq DOMAIN k
    BY <1>1
  <2>2. \A i \in DOMAIN open : open[i] \in DOMAIN k /\ k[open[i]].type \in Containers
    BY <1>1, <1>3 DEF DocOK
  <2>3. CASE open' = open
    BY <1>3, <2>1, <2>2, <2>3
  <2>4. CASE p # Null /\ o.type \in Containers /\ open' = Append(open, p)
    <3>1. p \in DOMAIN k /\ k[p].type \in Containers
      BY <1>1, <2>4
    <3>2. /\ open' \in Seq(DOMAIN k) /\ Len(open) \in Nat
          /\ \A i \in DOMAIN open' :
               (i \in DOMAIN open /\ open'[i] = open[i]) \/ (i = Len(open) + 1 /\ open'[i] = p)
      BY <1>3, <2>1, <2>4, <3>1, Grow
    <3>3. \A i \in DOMAIN open' : open'[i] \in DOMAIN k /\ k[open'[i]].type \in Containers
      BY <2>2, <3>1, <3>2
    <3>4. open # << >> => open' # << >> /\ open'[1] = open[1]
      BY <1>3, <2>4
    <3>5. open = << >> => open'[1] = p
      BY <2>4
    <3>6. QED
      BY <3>2, <3>3, <3>4, <3>5
  <2>5. QED
    BY <2>3, <2>4
<1>6. \A i \in DOMAIN open' : doc'[open'[i]].type \in Containers
  BY <1>2, <1>5
<1>7. root' = << >> \/ \E r \in 0 .. calls' : root' = <<r>>
  BY <1>2, <1>3 DEF DocOK
<1>8. open' # << >> => root' = <<open'[1]>>
  BY <1>2, <1>5 DEF DocOK
<1>9. QED
  BY <1>2, <1>4, <1>5, <1>6, <1>7, <1>8 DEF DocOK, IsHeap, IsRecord

-----------------------------------------------------------------------------
(* The converter follows. *)

Following == DocOK /\ StackIsNesting /\ ValueIsDocument

\* With no empty keys, the key is empty exactly at the root.
LEMMA RootHasNoKey ==
  ASSUME NamedKeys, NEW key \in NextKeys
  PROVE  /\ open = << >> => key = "" /\ root = << >>
         /\ open # << >> => key # ""
  BY DEF NextKeys, KeysOf, NamedKeys

\* append_child finds the container that the document is inside of.
LEMMA AppendChildFollows ==
  ASSUME Following, outcome = "reading", open # << >>, NEW key, NEW p, NEW o, NEW st,
         Reportable(p, o), Report(key, p, o),
         AppendChild(NarrowedAll(Known(p, o)), key, p, st)
  PROVE  heap' = NarrowedAll(doc') /\ parse_stack' = st /\ outcome' = outcome
<1> DEFINE k == Known(p, o)
           h == NarrowedAll(k)
           top == Last(open)
<1>1. parse_stack = open /\ DocOK
  BY DEF Following, StackIsNesting
<1>2. IsHeap(k) /\ top \in DOMAIN k /\ k[top].type \in Containers
  BY <1>1, OpenTop, KnownHeap
<1>3. top \in DOMAIN h /\ h[top].type \in Containers
  BY <1>2, NarrowedHeap
<1>4. NarrowedAll(Child(k, top, key, p)) = Child(h, top, key, p)
  BY <1>2, NarrowedChild
<1>5. doc' = Child(k, top, key, p)
  BY <1>1, ReportedHeap
<1> HIDE DEF h, k
<1>6. heap' = Child(h, Last(parse_stack), key, p) /\ parse_stack' = st /\ outcome' = outcome
  <2>1. AppendChild(h, key, p, st)
    BY DEF h, k
  <2>2. Last(parse_stack) = top
    BY <1>1
  <2>3. QED
    BY <1>1, <1>3, <2>1, <2>2 DEF AppendChild
<1>7. QED
  BY <1>1, <1>4, <1>5, <1>6 DEF h, k

\* At the root there is nothing to append to.
LEMMA RootFollows ==
  ASSUME Following, outcome = "reading", open = << >>, root = << >>, NEW key, NEW p, NEW o,
         Reportable(p, o), Report(key, p, o), heap' = NarrowedAll(Known(p, o))
  PROVE  heap' = NarrowedAll(doc') /\ parse_stack = << >> /\ root' = <<p>>
<1>1. doc' = Known(p, o) /\ root' = <<p>>
  BY ReportedHeap DEF Following
<1>2. QED
  BY <1>1 DEF Following, StackIsNesting

\* The objects with one more, which the converter makes of what was reported.
LEMMA KnownMade ==
  ASSUME Following, outcome = "reading", NEW o, IsRecord(o)
  PROVE  /\ heap = NarrowedAll(Known(Null, o))
         /\ Made(heap, calls + 1, Narrowed(o)) = NarrowedAll(Known(calls + 1, o))
<1>1. heap = NarrowedAll(doc)
  BY DEF Following, ValueIsDocument, NarrowedAll
<1>2. calls + 1 # Null /\ IsHeap(doc)
  BY DEF Following, DocOK, Null
<1>3. QED
  BY <1>1, <1>2, NarrowedMade DEF Known

Invariant == Following /\ ValidDocumentsConvert

\* A call after which the stack is the nesting keeps the invariant.
LEMMA CallFollows ==
  ASSUME Invariant, outcome = "reading", DocOK',
         heap' = NarrowedAll(doc'), outcome' = outcome,
         parse_stack' = IF open' = << >> THEN root' ELSE open'
  PROVE  Invariant'
  BY DEF Invariant, Following, StackIsNesting, ValueIsDocument, ValidDocumentsConvert, NarrowedAll

\* A scalar or a null.
LEMMA AddValueFollows ==
  ASSUME NamedKeys, Invariant, outcome = "reading", NEW key \in NextKeys, NEW p, NEW o,
         Reportable(p, o), Report(key, p, o), AddValue(NarrowedAll(Known(p, o)), key, p),
         UNCHANGED open
  PROVE  Invariant'
<1>1. Following /\ DocOK /\ (open = << >> => root = << >>)
  BY RootHasNoKey DEF Invariant, Following
<1>2. DocOK'
  BY <1>1, ReportKeepsDocument
<1>3. CASE open = << >>
  <2>1. key = "" /\ root = << >>
    BY <1>3, RootHasNoKey
  <2>2. /\ heap' = NarrowedAll(Known(p, o)) /\ outcome' = outcome
        /\ parse_stack' = Append(parse_stack, p)
    BY <2>1 DEF AddValue
  <2>3. heap' = NarrowedAll(doc') /\ parse_stack = << >> /\ root' = <<p>>
    BY <1>1, <1>3, <2>1, <2>2, RootFollows
  <2>4. parse_stack' = <<p>>
    BY <2>2, <2>3
  <2>5. QED
    BY <1>2, <1>3, <2>2, <2>3, <2>4, CallFollows
<1>4. CASE open # << >>
  <2>1. key # ""
    BY <1>4, RootHasNoKey
  <2>2. AppendChild(NarrowedAll(Known(p, o)), key, p, parse_stack)
    BY <2>1 DEF AddValue
  <2>3. heap' = NarrowedAll(doc') /\ parse_stack' = parse_stack /\ outcome' = outcome
    BY <1>1, <1>4, <2>2, AppendChildFollows
  <2>4. parse_stack = open
    BY <1>1, <1>4 DEF Following, StackIsNesting
  <2>5. QED
    BY <1>2, <1>4, <2>3, <2>4, CallFollows
<1>5. QED
  BY <1>3, <1>4

\* A map or an array begins.
LEMMA HandleStartFollows ==
  ASSUME NamedKeys, Invariant, outcome = "reading", NEW key \in NextKeys,
         NEW o, IsRecord(o), o.type \in Containers, HandleStart(key, o)
  PROVE  Invariant'
<1> DEFINE p == calls + 1
           h == Made(heap, p, o)
           st == Append(parse_stack, p)
<1>1. Following /\ DocOK /\ (open = << >> => root = << >>)
  BY RootHasNoKey DEF Invariant, Following
<1>2. Reportable(p, o) /\ Report(key, p, o) /\ open' = Append(open, p) /\ p # Null
  <2>1. Report(key, p, o) /\ open' = Append(open, p)
    BY DEF HandleStart
  <2>2. p # Null
    BY <1>1 DEF DocOK, Null
  <2>3. Reportable(p, o)
    BY DEF Reportable
  <2>4. QED
    BY <2>1, <2>2, <2>3
<1>3. Narrowed(o) = o
  BY DEF Narrowed, Containers
<1>4. h = NarrowedAll(Known(p, o))
  BY <1>1, <1>3, KnownMade
<1>5. DocOK'
  <2> HIDE DEF p
  <2> QED
    BY <1>1, <1>2, ReportKeepsDocument
<1>6. open' # << >>
  BY <1>1, <1>2, Grow DEF DocOK
<1>7. CASE open = << >>
  <2>1. key = "" /\ root = << >>
    BY <1>7, RootHasNoKey
  <2>2. heap' = h /\ outcome' = outcome /\ parse_stack' = st
    BY <2>1 DEF HandleStart
  <2> HIDE DEF p, h
  <2>3. heap' = NarrowedAll(doc') /\ parse_stack = << >>
    BY <1>1, <1>2, <1>4, <1>7, <2>1, <2>2, RootFollows
  <2>4. parse_stack' = open'
    BY <1>2, <1>7, <2>2, <2>3
  <2>5. QED
    BY <1>5, <1>6, <2>2, <2>3, <2>4, CallFollows
<1>8. CASE open # << >>
  <2>1. key # ""
    BY <1>8, RootHasNoKey
  <2>2. AppendChild(h, key, p, st)
    BY <2>1 DEF HandleStart
  <2> HIDE DEF p, h
  <2>3. heap' = NarrowedAll(doc') /\ parse_stack' = st /\ outcome' = outcome
    BY <1>1, <1>2, <1>4, <1>8, <2>2, AppendChildFollows
  <2>4. st = open'
    BY <1>1, <1>2, <1>8 DEF Following, StackIsNesting
  <2>5. QED
    BY <1>5, <1>6, <2>3, <2>4, CallFollows
<1>9. QED
  BY <1>7, <1>8

\* Every report of a value.
LEMMA HandleFollows ==
  ASSUME NamedKeys, Invariant, outcome = "reading", NEW key \in NextKeys, Handle(key)
  PROVE  Invariant'
<1>1. ASSUME NEW o, IsRecord(o), Scalar(key, o, Narrowed(o))
      PROVE  Invariant'
  <2> DEFINE p == calls + 1
  <2>1. Following /\ Reportable(p, o)
    BY <1>1 DEF Invariant, Reportable
  <2>2. /\ Report(key, p, o) /\ UNCHANGED open
        /\ AddValue(Made(heap, p, Narrowed(o)), key, p)
    BY <1>1 DEF Scalar
  <2>3. Made(heap, p, Narrowed(o)) = NarrowedAll(Known(p, o))
    BY <1>1, <2>1, KnownMade
  <2> HIDE DEF p
  <2>4. QED
    BY <2>1, <2>2, <2>3, AddValueFollows
<1>2. CASE HandleString(key)
  <2>1. PICK t \in Texts : Scalar(key, Str(t), Str(t))
    BY <1>2 DEF HandleString
  <2>2. IsRecord(Str(t)) /\ Narrowed(Str(t)) = Str(t)
    BY DEF IsRecord, Narrowed, Str
  <2>3. QED
    BY <1>1, <2>1, <2>2
<1>3. CASE HandleInteger(key)
  <2>1. PICK i \in Numbers : Scalar(key, Unwrapped(i), Int32(i))
    BY <1>3 DEF HandleInteger
  <2>2. IsRecord(Unwrapped(i)) /\ Narrowed(Unwrapped(i)) = Int32(i)
    BY DEF IsRecord, Narrowed, Unwrapped
  <2>3. QED
    BY <1>1, <2>1, <2>2
<1>4. CASE HandleBoolean(key)
  <2>1. PICK b \in BOOLEAN : Scalar(key, Bool(b), Bool(b))
    BY <1>4 DEF HandleBoolean
  <2>2. IsRecord(Bool(b)) /\ Narrowed(Bool(b)) = Bool(b)
    BY DEF IsRecord, Narrowed, Bool
  <2>3. QED
    BY <1>1, <2>1, <2>2
<1>5. CASE HandleFloat(key)
  <2>1. PICK x \in Floats : Scalar(key, Float(x), Float(x))
    BY <1>5 DEF HandleFloat
  <2>2. IsRecord(Float(x)) /\ Narrowed(Float(x)) = Float(x)
    BY DEF IsRecord, Narrowed, Float
  <2>3. QED
    BY <1>1, <2>1, <2>2
<1>6. CASE HandleNull(key)
  <2>1. /\ Report(key, Null, Null) /\ UNCHANGED open /\ AddValue(heap, key, Null)
        /\ Following /\ Reportable(Null, Null)
    BY <1>6 DEF HandleNull, Invariant, Reportable
  <2>2. heap = NarrowedAll(Known(Null, Null))
    BY <2>1 DEF Following, ValueIsDocument, NarrowedAll, Known
  <2>3. QED
    BY <2>1, <2>2, AddValueFollows
<1>7. CASE HandleStart(key, Dict(Empty))
  <2>1. IsRecord(Dict(Empty)) /\ Dict(Empty).type \in Containers
    BY DEF IsRecord, Dict, Containers
  <2>2. QED
    BY <1>7, <2>1, HandleStartFollows
<1>8. CASE HandleStart(key, List(<< >>))
  <2>1. IsRecord(List(<< >>)) /\ List(<< >>).type \in Containers
    BY DEF IsRecord, List, Containers
  <2>2. QED
    BY <1>8, <2>1, HandleStartFollows
<1>9. QED
  BY <1>2, <1>3, <1>4, <1>5, <1>6, <1>7, <1>8 DEF Handle

\* A map or an array ends.
LEMMA HandleEndFollows ==
  ASSUME Invariant, outcome = "reading", HandleEnd
  PROVE  Invariant'
<1>1. /\ DocOK /\ open # << >> /\ parse_stack = open
      /\ open' = Front(open) /\ parse_stack' = Popped(open)
      /\ UNCHANGED <<doc, root, calls, heap, outcome>>
  BY DEF HandleEnd, Invariant, Following, StackIsNesting
<1>2. /\ open \in Seq(DOMAIN doc) /\ Front(open) \in Seq(DOMAIN doc) /\ Len(open) \in Nat \ {0}
      /\ \A i \in DOMAIN Front(open) : i \in DOMAIN open /\ Front(open)[i] = open[i]
      /\ Len(open) = 1 => open = <<open[1]>> /\ Front(open) = << >>
      /\ Len(open) > 1 => Front(open) # << >> /\ Front(open)[1] = open[1]
  BY <1>1, Ends, Shrink DEF DocOK
<1>3. DocOK'
  <2>1. open' # << >> => root' = <<open'[1]>>
    BY <1>1, <1>2 DEF DocOK
  <2>2. \A i \in DOMAIN open' : doc'[open'[i]].type \in Containers
    BY <1>1, <1>2 DEF DocOK
  <2>3. QED
    BY <1>1, <1>2, <2>1, <2>2 DEF DocOK, IsHeap, IsRecord
<1>4. parse_stack' = IF open' = << >> THEN root' ELSE open'
  <2>1. CASE Len(open) = 1
    BY <1>1, <1>2, <2>1 DEF Popped, DocOK
  <2>2. CASE Len(open) > 1
    BY <1>1, <1>2, <2>2 DEF Popped
  <2>3. Len(open) = 1 \/ Len(open) > 1
    <3>1. Len(open) \in Nat \ {0}
      BY <1>2
    <3>2. QED
      BY <3>1
  <2>4. QED
    BY <2>1, <2>2, <2>3
<1>5. heap' = NarrowedAll(doc')
  BY <1>1 DEF Invariant, Following, ValueIsDocument, NarrowedAll
<1>6. QED
  BY <1>1, <1>3, <1>4, <1>5, CallFollows

\* get_result finds the root alone on the stack.
LEMMA GetResultFollows ==
  ASSUME Invariant, outcome = "reading", GetResult
  PROVE  Invariant'
<1>1. /\ DocOK /\ open = << >> /\ parse_stack = root
      /\ UNCHANGED <<doc, open, root, calls>>
  BY DEF GetResult, Invariant, Following, StackIsNesting
<1>2. DocOK'
  BY <1>1 DEF DocOK, IsHeap, IsRecord
<1>3. CASE root = << >>
  <2>1. outcome' = "Json converter in an invalid child"
    <3>1. Len(parse_stack) # 1
      BY <1>1, <1>3
    <3>2. QED
      BY <3>1 DEF GetResult, Throw
  <2>2. QED
    BY <1>1, <1>2, <1>3, <2>1
    DEF Invariant, Following, StackIsNesting, ValueIsDocument, ValidDocumentsConvert
<1>4. CASE root # << >>
  <2>1. Len(parse_stack) = 1
    BY <1>1, <1>4 DEF DocOK
  <2>2. outcome' = "value" /\ UNCHANGED <<heap, parse_stack>>
    BY <2>1 DEF GetResult
  <2>3. QED
    BY <1>1, <1>2, <1>4, <2>2
    DEF Invariant, Following, StackIsNesting, ValueIsDocument, ValidDocumentsConvert
<1>5. QED
  BY <1>3, <1>4

LEMMA NextFollows ==
  ASSUME NamedKeys, Invariant, [ConverterNext]_converter
  PROVE  Invariant'
<1>1. CASE outcome = "reading" /\ \E key \in NextKeys : Handle(key)
  BY <1>1, HandleFollows
<1>2. CASE outcome = "reading" /\ HandleDatetime
  BY <1>2
  DEF HandleDatetime, Throw, Invariant, Following, StackIsNesting, ValueIsDocument,
      ValidDocumentsConvert, DocOK, IsHeap, IsRecord
<1>3. CASE outcome = "reading" /\ HandleEnd
  BY <1>3, HandleEndFollows
<1>4. CASE outcome = "reading" /\ GetResult
  BY <1>4, GetResultFollows
<1>5. CASE UNCHANGED converter
  BY <1>5
  DEF converter, Invariant, Following, StackIsNesting, ValueIsDocument,
      ValidDocumentsConvert, DocOK, IsHeap, IsRecord, Narrowed
<1>6. QED
  BY <1>1, <1>2, <1>3, <1>4, <1>5 DEF ConverterNext

LEMMA InitFollows ==
  ASSUME ConverterInit
  PROVE  Invariant
  BY DEF ConverterInit, Invariant, Following, StackIsNesting, ValueIsDocument,
         ValidDocumentsConvert, DocOK, IsHeap, Empty

\* The converter always knows where in the document it is ...
THEOREM StackIsNestingCorrect ==
  ASSUME NamedKeys PROVE ConverterSpec => []StackIsNesting
<1>1. ConverterInit => Invariant
  BY InitFollows
<1>2. Invariant /\ [ConverterNext]_converter => Invariant'
  BY NextFollows
<1>3. Invariant => StackIsNesting
  BY DEF Invariant, Following
<1>4. QED
  BY <1>1, <1>2, <1>3, PTL DEF ConverterSpec

\* ... builds each value in its place, with the root as the result ...
THEOREM ValueIsDocumentCorrect ==
  ASSUME NamedKeys PROVE ConverterSpec => []ValueIsDocument
<1>1. ConverterInit => Invariant
  BY InitFollows
<1>2. Invariant /\ [ConverterNext]_converter => Invariant'
  BY NextFollows
<1>3. Invariant => ValueIsDocument
  BY DEF Invariant, Following
<1>4. QED
  BY <1>1, <1>2, <1>3, PTL DEF ConverterSpec

\* ... and refuses nothing but an empty document and a date.
THEOREM ValidDocumentsConvertCorrect ==
  ASSUME NamedKeys PROVE ConverterSpec => []ValidDocumentsConvert
<1>1. ConverterInit => Invariant
  BY InitFollows
<1>2. Invariant /\ [ConverterNext]_converter => Invariant'
  BY NextFollows
<1>3. Invariant => ValidDocumentsConvert
  BY DEF Invariant
<1>4. QED
  BY <1>1, <1>2, <1>3, PTL DEF ConverterSpec

-----------------------------------------------------------------------------
(* Types, whatever the keys. *)

HeapOK(h, n) ==
  /\ IsHeap(h) /\ DOMAIN h \subseteq 1 .. n
  /\ \A q \in DOMAIN h : h[q].type = "Integer" => h[q].val \in Int32Range

Typed ==
  calls \in Nat /\ HeapOK(heap, calls) /\ parse_stack \in Seq(0 .. calls)

LEMMA ThrowTypes ==
  ASSUME calls' \in Nat, NEW msg, Throw(msg)
  PROVE  Typed'
  BY DEF Throw, Typed, HeapOK, IsHeap, Empty

LEMMA AppendChildTypes ==
  ASSUME Typed, calls' = calls + 1, NEW h, HeapOK(h, calls + 1), NEW key, NEW p, NEW st,
         st \in Seq(0 .. calls + 1), AppendChild(h, key, p, st)
  PROVE  Typed'
<1> DEFINE top == Last(parse_stack)
<1>1. calls' \in Nat
  BY DEF Typed
<1>2. CASE \E msg : Throw(msg)
  BY <1>1, <1>2, ThrowTypes
<1>3. CASE /\ top \in DOMAIN h /\ h[top].type \in Containers
           /\ heap' = Child(h, top, key, p) /\ parse_stack' = st
  <2>1. IsHeap(h)
    BY DEF HeapOK
  <2>2. /\ IsHeap(heap') /\ DOMAIN heap' = DOMAIN h
        /\ \A q \in DOMAIN h : heap'[q].type = h[q].type
        /\ \A q \in DOMAIN h : q # top => heap'[q] = h[q]
    BY <1>3, <2>1, ChildHeap
  <2>3. h[top].type # "Integer"
    BY <1>3 DEF Containers
  <2>4. HeapOK(heap', calls')
    BY <2>2, <2>3 DEF HeapOK
  <2>5. QED
    BY <1>1, <1>3, <2>4 DEF Typed, HeapOK, IsHeap, IsRecord
<1>4. QED
  BY <1>2, <1>3 DEF AppendChild

LEMMA AddValueTypes ==
  ASSUME Typed, calls' = calls + 1, NEW h, HeapOK(h, calls + 1), NEW key,
         NEW p \in 0 .. calls + 1, AddValue(h, key, p)
  PROVE  Typed'
<1>1. 0 .. calls \subseteq 0 .. calls + 1 /\ parse_stack \in Seq(0 .. calls)
  BY DEF Typed
<1>2. parse_stack \in Seq(0 .. calls + 1) /\ Append(parse_stack, p) \in Seq(0 .. calls + 1)
  BY <1>1, Grow, ZenonT(40)
<1>3. CASE key = ""
  <2> DEFINE st == Append(parse_stack, p)
  <2>1. heap' = h /\ parse_stack' = st
    BY <1>3 DEF AddValue
  <2>2. calls' \in Nat /\ st \in Seq(0 .. calls + 1)
    BY <1>2 DEF Typed
  <2> HIDE DEF st
  <2>3. QED
    BY <2>1, <2>2 DEF Typed, HeapOK, IsHeap, IsRecord
<1>4. CASE key # ""
  BY <1>2, <1>4, AppendChildTypes DEF AddValue
<1>5. QED
  BY <1>3, <1>4

LEMMA MadeTypes ==
  ASSUME Typed, NEW o, IsRecord(o), o.type = "Integer" => o.val \in Int32Range
  PROVE  HeapOK(Made(heap, calls + 1, o), calls + 1)
  BY DEF Typed, HeapOK, IsHeap, Made, Put

LEMMA HandleTypes ==
  ASSUME Typed, NEW key, Handle(key)
  PROVE  Typed'
<1> DEFINE p == calls + 1
<1>1. p \in 0 .. calls + 1
  BY DEF Typed
<1>2. ASSUME NEW said, NEW o, IsRecord(o), o.type = "Integer" => o.val \in Int32Range,
             Scalar(key, said, o)
      PROVE  Typed'
  <2>1. calls' = calls + 1 /\ AddValue(Made(heap, p, o), key, p)
    BY <1>2 DEF Scalar, Report
  <2>2. HeapOK(Made(heap, p, o), calls + 1)
    BY <1>2, MadeTypes
  <2>3. QED
    BY <1>1, <2>1, <2>2, AddValueTypes
<1>3. ASSUME NEW o, IsRecord(o), o.type # "Integer", HandleStart(key, o)
      PROVE  Typed'
  <2> DEFINE h == Made(heap, p, o)
             st == Append(parse_stack, p)
  <2>1. calls' = calls + 1 /\ HeapOK(h, calls + 1)
    BY <1>3, MadeTypes DEF HandleStart, Report
  <2>2. st \in Seq(0 .. calls + 1)
    <3>1. 0 .. calls \subseteq 0 .. calls + 1 /\ parse_stack \in Seq(0 .. calls)
      BY DEF Typed
    <3>2. QED
      BY <1>1, <3>1, Grow
  <2>3. CASE key = ""
    <3>1. heap' = h /\ parse_stack' = st
      BY <1>3, <2>3 DEF HandleStart
    <3> HIDE DEF h, st, p
    <3>2. QED
      BY <2>1, <2>2, <3>1 DEF Typed, HeapOK, IsHeap, IsRecord
  <2>4. CASE key # ""
    <3>1. AppendChild(h, key, p, st)
      BY <1>3, <2>4 DEF HandleStart
    <3> HIDE DEF h, st, p
    <3>2. QED
      BY <2>1, <2>2, <3>1, AppendChildTypes
  <2>5. QED
    BY <2>3, <2>4
<1>4. CASE HandleString(key)
  <2>1. PICK t \in Texts : Scalar(key, Str(t), Str(t))
    BY <1>4 DEF HandleString
  <2>2. IsRecord(Str(t)) /\ Str(t).type # "Integer"
    BY DEF IsRecord, Str
  <2>3. QED
    BY <1>2, <2>1, <2>2
<1>5. CASE HandleInteger(key)
  <2>1. PICK i \in Numbers : Scalar(key, Unwrapped(i), Int32(i))
    BY <1>5 DEF HandleInteger
  <2>2. Wrap(i) \in Int32Range
    BY NumbersAreIntegers, IntRange DEF Wrap, Int32Range
  <2>3. IsRecord(Int32(i)) /\ Int32(i).val \in Int32Range
    BY <2>2 DEF IsRecord, Int32
  <2>4. QED
    BY <1>2, <2>1, <2>3
<1>6. CASE HandleBoolean(key)
  <2>1. PICK b \in BOOLEAN : Scalar(key, Bool(b), Bool(b))
    BY <1>6 DEF HandleBoolean
  <2>2. IsRecord(Bool(b)) /\ Bool(b).type # "Integer"
    BY DEF IsRecord, Bool
  <2>3. QED
    BY <1>2, <2>1, <2>2
<1>7. CASE HandleFloat(key)
  <2>1. PICK x \in Floats : Scalar(key, Float(x), Float(x))
    BY <1>7 DEF HandleFloat
  <2>2. IsRecord(Float(x)) /\ Float(x).type # "Integer"
    BY DEF IsRecord, Float
  <2>3. QED
    BY <1>2, <2>1, <2>2
<1>8. CASE HandleNull(key)
  <2>1. calls' = calls + 1 /\ AddValue(heap, key, Null)
    BY <1>8 DEF HandleNull, Report
  <2>2. HeapOK(heap, calls + 1) /\ Null \in 0 .. calls + 1
    BY DEF Typed, HeapOK, Null
  <2>3. QED
    BY <2>1, <2>2, AddValueTypes
<1>9. CASE HandleStart(key, Dict(Empty))
  <2>1. IsRecord(Dict(Empty)) /\ Dict(Empty).type # "Integer"
    BY DEF IsRecord, Dict
  <2>2. QED
    BY <1>3, <1>9, <2>1
<1>10. CASE HandleStart(key, List(<< >>))
  <2>1. IsRecord(List(<< >>)) /\ List(<< >>).type # "Integer"
    BY DEF IsRecord, List
  <2>2. QED
    BY <1>3, <1>10, <2>1
<1>11. QED
  BY <1>4, <1>5, <1>6, <1>7, <1>8, <1>9, <1>10 DEF Handle

\* The stack holds reported values and the objects have 32-bit integers,
\* also where an empty key leads the converter astray.
THEOREM ConverterTypeCorrect == ConverterSpec => []ConverterTypeOK
<1>1. ConverterInit => Typed
  BY DEF ConverterInit, Typed, HeapOK, IsHeap, Empty
<1>2. ASSUME Typed, [ConverterNext]_converter
      PROVE  Typed'
  <2>1. CASE \E key \in NextKeys : Handle(key)
    BY <1>2, <2>1, HandleTypes
  <2>2. CASE HandleDatetime
    BY <1>2, <2>2, ThrowTypes DEF HandleDatetime, Typed
  <2>3. CASE HandleEnd
    <3>1. /\ parse_stack \in Seq(0 .. calls) /\ parse_stack' = Popped(parse_stack)
          /\ UNCHANGED <<calls, heap>>
      BY <1>2, <2>3 DEF HandleEnd, Typed
    <3>2. Popped(parse_stack) \in Seq(0 .. calls)
      <4>1. Len(parse_stack) > 1 => parse_stack # << >>
        OBVIOUS
      <4>2. Len(parse_stack) > 1 => Front(parse_stack) \in Seq(0 .. calls)
        BY <3>1, <4>1, Ends
      <4>3. QED
        BY <3>1, <4>2 DEF Popped
    <3>3. QED
      BY <1>2, <3>1, <3>2 DEF Typed, HeapOK, IsHeap, IsRecord
  <2>4. CASE GetResult
    <3>1. CASE Len(parse_stack) # 1
      BY <1>2, <2>4, <3>1, ThrowTypes DEF GetResult, Typed
    <3>2. CASE Len(parse_stack) = 1
      BY <1>2, <2>4, <3>2 DEF GetResult, Typed, HeapOK, IsHeap, IsRecord
    <3>3. QED
      BY <3>1, <3>2
  <2>5. CASE UNCHANGED converter
    BY <1>2, <2>5 DEF converter, Typed, HeapOK, IsHeap, IsRecord
  <2>6. QED
    BY <1>2, <2>1, <2>2, <2>3, <2>4, <2>5 DEF ConverterNext
<1>3. Typed => ConverterTypeOK
  BY DEF Typed, HeapOK, ConverterTypeOK
<1>4. QED
  BY <1>1, <1>2, <1>3, PTL DEF ConverterSpec

-----------------------------------------------------------------------------
(* The document is a tree. *)

Kinds == { "String", "Integer", "Bool", "Float" } \cup Containers

Filled(o) ==
  /\ o.type \in Kinds
  /\ o.type = "List" => o.val \in Seq(Nat)
  /\ o.type = "Dictionary" => o.val = [k \in DOMAIN o.val |-> o.val[k]]

\* A value that is being reported has no children yet.
Bare(o) == IsRecord(o) /\ Filled(o) /\ (o.type \in Containers => DOMAIN o.val = {})

\* The keys or positions of a container's children.
Places(h, c) == IF h[c].type \in Containers THEN DOMAIN h[c].val ELSE {}

Closed(h, S) ==
  \A c \in S : \A k \in Places(h, c) : h[c].val[k] # Null => h[c].val[k] \in S

\* Every value is the root, or has one place in one container; and all of them
\* are below the root.
Tree(h, r) ==
  /\ \A q \in DOMAIN h : Filled(h[q])
  /\ r = << >> => DOMAIN h = {}
  /\ r # << >> => r[1] \in DOMAIN h \cup {Null}
  /\ \A c \in DOMAIN h : \A k \in Places(h, c) :
       h[c].val[k] # Null => h[c].val[k] \in DOMAIN h \ {r[1]}
  /\ \A c, d \in DOMAIN h : \A k \in Places(h, c) : \A l \in Places(h, d) :
       h[c].val[k] = h[d].val[l] /\ h[c].val[k] # Null => c = d /\ k = l
  /\ \A S \in SUBSET DOMAIN h : r[1] \in S /\ Closed(h, S) => S = DOMAIN h

\* Where a container's next child goes.
NextPlace(o, key) == IF o.type = "Dictionary" THEN key ELSE Len(o.val) + 1

\* One child more, at that place.
Adds(o, more, place, p) ==
  /\ Filled(more) /\ more.type = o.type
  /\ place \notin DOMAIN o.val /\ DOMAIN more.val = DOMAIN o.val \cup {place}
  /\ more.val[place] = p
  /\ \A k \in DOMAIN o.val : more.val[k] = o.val[k]

LEMMA GrownAdds ==
  ASSUME NEW o, Filled(o), o.type \in Containers, NEW key, NEW p \in Nat,
         o.type = "Dictionary" => key \notin DOMAIN o.val,
         NEW more, more = [type |-> o.type, val |-> Grown(o, key, p)]
  PROVE  Adds(o, more, NextPlace(o, key), p)
<1> DEFINE place == NextPlace(o, key)
           ty  == o.type
           v   == Grown(o, key, p)
<1>1. /\ place \notin DOMAIN o.val /\ DOMAIN v = DOMAIN o.val \cup {place}
      /\ v[place] = p /\ \A k \in DOMAIN o.val : v[k] = o.val[k]
      /\ ty = "List" => v \in Seq(Nat)
      /\ ty = "Dictionary" => v = [k \in DOMAIN v |-> v[k]]
  <2>1. CASE o.type = "Dictionary"
    BY <2>1 DEF Grown, Put, NextPlace
  <2>2. CASE o.type = "List"
    <3> DEFINE s == o.val
    <3>1. s \in Seq(Nat) /\ v = Append(s, p) /\ place = Len(s) + 1
      BY <2>2 DEF Grown, Filled, NextPlace
    <3> HIDE DEF s, v, place
    <3>2. /\ DOMAIN s = 1 .. Len(s) /\ Len(s) \in Nat /\ v \in Seq(Nat) /\ Len(v) = Len(s) + 1
          /\ DOMAIN v = 1 .. Len(s) + 1 /\ v[Len(s) + 1] = p
          /\ \A k \in 1 .. Len(s) : v[k] = s[k]
      BY <3>1, AppendProperties, LenProperties
    <3>3. place \notin DOMAIN s /\ DOMAIN v = DOMAIN s \cup {place} /\ v[place] = p
      BY <3>1, <3>2
    <3> QED
      BY <2>2, <3>2, <3>3 DEF s
  <2> QED
    BY <2>1, <2>2 DEF Containers
<1>2. ty \in Kinds
  BY DEF Filled
<1>3. more = [type |-> ty, val |-> v]
  OBVIOUS
<1> HIDE DEF ty, v, place
<1>4. more.type = ty /\ more.val = v
  BY <1>3
<1>5. Filled(more)
  BY <1>1, <1>2, <1>4 DEF Filled
<1> QED
  BY <1>1, <1>4, <1>5 DEF ty, v, place, Adds

\* The library never gives a map's key twice.
NewPlace(key) ==
  open # << >> /\ doc[Last(open)].type = "Dictionary" => key \notin DOMAIN doc[Last(open)].val

\* A report under a container adds one place to it, and one value.
LEMMA ReportAdds ==
  ASSUME DocOK, Tree(doc, root), open # << >>, NEW key, NewPlace(key), NEW p, NEW o,
         Reportable(p, o), Report(key, p, o)
  PROVE  LET c     == Last(open)
             place == NextPlace(doc[c], key)
         IN  /\ c \in DOMAIN doc /\ doc[c].type \in Containers /\ Adds(doc[c], doc'[c], place, p)
             /\ DOMAIN doc' = DOMAIN doc \cup ({p} \ {Null})
             /\ \A q \in DOMAIN doc \ {c} : doc'[q] = doc[q]
             /\ p # Null => p \notin DOMAIN doc /\ doc'[p] = o
             /\ p \in Nat /\ root' = root
<1> DEFINE c     == Last(open)
           place == NextPlace(doc[c], key)
           k0    == Known(p, o)
           new   == [type |-> doc[c].type, val |-> Grown(doc[c], key, p)]
<1>1. c \in DOMAIN doc /\ doc[c].type \in Containers
  BY OpenTop
<1>2. /\ IsHeap(k0)
      /\ \A q \in DOMAIN doc : q \in DOMAIN k0 /\ k0[q] = doc[q]
      /\ p # Null => p \in DOMAIN k0 /\ k0[p] = o
  BY KnownHeap
<1>3. doc' = Child(k0, c, key, p) /\ root' = root
  BY ReportedHeap
<1>4. p \in Nat /\ (p # Null => p \notin DOMAIN doc)
  BY DEF DocOK, Reportable, Null
<1>5. DOMAIN k0 = DOMAIN doc \cup ({p} \ {Null})
  <2>1. CASE p = Null
    BY <2>1 DEF Known
  <2>2. CASE p # Null
    BY <2>2 DEF Known, Made, Put
  <2> QED
    BY <2>1, <2>2
<1> HIDE DEF k0, c
<1>6. k0[c] = doc[c] /\ c \in DOMAIN k0
  BY <1>1, <1>2
<1>7. doc' = [q \in DOMAIN k0 |-> IF q = c THEN new ELSE k0[q]]
  BY <1>2, <1>3, <1>6, ChildObject
<1>8. Filled(doc[c]) /\ (doc[c].type = "Dictionary" => key \notin DOMAIN doc[c].val)
  BY <1>1 DEF Tree, NewPlace, c
<1>9. Adds(doc[c], new, place, p)
  BY <1>1, <1>4, <1>8, GrownAdds
<1> HIDE DEF new, place
<1>10. doc'[c] = new /\ DOMAIN doc' = DOMAIN k0 /\ \A q \in DOMAIN k0 \ {c} : doc'[q] = k0[q]
  BY <1>6, <1>7
<1>11. \A q \in DOMAIN doc \ {c} : doc'[q] = doc[q]
  BY <1>2, <1>10
<1>12. p # Null => doc'[p] = o
  BY <1>1, <1>2, <1>4, <1>10
<1> QED
  BY <1>1, <1>3, <1>4, <1>5, <1>9, <1>10, <1>11, <1>12 DEF c, place

\* Reports under a container keep the tree ...
LEMMA ChildKeepsTree ==
  ASSUME DocOK, Tree(doc, root), open # << >>, NEW key, NewPlace(key), NEW p, NEW o,
         Reportable(p, o), p # Null => Bare(o), Report(key, p, o)
  PROVE  Tree(doc', root')
<1> DEFINE c     == Last(open)
           place == NextPlace(doc[c], key)
           h     == doc'
<1>1. /\ c \in DOMAIN doc /\ doc[c].type \in Containers /\ h[c].type = doc[c].type
      /\ Filled(h[c])
      /\ place \notin DOMAIN doc[c].val /\ DOMAIN h[c].val = DOMAIN doc[c].val \cup {place}
      /\ h[c].val[place] = p
      /\ \A k \in DOMAIN doc[c].val : h[c].val[k] = doc[c].val[k]
      /\ DOMAIN h = DOMAIN doc \cup ({p} \ {Null})
      /\ \A q \in DOMAIN doc \ {c} : h[q] = doc[q]
      /\ p # Null => p \notin DOMAIN doc /\ h[p] = o
      /\ p \in Nat /\ root' = root
  BY ReportAdds DEF Adds
<1>2. root # << >> /\ root[1] \in DOMAIN doc
  <2>1. root = <<open[1]>> /\ open[1] \in DOMAIN doc
    BY DEF DocOK
  <2> QED
    BY <2>1
<1> HIDE DEF c, place, h
<1>3. /\ Places(h, c) = Places(doc, c) \cup {place} /\ place \notin Places(doc, c)
      /\ \A q \in DOMAIN doc \ {c} : Places(h, q) = Places(doc, q)
      /\ p # Null => Places(h, p) = {}
  BY <1>1 DEF Places, Bare
<1>4. \A q \in DOMAIN doc : \A k \in Places(doc, q) :
        k \in Places(h, q) /\ h[q].val[k] = doc[q].val[k]
  BY <1>1, <1>3 DEF Places
<1>5. \A q \in DOMAIN h : \A k \in Places(h, q) :
        \/ q = c /\ k = place /\ h[q].val[k] = p
        \/ q \in DOMAIN doc /\ k \in Places(doc, q) /\ h[q].val[k] = doc[q].val[k]
  BY <1>1, <1>3, <1>4
<1>6. \A q \in DOMAIN h : Filled(h[q])
  BY <1>1 DEF Tree, Bare
<1>7. \A q \in DOMAIN h : \A k \in Places(h, q) :
        h[q].val[k] # Null => h[q].val[k] \in DOMAIN h \ {root[1]}
  <2>1. \A q \in DOMAIN doc : \A k \in Places(doc, q) :
          doc[q].val[k] # Null => doc[q].val[k] \in DOMAIN doc \ {root[1]}
    BY DEF Tree
  <2> QED
    BY <1>1, <1>2, <1>5, <2>1
<1>8. ASSUME NEW q \in DOMAIN h, NEW d \in DOMAIN h, NEW k \in Places(h, q), NEW l \in Places(h, d),
             h[q].val[k] = h[d].val[l], h[q].val[k] # Null
      PROVE  q = d /\ k = l
  <2>1. \A a \in DOMAIN doc : \A j \in Places(doc, a) : doc[a].val[j] # Null => doc[a].val[j] # p
    BY <1>1 DEF Tree
  <2>2. CASE q \in DOMAIN doc /\ k \in Places(doc, q) /\ d \in DOMAIN doc /\ l \in Places(doc, d)
    <3>1. h[q].val[k] = doc[q].val[k] /\ h[d].val[l] = doc[d].val[l]
      BY <1>4, <2>2
    <3>2. doc[q].val[k] = doc[d].val[l] /\ doc[q].val[k] # Null
      BY <1>8, <3>1
    <3>3. \A a, b \in DOMAIN doc : \A i \in Places(doc, a) : \A j \in Places(doc, b) :
            doc[a].val[i] = doc[b].val[j] /\ doc[a].val[i] # Null => a = b /\ i = j
      BY DEF Tree
    <3> QED
      BY <2>2, <3>2, <3>3
  <2>3. CASE ~ (q \in DOMAIN doc /\ k \in Places(doc, q)) \/ ~ (d \in DOMAIN doc /\ l \in Places(doc, d))
    <3>1. \/ q = c /\ k = place /\ h[q].val[k] = p
          \/ q \in DOMAIN doc /\ k \in Places(doc, q) /\ h[q].val[k] = doc[q].val[k]
      BY <1>5
    <3>2. \/ d = c /\ l = place /\ h[d].val[l] = p
          \/ d \in DOMAIN doc /\ l \in Places(doc, d) /\ h[d].val[l] = doc[d].val[l]
      BY <1>5
    <3>3. CASE q = c /\ k = place /\ h[q].val[k] = p
      BY <1>8, <2>1, <3>2, <3>3
    <3>4. CASE d = c /\ l = place /\ h[d].val[l] = p
      BY <1>8, <2>1, <3>1, <3>4
    <3> QED
      BY <2>3, <3>1, <3>2, <3>3, <3>4
  <2> QED
    BY <2>2, <2>3
<1>9. ASSUME NEW S \in SUBSET DOMAIN h, root[1] \in S, Closed(h, S)
      PROVE  S = DOMAIN h
  <2> DEFINE T == S \cap DOMAIN doc
  <2>1. Closed(doc, T)
    <3> SUFFICES ASSUME NEW q \in T, NEW k \in Places(doc, q), doc[q].val[k] # Null
                 PROVE  doc[q].val[k] \in T
      BY DEF Closed
    <3>1. k \in Places(h, q) /\ h[q].val[k] = doc[q].val[k]
      BY <1>4
    <3>2. doc[q].val[k] \in S
      BY <1>9, <3>1 DEF Closed
    <3>3. doc[q].val[k] \in DOMAIN doc
      BY DEF Tree
    <3> QED
      BY <3>2, <3>3
  <2>2. T = DOMAIN doc
    <3>1. T \in SUBSET DOMAIN doc /\ root[1] \in T
      BY <1>2, <1>9
    <3> HIDE DEF T
    <3> QED
      BY <2>1, <3>1 DEF Tree
  <2>3. c \in S
    BY <1>1, <2>2
  <2>4. p # Null => p \in S
    BY <1>1, <1>3, <1>9, <2>3 DEF Closed
  <2> QED
    BY <1>1, <2>2, <2>4
<1>10. root' = root /\ root[1] \in DOMAIN h
  BY <1>1, <1>2
<1>11. Tree(h, root)
  BY <1>2, <1>6, <1>7, <1>8, <1>9, <1>10 DEF Tree
<1> QED
  BY <1>10, <1>11 DEF h

\* ... and the first report plants it.
LEMMA RootIsTree ==
  ASSUME DocOK, Tree(doc, root), open = << >>, root = << >>, NEW key, NEW p, NEW o,
         Reportable(p, o), p # Null => Bare(o), Report(key, p, o)
  PROVE  Tree(doc', root')
<1>1. doc' = Known(p, o) /\ root' = <<p>>
  BY ReportedHeap
<1>2. DOMAIN doc = {}
  BY DEF Tree
<1>3. DOMAIN doc' = {p} \ {Null} /\ (p # Null => doc'[p] = o)
  BY <1>1, <1>2 DEF Known, Made, Put
<1>4. p # Null => Places(doc', p) = {} /\ Filled(doc'[p])
  BY <1>3 DEF Places, Bare
<1> DEFINE h == doc'
           r == root'
<1>5. DOMAIN h = {p} \ {Null} /\ r # << >> /\ r[1] = p
  BY <1>1, <1>3
<1>6. \A q \in DOMAIN h : Places(h, q) = {} /\ Filled(h[q])
  BY <1>3, <1>4
<1> HIDE DEF h, r
<1>7. Tree(h, r)
  BY <1>5, <1>6 DEF Tree
<1> QED
  BY <1>7 DEF h, r

\* Any report keeps the tree.
LEMMA ReportKeepsTree ==
  ASSUME DocOK, Tree(doc, root), NEW key \in NextKeys, NEW p, NEW o,
         Reportable(p, o), p # Null => Bare(o), Report(key, p, o)
  PROVE  Tree(doc', root')
<1>1. CASE open = << >>
  <2>1. root = << >>
    BY <1>1 DEF NextKeys
  <2> QED
    BY <1>1, <2>1, RootIsTree
<1>2. CASE open # << >>
  <2>1. NewPlace(key)
    BY <1>2 DEF NextKeys, KeysOf, NewPlace
  <2> QED
    BY <1>2, <2>1, ChildKeepsTree
<1> QED
  BY <1>1, <1>2

\* What the library reports has no children yet.
LEMMA ReportedAreBare ==
  /\ \A t : Bare(Str(t)) /\ Bare(Unwrapped(t)) /\ Bare(Bool(t)) /\ Bare(Float(t))
  /\ Bare(Dict(Empty)) /\ Bare(List(<< >>))
<1>1. \A t : Bare(Str(t)) /\ Bare(Unwrapped(t)) /\ Bare(Bool(t)) /\ Bare(Float(t))
  BY DEF Bare, Filled, Kinds, Containers, IsRecord, Str, Unwrapped, Bool, Float
<1>2. Bare(Dict(Empty))
  BY DEF Bare, Filled, Kinds, Containers, IsRecord, Dict, Empty
<1>3. Bare(List(<< >>))
  <2>1. << >> \in Seq(Nat) /\ DOMAIN << >> = {}
    OBVIOUS
  <2> QED
    BY <2>1 DEF Bare, Filled, Kinds, Containers, IsRecord, List
<1> QED
  BY <1>1, <1>2, <1>3

LEMMA NextKeepsTree ==
  ASSUME DocOK, Tree(doc, root), [ConverterNext]_converter
  PROVE  Tree(doc', root')
<1> DEFINE p == calls + 1
<1>1. ASSUME NEW key \in NextKeys, NEW o, Report(key, p, o), Bare(o)
      PROVE  Tree(doc', root')
  <2>1. Reportable(p, o)
    BY <1>1 DEF Reportable, Bare
  <2> QED
    BY <1>1, <2>1, ReportKeepsTree
<1>2. ASSUME NEW key \in NextKeys, Handle(key)
      PROVE  Tree(doc', root')
  <2>1. ASSUME NEW said, NEW made, Scalar(key, said, made), Bare(said)
        PROVE  Tree(doc', root')
    BY <1>1, <2>1 DEF Scalar
  <2>2. CASE HandleString(key)
    BY <2>1, <2>2, ReportedAreBare DEF HandleString
  <2>3. CASE HandleInteger(key)
    BY <2>1, <2>3, ReportedAreBare DEF HandleInteger
  <2>4. CASE HandleBoolean(key)
    BY <2>1, <2>4, ReportedAreBare DEF HandleBoolean
  <2>5. CASE HandleFloat(key)
    BY <2>1, <2>5, ReportedAreBare DEF HandleFloat
  <2>6. CASE HandleNull(key)
    <3>1. Report(key, Null, Null) /\ Reportable(Null, Null)
      BY <2>6 DEF HandleNull, Reportable
    <3> QED
      BY <3>1, ReportKeepsTree
  <2>7. CASE HandleStart(key, Dict(Empty))
    BY <1>1, <2>7, ReportedAreBare DEF HandleStart
  <2>8. CASE HandleStart(key, List(<< >>))
    BY <1>1, <2>8, ReportedAreBare DEF HandleStart
  <2> QED
    BY <1>2, <2>2, <2>3, <2>4, <2>5, <2>6, <2>7, <2>8 DEF Handle
<1>3. CASE UNCHANGED <<doc, root>>
  BY <1>3
<1>4. CASE HandleDatetime \/ HandleEnd \/ GetResult \/ UNCHANGED converter
  BY <1>3, <1>4 DEF HandleDatetime, HandleEnd, GetResult, converter
<1> QED
  BY <1>2, <1>4 DEF ConverterNext

-----------------------------------------------------------------------------
(* What the writer has been told, as a part of the value. *)

\* The object o of which the children at the places ks have been written.
Children(o, ks) == [k \in ks |-> o.val[k]]

Part(o, ks) ==
  IF o.type \in Containers THEN [type |-> o.type, val |-> Children(o, ks)] ELSE o

\* Of the objects h below r, w has been written: t[q] are the places that have
\* been passed in q, for a list from its beginning, and what is written is r
\* and the values at these places.
Partial(h, r, w, t) ==
  /\ w = [q \in DOMAIN w |-> Part(h[q], t[q])]
  /\ DOMAIN w \subseteq DOMAIN h /\ r \in DOMAIN w
  /\ \A q \in DOMAIN w : t[q] \subseteq Places(h, q)
  /\ \A q \in DOMAIN w : h[q].type = "List" => \E n \in Nat : t[q] = 1 .. n
  /\ \A c \in DOMAIN w : \A k \in t[c] : h[c].val[k] \in DOMAIN w
  /\ \A q \in DOMAIN w \ {r} : \E c \in DOMAIN w : \E k \in t[c] : h[c].val[k] = q

LEMMA PartRecord ==
  ASSUME NEW o, IsRecord(o), NEW ks
  PROVE  IsRecord(Part(o, ks)) /\ Part(o, ks).type = o.type
<1> DEFINE ty == o.type
           v  == Children(o, ks)
<1>1. CASE ty \in Containers
  <2>1. Part(o, ks) = [type |-> ty, val |-> v]
    BY <1>1 DEF Part
  <2> HIDE DEF ty, v
  <2>2. IsRecord([type |-> ty, val |-> v]) /\ [type |-> ty, val |-> v].type = ty
    BY DEF IsRecord
  <2> QED
    BY <2>1, <2>2 DEF ty
<1>2. CASE ty \notin Containers
  BY <1>2 DEF Part
<1> QED
  BY <1>1, <1>2

\* A container begins empty.
LEMMA EmptiedPart ==
  ASSUME NEW o, o.type \in Containers
  PROVE  Emptied(o) = Part(o, {})
<1> DEFINE f == [k \in {} |-> o.val[k]]
<1>1. f = Empty /\ Children(o, {}) = f
  BY DEF Empty, Children
<1>2. f = << >>
  <2>1. f \in Seq(Nat) /\ Len(f) = 0
    <3>1. f \in [1 .. 0 -> Nat]
      OBVIOUS
    <3> HIDE DEF f
    <3>2. 0 \in Nat
      OBVIOUS
    <3> QED
      BY <3>1, <3>2, SeqDef, LenProperties
  <2> QED
    BY <2>1, EmptySeq
<1>3. Part(o, {}) = [type |-> o.type, val |-> f]
  BY <1>1 DEF Part
<1> HIDE DEF f
<1> QED
  BY <1>1, <1>2, <1>3 DEF Emptied, List, Dict, Containers

\* After the places ks comes k, and its child is told the writer with that key.
NextAt(o, ks, k, key) ==
  /\ k \in DOMAIN o.val \ ks
  /\ o.type = "Dictionary" => key = k
  /\ o.type = "List" => \E n \in Nat : ks = 1 .. n /\ k = n + 1

LEMMA GrownPart ==
  ASSUME NEW o, Filled(o), o.type \in Containers, NEW ks, NEW k, NEW key, NextAt(o, ks, k, key)
  PROVE  Grown(Part(o, ks), key, o.val[k]) = Children(o, ks \cup {k})
<1> USE DEF NextAt
<1> DEFINE f == [j \in ks |-> o.val[j]]
           p == o.val[k]
           g == [j \in ks \cup {k} |-> o.val[j]]
<1>1. Part(o, ks).type = o.type /\ Part(o, ks).val = f /\ g = Children(o, ks \cup {k})
  BY DEF Part, Children
<1>2. CASE o.type = "Dictionary"
  <2>1. Put(f, k, p) = g
    BY DEF Put
  <2> HIDE DEF f, g, p
  <2> QED
    BY <1>1, <1>2, <2>1 DEF Grown, p
<1>3. CASE o.type = "List"
  <2>1. PICK n \in Nat : ks = 1 .. n /\ k = n + 1
    BY <1>3
  <2> DEFINE s == o.val
  <2>2. s \in Seq(Nat) /\ n + 1 \in 1 .. Len(s)
    BY <1>3, <2>1, LenProperties DEF Filled
  <2>3. f = [j \in 1 .. n |-> s[j]] /\ p = s[n + 1] /\ g = [j \in 1 .. n + 1 |-> s[j]]
    <3>1. 1 .. n \cup {n + 1} = 1 .. n + 1
      OBVIOUS
    <3> QED
      BY <2>1, <3>1
  <2>4. Grown(Part(o, ks), key, o.val[k]) = Append(f, p)
    BY <1>1, <1>3 DEF Grown
  <2> HIDE DEF s, f, g, p
  <2>5. \A j \in 1 .. n + 1 : s[j] \in Nat
    <3>1. \A j \in 1 .. Len(s) : s[j] \in Nat
      BY <2>2, ElementOfSeq
    <3> QED
      BY <2>2, <3>1
  <2>6. f \in Seq(Nat) /\ Len(f) = n /\ g \in Seq(Nat) /\ Len(g) = n + 1 /\ p \in Nat
    <3>1. f \in [1 .. n -> Nat] /\ g \in [1 .. n + 1 -> Nat] /\ n + 1 \in Nat /\ p \in Nat
      BY <2>3, <2>5
    <3> QED
      BY <3>1, SeqDef, LenProperties
  <2>7. /\ Append(f, p) \in Seq(Nat) /\ Len(Append(f, p)) = n + 1
        /\ \A j \in 1 .. n : Append(f, p)[j] = f[j]
        /\ Append(f, p)[n + 1] = p
    BY <2>6, AppendProperties
  <2>8. \A j \in 1 .. n + 1 : Append(f, p)[j] = g[j]
    <3> TAKE j \in 1 .. n + 1
    <3>1. j \in 1 .. n \/ j = n + 1
      OBVIOUS
    <3> QED
      BY <2>3, <2>7, <3>1
  <2>9. Append(f, p) = g
    BY <2>6, <2>7, <2>8, SeqEqual
  <2> QED
    BY <1>1, <2>4, <2>9
<1> QED
  BY <1>2, <1>3 DEF Containers

\* The root, to begin with.
LEMMA RootWritten ==
  ASSUME NEW h, NEW r \in DOMAIN h
  PROVE  Partial(h, r, Put(Empty, r, Part(h[r], {})), [q \in {r} |-> {}])
<1> DEFINE w == Put(Empty, r, Part(h[r], {}))
           t == [q \in {r} |-> {}]
<1>1. DOMAIN w = {r} /\ w = [q \in {r} |-> Part(h[q], t[q])] /\ t[r] = {}
  BY DEF Put, Empty
<1>2. 0 \in Nat /\ {} = 1 .. 0
  OBVIOUS
<1> HIDE DEF w, t
<1> QED
  BY <1>1, <1>2 DEF Partial, w, t

\* The next child of a container, which begins without children of its own: it
\* has not been written before, since it has no other place.
Onwards(w, t, c, k, p) ==
  [q \in DOMAIN w \cup {p} |-> IF q = c THEN t[c] \cup {k} ELSE IF q = p THEN {} ELSE t[q]]

LEMMA ChildWritten ==
  ASSUME NEW h, IsHeap(h), NEW r, Tree(h, <<r>>), NEW w, NEW t, Partial(h, r, w, t),
         NEW c \in DOMAIN w, h[c].type \in Containers,
         NEW k, NEW key, NextAt(h[c], t[c], k, key), h[c].val[k] # Null
  PROVE  LET p == h[c].val[k]
             v == Child(Put(w, p, Part(h[p], {})), c, key, p)
         IN  /\ p \in DOMAIN h /\ p \notin DOMAIN w
             /\ DOMAIN v = DOMAIN w \cup {p} /\ Partial(h, r, v, Onwards(w, t, c, k, p))
<1> DEFINE p  == h[c].val[k]
           w1 == Put(w, p, Part(h[p], {}))
           w2 == Child(w1, c, key, p)
           t2 == Onwards(w, t, c, k, p)
<1>1. /\ w = [q \in DOMAIN w |-> Part(h[q], t[q])]
      /\ DOMAIN w \subseteq DOMAIN h /\ r \in DOMAIN w
      /\ \A q \in DOMAIN w : t[q] \subseteq Places(h, q)
      /\ \A q \in DOMAIN w : h[q].type = "List" => \E n \in Nat : t[q] = 1 .. n
      /\ \A a \in DOMAIN w : \A j \in t[a] : h[a].val[j] \in DOMAIN w
      /\ \A q \in DOMAIN w \ {r} : \E a \in DOMAIN w : \E j \in t[a] : h[a].val[j] = q
  BY DEF Partial
<1>2. c \in DOMAIN h /\ k \in Places(h, c) /\ k \in DOMAIN h[c].val /\ k \notin t[c]
  BY <1>1 DEF Places, NextAt
<1>3. p \in DOMAIN h /\ p # r
  BY <1>2 DEF Tree
<1>4. p \notin DOMAIN w
  <2> SUFFICES ASSUME p \in DOMAIN w PROVE FALSE
    OBVIOUS
  <2>1. PICK a \in DOMAIN w : \E j \in t[a] : h[a].val[j] = p
    BY <1>1, <1>3
  <2>2. PICK j \in t[a] : h[a].val[j] = p
    BY <2>1
  <2>3. a \in DOMAIN h /\ j \in Places(h, a)
    BY <1>1
  <2>4. \A a1, a2 \in DOMAIN h : \A i \in Places(h, a1) : \A l \in Places(h, a2) :
          h[a1].val[i] = h[a2].val[l] /\ h[a1].val[i] # Null => a1 = a2 /\ i = l
    BY DEF Tree
  <2>5. a = c /\ j = k
    BY <1>2, <2>2, <2>3, <2>4
  <2> QED
    BY <1>2, <2>5
<1>5. c # p
  BY <1>4
<1>6. \A q \in DOMAIN h : IsRecord(h[q]) /\ Filled(h[q])
  BY DEF IsHeap, Tree
<1>7. /\ DOMAIN w1 = DOMAIN w \cup {p} /\ w1[p] = Part(h[p], {}) /\ IsHeap(w1)
      /\ \A q \in DOMAIN w : w1[q] = Part(h[q], t[q])
  <2>1. w1 = [q \in DOMAIN w \cup {p} |-> IF q = p THEN Part(h[p], {}) ELSE w[q]]
    BY DEF Put
  <2>2. DOMAIN w1 = DOMAIN w \cup {p} /\ w1[p] = Part(h[p], {}) /\ w1 = [q \in DOMAIN w1 |-> w1[q]]
    BY <2>1
  <2>3. \A q \in DOMAIN w : w1[q] = Part(h[q], t[q])
    BY <1>1, <1>4, <2>1
  <2> HIDE DEF w1
  <2>4. \A q \in DOMAIN w1 : IsRecord(w1[q])
    <3> TAKE q \in DOMAIN w1
    <3>1. CASE q = p
      BY <1>3, <1>6, <2>2, <3>1, PartRecord
    <3>2. CASE q \in DOMAIN w
      BY <1>1, <1>6, <2>3, <3>2, PartRecord
    <3> QED
      BY <2>2, <3>1, <3>2
  <2> QED
    BY <2>2, <2>3, <2>4 DEF IsHeap
<1>8. h[c].type = "List" => \E n \in Nat : t[c] = 1 .. n /\ k = n + 1
  BY DEF NextAt
<1>9. Grown(Part(h[c], t[c]), key, p) = Children(h[c], t[c] \cup {k})
  <2> DEFINE o  == h[c]
             ks == t[c]
  <2>1. Filled(o) /\ o.type \in Containers /\ NextAt(o, ks, k, key) /\ p = o.val[k]
    BY <1>2, <1>6
  <2> HIDE DEF o, ks, p, w1, w2, t2
  <2>2. Grown(Part(o, ks), key, o.val[k]) = Children(o, ks \cup {k})
    BY <2>1, GrownPart
  <2> QED
    BY <2>1, <2>2 DEF o, ks
<1> HIDE DEF w1, w2
<1>10. w2 = [q \in DOMAIN w \cup {p} |-> Part(h[q], t2[q])]
  <2> DEFINE o == [type |-> w1[c].type, val |-> Grown(w1[c], key, p)]
  <2>1. w2 = [q \in DOMAIN w1 |-> IF q = c THEN o ELSE w1[q]]
    BY <1>7, ChildObject DEF w2
  <2>2. w1[c] = Part(h[c], t[c]) /\ w1[c].type = h[c].type
    BY <1>2, <1>6, <1>7, PartRecord
  <2>3. t2[c] = t[c] \cup {k} /\ t2[p] = {} /\ \A q \in DOMAIN w \ {c} : t2[q] = t[q]
    BY <1>4, <1>5 DEF Onwards
  <2>4. o = Part(h[c], t2[c])
    <3>1. Part(h[c], t2[c]) = [type |-> h[c].type, val |-> Children(h[c], t2[c])]
      BY DEF Part
    <3> QED
      BY <1>9, <2>2, <2>3, <3>1
  <2> HIDE DEF o, t2, p
  <2>5. \A q \in DOMAIN w \cup {p} : (IF q = c THEN o ELSE w1[q]) = Part(h[q], t2[q])
    BY <1>5, <1>7, <2>3, <2>4
  <2> QED
    BY <1>7, <2>1, <2>5
<1>11. DOMAIN w2 = DOMAIN w \cup {p}
  BY <1>10
<1>12. /\ t2[c] = t[c] \cup {k} /\ t2[p] = {} /\ \A q \in DOMAIN w \ {c} : t2[q] = t[q]
  BY <1>4, <1>5 DEF Onwards
<1> HIDE DEF t2
<1>13. \A q \in DOMAIN w : t[q] \subseteq t2[q]
  BY <1>12
<1>14. Partial(h, r, w2, t2)
  <2>1. \A q \in DOMAIN w2 : t2[q] \subseteq Places(h, q)
    <3> TAKE q \in DOMAIN w2
    <3>1. CASE q = c
      <4>1. t[c] \subseteq Places(h, c) /\ k \in Places(h, c) /\ t2[q] = t[c] \cup {k}
        BY <1>1, <1>2, <1>12, <3>1
      <4> QED
        BY <3>1, <4>1
    <3>2. CASE q = p
      BY <1>12, <3>2
    <3>3. CASE q \in DOMAIN w \ {c}
      BY <1>1, <1>12, <3>3
    <3> QED
      BY <1>11, <3>1, <3>2, <3>3
  <2>2. \A q \in DOMAIN w2 : h[q].type = "List" => \E n \in Nat : t2[q] = 1 .. n
    <3> SUFFICES ASSUME NEW q \in DOMAIN w2, h[q].type = "List"
                 PROVE  \E n \in Nat : t2[q] = 1 .. n
      OBVIOUS
    <3>1. CASE q = c
      <4>1. PICK n \in Nat : t[c] = 1 .. n /\ k = n + 1
        BY <1>8, <3>1
      <4>2. (1 .. n) \cup {n + 1} = 1 .. n + 1 /\ n + 1 \in Nat
        OBVIOUS
      <4>3. t2[q] = 1 .. n + 1
        BY <1>12, <3>1, <4>1, <4>2
      <4> QED
        BY <4>2, <4>3
    <3>2. CASE q = p
      <4>1. t2[q] = 1 .. 0 /\ 0 \in Nat
        BY <1>12, <3>2
      <4> QED
        BY <4>1
    <3>3. CASE q \in DOMAIN w \ {c}
      BY <1>1, <1>12, <3>3
    <3> QED
      BY <1>11, <3>1, <3>2, <3>3
  <2>3. ASSUME NEW a \in DOMAIN w2, NEW j \in t2[a]
        PROVE  h[a].val[j] \in DOMAIN w2
    <3>1. CASE a \in DOMAIN w /\ j \in t[a]
      BY <1>1, <1>11, <3>1
    <3>2. CASE a = c /\ j = k
      BY <1>11, <3>2
    <3> QED
      BY <1>11, <1>12, <3>1, <3>2
  <2>4. \A q \in DOMAIN w2 \ {r} : \E a \in DOMAIN w2 : \E j \in t2[a] : h[a].val[j] = q
    <3> SUFFICES ASSUME NEW q \in DOMAIN w2 \ {r}
                 PROVE  \E a \in DOMAIN w2 : \E j \in t2[a] : h[a].val[j] = q
      OBVIOUS
    <3>1. CASE q = p
      <4>1. c \in DOMAIN w2 /\ k \in t2[c] /\ h[c].val[k] = q
        BY <1>11, <1>12, <3>1
      <4> QED
        BY <4>1
    <3>2. CASE q \in DOMAIN w
      <4>1. PICK a \in DOMAIN w : \E j \in t[a] : h[a].val[j] = q
        BY <1>1, <3>2
      <4> QED
        BY <1>11, <1>13, <4>1
    <3> QED
      BY <1>11, <3>1, <3>2
  <2>5. DOMAIN w2 \subseteq DOMAIN h /\ r \in DOMAIN w2
    BY <1>1, <1>3, <1>11
  <2> QED
    BY <1>10, <1>11, <2>1, <2>2, <2>3, <2>4, <2>5 DEF Partial
<1> QED
  BY <1>3, <1>4, <1>11, <1>14 DEF w1, w2, t2

-----------------------------------------------------------------------------
(* The activations of value_to_bdoc. *)

Activations(h) == UNION { [of : {c}, left : SUBSET Places(h, c)] : c \in DOMAIN h }

\* The places of q that no activation has left.
Passed(h, S, q) ==
  { k \in Places(h, q) : \A i \in DOMAIN S : S[i].of = q => k \notin S[i].left }

\* The activations S are in different containers, those that have begun in the
\* writer, N, and not ended.
Walking(h, w, S, N) ==
  /\ S \in Seq(Activations(h)) /\ N \in Seq(DOMAIN h) /\ Len(N) = Len(S)
  /\ \A i \in DOMAIN S :
       S[i].of \in DOMAIN w /\ h[S[i].of].type \in Containers /\ N[i] = S[i].of
  /\ \A i, j \in DOMAIN S : S[i].of = S[j].of => i = j

\* One activation.
LEMMA Activation ==
  ASSUME NEW h, NEW f
  PROVE  f \in Activations(h) <=>
           f = [of |-> f.of, left |-> f.left] /\ f.of \in DOMAIN h /\ f.left \subseteq Places(h, f.of)
  BY DEF Activations

\* What the innermost activation has left is what it has not passed.
LEMMA Innermost ==
  ASSUME NEW h, NEW w, NEW S, NEW N, Walking(h, w, S, N), S # << >>
  PROVE  /\ Last(S).of \in DOMAIN h \cap DOMAIN w /\ h[Last(S).of].type \in Containers
         /\ Last(S) = [of |-> Last(S).of, left |-> Last(S).left]
         /\ Last(S).left = Places(h, Last(S).of) \ Passed(h, S, Last(S).of)
         /\ N # << >> /\ Last(N) = Last(S).of
<1> DEFINE f == Last(S)
           n == Len(S)
<1>1. /\ S \in Seq(Activations(h)) /\ N \in Seq(DOMAIN h) /\ Len(N) = n
      /\ \A i \in DOMAIN S :
           S[i].of \in DOMAIN w /\ h[S[i].of].type \in Containers /\ N[i] = S[i].of
      /\ \A i, j \in DOMAIN S : S[i].of = S[j].of => i = j
  BY DEF Walking
<1>2. f \in Activations(h) /\ n \in Nat \ {0} /\ f = S[n] /\ n \in DOMAIN S
  BY <1>1, Ends, LenProperties DEF Last
<1>3. N # << >> /\ Last(N) = N[n]
  BY <1>1, <1>2, EmptySeq DEF Last
<1> HIDE DEF f, n
<1>4. f = [of |-> f.of, left |-> f.left] /\ f.of \in DOMAIN h /\ f.left \subseteq Places(h, f.of)
  BY <1>2, Activation
<1>5. \A i \in DOMAIN S : S[i].of = f.of => S[i].left = f.left
  BY <1>1, <1>2
<1>6. f.left = Places(h, f.of) \ Passed(h, S, f.of)
  <2>1. ASSUME NEW k \in f.left PROVE k \in Places(h, f.of) /\ k \notin Passed(h, S, f.of)
    BY <1>2, <1>4, <2>1 DEF Passed
  <2>2. ASSUME NEW k \in Places(h, f.of), k \notin Passed(h, S, f.of) PROVE k \in f.left
    BY <1>5, <2>2 DEF Passed
  <2> QED
    BY <2>1, <2>2
<1>7. f.of \in DOMAIN w /\ h[f.of].type \in Containers /\ N[n] = f.of
  BY <1>1, <1>2
<1> QED
  BY <1>3, <1>4, <1>6, <1>7 DEF f

LEMMA LeftLess ==
  ASSUME NEW f, NEW c, NEW l, f = [of |-> c, left |-> l], NEW k, NEW g,
         g = [f EXCEPT !.left = @ \ {k}]
  PROVE  g = [of |-> c, left |-> l \ {k}]
<1>1. \A m : [f EXCEPT !.left = m] = [of |-> c, left |-> m]
  OBVIOUS
<1>2. f.left = l
  OBVIOUS
<1>3. [f EXCEPT !.left = f.left \ {k}] = [of |-> c, left |-> f.left \ {k}]
  BY <1>1
<1> QED
  BY <1>2, <1>3

\* A loop of value_to_bdoc goes on to the place k.
PassesAt(h, S, T, c, k) ==
  \A q \in DOMAIN h : Passed(h, T, q) = IF q = c THEN Passed(h, S, q) \cup {k} ELSE Passed(h, S, q)

LEMMA PlaceTaken ==
  ASSUME NEW h, NEW w, NEW S, NEW N, Walking(h, w, S, N), S # << >>, NEW k \in Last(S).left,
         NEW T, T = Append(Front(S), [Last(S) EXCEPT !.left = @ \ {k}])
  PROVE  Walking(h, w, T, N) /\ PassesAt(h, S, T, Last(S).of, k)
<1> DEFINE f == Last(S)
           g == [f EXCEPT !.left = @ \ {k}]
           n == Len(S)
<1>1. /\ S \in Seq(Activations(h)) /\ N \in Seq(DOMAIN h) /\ Len(N) = n
      /\ \A i \in DOMAIN S :
           S[i].of \in DOMAIN w /\ h[S[i].of].type \in Containers /\ N[i] = S[i].of
      /\ \A i, j \in DOMAIN S : S[i].of = S[j].of => i = j
  BY DEF Walking
<1>2. /\ f = [of |-> f.of, left |-> f.left] /\ f.of \in DOMAIN h
      /\ f.left = Places(h, f.of) \ Passed(h, S, f.of)
  BY Innermost
<1>3. g.of = f.of /\ g.left = f.left \ {k} /\ g \in Activations(h)
  <2> DEFINE c == f.of
             l == f.left
  <2>1. f = [of |-> c, left |-> l] /\ g = [f EXCEPT !.left = @ \ {k}]
    BY <1>2
  <2> HIDE DEF c, l, f, g
  <2>3. g = [of |-> c, left |-> l \ {k}]
    BY <2>1, LeftLess
  <2>4. g.of = c /\ g.left = l \ {k}
    BY <2>3
  <2>5. g.left \subseteq Places(h, g.of) /\ g.of \in DOMAIN h /\ g = [of |-> g.of, left |-> g.left]
    BY <1>2, <2>3, <2>4 DEF c, l
  <2> QED
    BY <2>4, <2>5, Activation DEF c, l
<1>4. /\ n \in Nat \ {0} /\ DOMAIN S = 1 .. n /\ S[n] = f
      /\ Front(S) \in Seq(Activations(h)) /\ Len(Front(S)) = n - 1
      /\ \A i \in 1 .. n - 1 : Front(S)[i] = S[i]
  BY <1>1, Ends, LenProperties DEF Last
<1> HIDE DEF f, g, n
<1>5. T = Append(Front(S), g)
  BY DEF f, g
<1>6. /\ T \in Seq(Activations(h)) /\ Len(T) = n /\ DOMAIN T = 1 .. n /\ T[n] = g
      /\ \A i \in 1 .. n - 1 : T[i] = S[i]
  BY <1>3, <1>4, <1>5, AppendProperties, LenProperties
<1>7. ASSUME NEW i \in 1 .. n PROVE T[i].of = S[i].of
  <2>1. i = n \/ i \in 1 .. n - 1
    BY <1>4
  <2> QED
    BY <1>3, <1>4, <1>6, <2>1
<1>8. Walking(h, w, T, N)
  BY <1>1, <1>4, <1>6, <1>7 DEF Walking, n
<1>9. ASSUME NEW q \in DOMAIN h
      PROVE  Passed(h, T, q) = IF q = f.of THEN Passed(h, S, q) \cup {k} ELSE Passed(h, S, q)
  <2>1. CASE q # f.of
    <3>1. \A i \in 1 .. n : S[i].of = q => T[i] = S[i]
      BY <1>4, <1>6, <2>1
    <3>2. \A j \in Places(h, q) : j \in Passed(h, T, q) <=> j \in Passed(h, S, q)
      BY <1>4, <1>6, <1>7, <3>1, ZenonT(40) DEF Passed
    <3> QED
      BY <2>1, <3>2 DEF Passed
  <2>2. CASE q = f.of
    <3>1. n \in DOMAIN S /\ S[n].of = q /\ \A i \in DOMAIN S : S[i].of = q => i = n
      BY <1>1, <1>4, <2>2
    <3>2. \A j \in Places(h, q) : j \in Passed(h, T, q) <=> j \notin g.left
      <4>1. n \in DOMAIN T /\ T[n] = g /\ T[n].of = q
        BY <1>4, <1>6, <1>7, <3>1
      <4>2. \A i \in DOMAIN T : T[i].of = q => i = n
        BY <1>4, <1>6, <1>7, <3>1
      <4> QED
        BY <4>1, <4>2 DEF Passed
    <3>3. k \in Places(h, q) /\ \A j \in Places(h, q) : j \in Passed(h, S, q) <=> j \notin f.left
      BY <1>2, <2>2 DEF f
    <3>4. \A j \in Places(h, q) : j \in Passed(h, T, q) <=> j \in Passed(h, S, q) \/ j = k
      BY <1>3, <3>2, <3>3
    <3>5. Passed(h, T, q) \subseteq Places(h, q) /\ Passed(h, S, q) \subseteq Places(h, q)
      BY DEF Passed
    <3> QED
      BY <2>2, <3>3, <3>4, <3>5
  <2> QED
    BY <2>1, <2>2
<1> QED
  BY <1>8, <1>9 DEF f, PassesAt

\* An activation begins for the container p.
Activated(h, p) == [of |-> p, left |-> Places(h, p)]

\* The activations T differ from S in that nothing of p has been passed.
BeginsAt(h, S, T, p) ==
  \A q \in DOMAIN h : Passed(h, T, q) = IF q = p THEN {} ELSE Passed(h, S, q)

LEMMA Started ==
  ASSUME NEW h, NEW w, NEW S, NEW N, Walking(h, w, S, N),
         NEW p \in DOMAIN h, p \notin DOMAIN w, h[p].type \in Containers,
         NEW v, DOMAIN w \subseteq DOMAIN v, p \in DOMAIN v,
         NEW T, T = Append(S, Activated(h, p))
  PROVE  /\ Walking(h, v, T, Append(N, p))
         /\ BeginsAt(h, S, T, p)
<1> DEFINE g == Activated(h, p)
           n == Len(S)
           M == Append(N, p)
<1>1. /\ S \in Seq(Activations(h)) /\ N \in Seq(DOMAIN h) /\ Len(N) = n
      /\ \A i \in DOMAIN S :
           S[i].of \in DOMAIN w /\ h[S[i].of].type \in Containers /\ N[i] = S[i].of
      /\ \A i, j \in DOMAIN S : S[i].of = S[j].of => i = j
  BY DEF Walking
<1>2. g.of = p /\ g.left = Places(h, p) /\ g = [of |-> g.of, left |-> g.left]
  BY DEF Activated
<1> HIDE DEF g, n, M
<1>3. g \in Activations(h)
  BY <1>2, Activation
<1>4. n \in Nat /\ DOMAIN S = 1 .. n
  BY <1>1, LenProperties DEF n
<1>5. /\ T \in Seq(Activations(h)) /\ Len(T) = n + 1 /\ DOMAIN T = 1 .. n + 1 /\ T[n + 1] = g
      /\ \A i \in 1 .. n : T[i] = S[i]
      /\ M \in Seq(DOMAIN h) /\ Len(M) = n + 1 /\ M[n + 1] = p
      /\ \A i \in 1 .. n : M[i] = N[i]
  <2>1. T = Append(S, g)
    BY DEF g
  <2> QED
    BY <1>1, <1>3, <1>4, <2>1, AppendProperties, LenProperties DEF n, M
<1>6. \A i \in DOMAIN T : i = n + 1 \/ i \in DOMAIN S
  BY <1>4, <1>5
<1>7. \A i \in DOMAIN S : S[i].of # p /\ T[i] = S[i] /\ M[i] = N[i]
  BY <1>1, <1>4, <1>5
<1>8. Walking(h, v, T, M)
  <2>1. ASSUME NEW i \in DOMAIN T
        PROVE  T[i].of \in DOMAIN v /\ h[T[i].of].type \in Containers /\ M[i] = T[i].of
    BY <1>1, <1>2, <1>5, <1>6, <1>7
  <2>2. ASSUME NEW i \in DOMAIN T, NEW j \in DOMAIN T, T[i].of = T[j].of
        PROVE  i = j
    BY <1>1, <1>2, <1>5, <1>6, <1>7, <2>2
  <2> QED
    BY <1>5, <2>1, <2>2 DEF Walking
<1>9. ASSUME NEW q \in DOMAIN h
      PROVE  Passed(h, T, q) = IF q = p THEN {} ELSE Passed(h, S, q)
  <2>1. n + 1 \in DOMAIN T /\ DOMAIN S \subseteq DOMAIN T
    BY <1>4, <1>5
  <2>2. CASE q = p
    BY <1>2, <1>5, <2>1, <2>2 DEF Passed
  <2>3. CASE q # p
    <3>1. \A i \in DOMAIN T : T[i].of = q => i \in DOMAIN S
      BY <1>2, <1>5, <1>6, <2>3
    <3>2. \A j \in Places(h, q) : j \in Passed(h, T, q) <=> j \in Passed(h, S, q)
      BY <1>7, <2>1, <3>1 DEF Passed
    <3> QED
      BY <2>3, <3>2 DEF Passed
  <2> QED
    BY <2>2, <2>3
<1> QED
  BY <1>8, <1>9 DEF M, BeginsAt

\* More is written, without an activation.
LEMMA Outlived ==
  ASSUME NEW h, NEW w, NEW S, NEW N, Walking(h, w, S, N), NEW v, DOMAIN w \subseteq DOMAIN v
  PROVE  Walking(h, v, S, N)
  BY DEF Walking

\* The innermost activation has come to its end.
LEMMA Finished ==
  ASSUME NEW h, NEW w, NEW S, NEW N, Walking(h, w, S, N), S # << >>, Last(S).left = {}
  PROVE  /\ Walking(h, w, Front(S), Front(N))
         /\ \A q \in DOMAIN h : Passed(h, Front(S), q) = Passed(h, S, q)
<1> DEFINE T == Front(S)
           M == Front(N)
           n == Len(S)
<1>1. /\ S \in Seq(Activations(h)) /\ N \in Seq(DOMAIN h) /\ Len(N) = n
      /\ \A i \in DOMAIN S :
           S[i].of \in DOMAIN w /\ h[S[i].of].type \in Containers /\ N[i] = S[i].of
      /\ \A i, j \in DOMAIN S : S[i].of = S[j].of => i = j
  BY DEF Walking
<1>2. /\ n \in Nat \ {0} /\ DOMAIN S = 1 .. n /\ S[n].left = {}
      /\ T \in Seq(Activations(h)) /\ Len(T) = n - 1 /\ DOMAIN T = 1 .. n - 1
      /\ \A i \in 1 .. n - 1 : T[i] = S[i]
  BY <1>1, Ends, LenProperties DEF Last
<1>3. /\ M \in Seq(DOMAIN h) /\ Len(M) = n - 1
      /\ \A i \in 1 .. n - 1 : M[i] = N[i]
  <2>1. N # << >>
    BY <1>1, <1>2, EmptySeq
  <2>2. Len(M) = Len(N) - 1 /\ M \in Seq(DOMAIN h) /\ \A i \in 1 .. Len(N) - 1 : M[i] = N[i]
    BY <1>1, <2>1, Ends
  <2> QED
    BY <1>1, <2>2
<1> HIDE DEF T, M, n
<1>4. /\ \A i \in DOMAIN T : i \in DOMAIN S /\ T[i] = S[i] /\ M[i] = N[i]
      /\ \A i \in DOMAIN S : i = n \/ i \in DOMAIN T
  BY <1>2, <1>3
<1>5. Walking(h, w, T, M)
  BY <1>1, <1>2, <1>3, <1>4 DEF Walking
<1>6. ASSUME NEW q \in DOMAIN h
      PROVE  Passed(h, T, q) = Passed(h, S, q)
  <2>1. \A j \in Places(h, q) : j \in Passed(h, T, q) <=> j \in Passed(h, S, q)
    BY <1>2, <1>4 DEF Passed
  <2> QED
    BY <2>1 DEF Passed
<1> QED
  BY <1>5, <1>6 DEF T, M

-----------------------------------------------------------------------------
(* The value that is written is the document that was read. *)

LEMMA NarrowedTree ==
  ASSUME NEW h, IsHeap(h), NEW r, Tree(h, r)
  PROVE  /\ Tree(NarrowedAll(h), r)
         /\ \A q \in DOMAIN h : h[q].type \in Containers => NarrowedAll(h)[q] = h[q]
<1> DEFINE n == NarrowedAll(h)
<1>1. /\ DOMAIN n = DOMAIN h /\ \A q \in DOMAIN h : n[q] = Narrowed(h[q]) /\ n[q].type = h[q].type
  BY NarrowedHeap
<1> HIDE DEF n
<1>2. \A q \in DOMAIN h : h[q].type # "Integer" => n[q] = h[q]
  BY <1>1 DEF Narrowed
<1>3. \A q \in DOMAIN h : h[q].type \in Containers => n[q] = h[q]
  BY <1>2 DEF Containers
<1>4. \A q \in DOMAIN h : Filled(n[q])
  <2> TAKE q \in DOMAIN h
  <2>1. Filled(h[q])
    BY DEF Tree
  <2>2. CASE h[q].type = "Integer"
    BY <1>1, <2>1, <2>2 DEF Filled
  <2> QED
    BY <1>2, <2>1, <2>2
<1>5. \A q \in DOMAIN h : Places(n, q) = Places(h, q)
  BY <1>1, <1>3 DEF Places
<1>6. \A q \in DOMAIN h : \A k \in Places(h, q) : n[q].val[k] = h[q].val[k]
  BY <1>3 DEF Places
<1>7. \A S \in SUBSET DOMAIN h : Closed(n, S) <=> Closed(h, S)
  BY <1>5, <1>6 DEF Closed
<1>8. Tree(n, r)
  <2>1. /\ r = << >> => DOMAIN h = {}
        /\ r # << >> => r[1] \in DOMAIN h \cup {Null}
    BY DEF Tree
  <2>2. \A c \in DOMAIN n : \A k \in Places(n, c) :
          n[c].val[k] # Null => n[c].val[k] \in DOMAIN n \ {r[1]}
    BY <1>1, <1>5, <1>6 DEF Tree
  <2>3. \A c, d \in DOMAIN n : \A k \in Places(n, c) : \A l \in Places(n, d) :
          n[c].val[k] = n[d].val[l] /\ n[c].val[k] # Null => c = d /\ k = l
    BY <1>1, <1>5, <1>6 DEF Tree
  <2>4. \A S \in SUBSET DOMAIN n : r[1] \in S /\ Closed(n, S) => S = DOMAIN n
    BY <1>1, <1>7 DEF Tree
  <2> QED
    BY <1>1, <1>4, <2>1, <2>2, <2>3, <2>4 DEF Tree
<1> QED
  BY <1>3, <1>8 DEF n

-----------------------------------------------------------------------------
(* The writer. *)

\* The places that value_to_bdoc has passed in what is written.
Passes == [q \in DOMAIN written |-> Passed(heap, walk, q)]

Writing ==
  /\ Walking(heap, written, walk, nested)
  /\ Partial(heap, root[1], written, Passes)

\* The converter has made its value.
HeapIsTree ==
  /\ IsHeap(heap) /\ Null \notin DOMAIN heap
  /\ root # << >> /\ root = <<root[1]>> /\ parse_stack = root /\ Tree(heap, root)

\* A value that is not a container is written at once; for a container an
\* activation begins.
LEMMA BeginWrites ==
  ASSUME HeapIsTree, NEW key, NEW p \in DOMAIN heap, p \notin DOMAIN written,
         NEW st, Walking(heap, written, st, nested),
         Begin(key, p, st), ended' = "writing"
  PROVE  /\ Tell(key, p, Part(heap[p], {}))
         /\ DOMAIN written' = DOMAIN written \cup {p} =>
              /\ Walking(heap, written', walk', nested')
              /\ BeginsAt(heap, st, walk', p)
<1>1. p \in DOMAIN heap /\ (heap[p].type \in Written \/ heap[p].type \in Containers)
  BY DEF Begin, Refuse
<1>2. CASE heap[p].type \in Written
  <2>1. heap[p].type \notin Containers
    BY <1>2 DEF Written, Containers
  <2>2. Tell(key, p, heap[p]) /\ walk' = st /\ nested' = nested
    BY <1>2, <2>1 DEF Begin
  <2>3. Part(heap[p], {}) = heap[p]
    BY <2>1 DEF Part
  <2>4. \A q \in DOMAIN heap : q = p => Passed(heap, st, q) = {}
    BY <2>1 DEF Passed, Places
  <2> QED
    BY <2>2, <2>3, <2>4, Outlived DEF BeginsAt
<1>3. CASE heap[p].type \in Containers
  <2>1. heap[p].type \notin Written
    BY <1>3 DEF Written, Containers
  <2>2. /\ Tell(key, p, Emptied(heap[p])) /\ nested' = Append(nested, p)
        /\ walk' = Append(st, [of |-> p, left |-> DOMAIN heap[p].val])
    BY <1>3, <2>1 DEF Begin
  <2>3. Part(heap[p], {}) = Emptied(heap[p])
    BY <1>3, EmptiedPart
  <2>4. walk' = Append(st, Activated(heap, p))
    BY <1>3, <2>2 DEF Places, Activated
  <2>5. ASSUME NEW v, DOMAIN written \subseteq DOMAIN v, p \in DOMAIN v,
               NEW T, T = Append(st, Activated(heap, p))
        PROVE  Walking(heap, v, T, Append(nested, p)) /\ BeginsAt(heap, st, T, p)
    BY <1>3, <2>5, Started
  <2> QED
    BY <2>2, <2>3, <2>4, <2>5
<1> QED
  BY <1>1, <1>2, <1>3

\* The children that are next are those that the document's order demands.
LEMMA FirstIsNext ==
  ASSUME HeapIsTree, Writing, walk # << >>, NEW k \in First(Last(walk))
  PROVE  LET c == Last(walk).of
         IN  /\ c \in DOMAIN written /\ heap[c].type \in Containers
             /\ NextAt(heap[c], Passes[c], k, ChildKey(c, k))
<1> DEFINE f == Last(walk)
           c == f.of
           o == heap[c]
           t == Passes[c]
<1>1. /\ c \in DOMAIN heap /\ c \in DOMAIN written /\ o.type \in Containers
      /\ f.left = Places(heap, c) \ Passed(heap, walk, c)
  BY Innermost DEF Writing
<1>2. t = Passed(heap, walk, c) /\ Places(heap, c) = DOMAIN o.val
  BY <1>1 DEF Passes, Places
<1>3. k \in DOMAIN o.val \ t /\ \A j \in (DOMAIN o.val \ t) \ {k} : Earlier(c, k, j)
  BY <1>1, <1>2 DEF First
<1>4. o.type = "List" => \E n \in Nat : t = 1 .. n
  BY <1>1 DEF Writing, Partial
<1>5. Filled(o)
  BY <1>1 DEF HeapIsTree, Tree
<1>6. ASSUME o.type = "Dictionary"
      PROVE  NextAt(o, t, k, ChildKey(c, k))
  BY <1>3, <1>6 DEF NextAt, ChildKey
<1>7. ASSUME o.type = "List"
      PROVE  NextAt(o, t, k, ChildKey(c, k))
  <2>1. PICK n \in Nat : t = 1 .. n
    BY <1>4, <1>7
  <2>2. \A j \in (DOMAIN o.val \ (1 .. n)) \ {k} : k < j
    BY <1>3, <1>7, <2>1 DEF Earlier
  <2> HIDE DEF o, t
  <2>3. k \in DOMAIN o.val \ (1 .. n)
    BY <1>3, <2>1
  <2>4. k = n + 1
    <3>1. o.val \in Seq(Nat)
      BY <1>5, <1>7 DEF Filled
    <3>2. PICK l \in Nat : DOMAIN o.val = 1 .. l
      BY <3>1, LenProperties
    <3>3. k \in 1 .. l /\ ~ (k \in 1 .. n) /\ \A j \in (1 .. l) \ (1 .. n) : k = j \/ k < j
      BY <2>2, <2>3, <3>2
    <3>4. k > n /\ n + 1 \in (1 .. l) \ (1 .. n)
      BY <3>3
    <3> QED
      BY <3>3, <3>4
  <2> QED
    BY <1>3, <1>7, <2>1, <2>4 DEF NextAt
<1> HIDE DEF o, t
<1>8. NextAt(o, t, k, ChildKey(c, k))
  BY <1>1, <1>6, <1>7 DEF Containers
<1> QED
  BY <1>1, <1>8 DEF o, t

LEMMA ChildKeepsWriting ==
  ASSUME HeapIsTree, Writing, WriteChild, ended' = "writing", UNCHANGED converter
  PROVE  Writing'
<1> DEFINE f == Last(walk)
           c == f.of
           t == Passes
<1>1. PICK k \in First(f) :
        Begin(ChildKey(c, k), heap[c].val[k], Append(Front(walk), [f EXCEPT !.left = @ \ {k}]))
  BY DEF WriteChild
<1> DEFINE p   == heap[c].val[k]
           key == ChildKey(c, k)
           st  == Append(Front(walk), [f EXCEPT !.left = @ \ {k}])
           v   == Child(Put(written, p, Part(heap[p], {})), c, key, p)
<1>2. walk # << >> /\ Walking(heap, written, walk, nested) /\ Partial(heap, root[1], written, t)
  BY DEF WriteChild, Writing
<1>3. c \in DOMAIN written /\ heap[c].type \in Containers /\ NextAt(heap[c], t[c], k, key)
  BY <1>2, FirstIsNext
<1>4. p \in DOMAIN heap /\ p # Null
  BY <1>1 DEF Begin, Refuse, HeapIsTree
<1>5. /\ p \notin DOMAIN written /\ DOMAIN v = DOMAIN written \cup {p}
      /\ Partial(heap, root[1], v, Onwards(written, t, c, k, p))
  <2>1. IsHeap(heap) /\ Tree(heap, <<root[1]>>)
    BY DEF HeapIsTree
  <2>2. NextAt(heap[c], t[c], k, key) /\ heap[c].val[k] # Null
    BY <1>3, <1>4
  <2> HIDE DEF t, c, key
  <2>3. ASSUME NEW r, r = root[1]
        PROVE  LET p1 == heap[c].val[k]
                   v1 == Child(Put(written, p1, Part(heap[p1], {})), c, key, p1)
               IN  /\ p1 \in DOMAIN heap /\ p1 \notin DOMAIN written
                   /\ DOMAIN v1 = DOMAIN written \cup {p1}
                   /\ Partial(heap, r, v1, Onwards(written, t, c, k, p1))
    <3>1. IsHeap(heap) /\ Tree(heap, <<r>>) /\ Partial(heap, r, written, t)
      BY <1>2, <2>1, <2>3
    <3> QED
      BY <1>3, <2>2, <3>1, ChildWritten
  <2> QED
    BY <2>3
<1>6. Walking(heap, written, st, nested) /\ PassesAt(heap, walk, st, c, k)
  <2>1. k \in f.left
    BY DEF First
  <2>2. ASSUME NEW T, T = st
        PROVE  Walking(heap, written, T, nested) /\ PassesAt(heap, walk, T, c, k)
    BY <1>2, <2>1, <2>2, PlaceTaken
  <2> QED
    BY <2>2
<1>7. nested # << >> /\ Last(nested) = c
  BY <1>2, Innermost
<1> HIDE DEF st, key, c, p, t
<1>8. /\ Tell(key, p, Part(heap[p], {}))
      /\ DOMAIN written' = DOMAIN written \cup {p} =>
           Walking(heap, written', walk', nested') /\ BeginsAt(heap, st, walk', p)
  <2>1. Begin(key, p, st)
    BY <1>1 DEF st, key, c, p
  <2> QED
    BY <1>4, <1>5, <1>6, <2>1, BeginWrites
<1>9. written' = v
  BY <1>7, <1>8 DEF Tell
<1>10. DOMAIN written' = DOMAIN written \cup {p} /\ heap' = heap /\ root' = root
  BY <1>5, <1>9 DEF converter
<1>11. Walking(heap, written', walk', nested') /\ BeginsAt(heap, st, walk', p)
  BY <1>8, <1>10
<1>12. Passes' = Onwards(written, t, c, k, p)
  <2>1. ASSUME NEW q \in DOMAIN written \cup {p}
        PROVE  Passed(heap, walk', q)
                 = IF q = c THEN t[c] \cup {k} ELSE IF q = p THEN {} ELSE t[q]
    <3>1. q \in DOMAIN heap /\ c # p
      BY <1>2, <1>3, <1>4, <1>5 DEF Partial
    <3>2. q \in DOMAIN written => t[q] = Passed(heap, walk, q)
      BY DEF t, Passes
    <3>3. Passed(heap, walk', q) = IF q = p THEN {} ELSE Passed(heap, st, q)
      BY <1>11, <3>1 DEF BeginsAt
    <3>4. Passed(heap, st, q)
            = IF q = c THEN Passed(heap, walk, q) \cup {k} ELSE Passed(heap, walk, q)
      BY <1>6, <3>1 DEF PassesAt
    <3> QED
      BY <3>1, <3>2, <3>3, <3>4
  <2>2. Passes' = [q \in DOMAIN written \cup {p} |-> Passed(heap, walk', q)]
    BY <1>10 DEF Passes
  <2> QED
    BY <2>1, <2>2 DEF Onwards
<1> QED
  BY <1>5, <1>9, <1>10, <1>11, <1>12 DEF Writing

\* The writer begins with the root.
LEMMA ValueKeepsWriting ==
  ASSUME HeapIsTree, written = Empty, walk = << >>, nested = << >>,
         WriteValue, ended' = "writing", UNCHANGED converter
  PROVE  Writing'
<1> DEFINE p == root[1]
           v == Put(Empty, p, Part(heap[p], {}))
<1>1. Begin("", p, << >>) /\ p \in DOMAIN heap
  BY DEF WriteValue, HeapIsTree, Begin, Refuse
<1>2. DOMAIN Empty = {} /\ DOMAIN v = {p}
  BY DEF Empty, Put
<1>3. Walking(heap, written, << >>, nested)
  <2>1. << >> \in Seq(Activations(heap)) /\ << >> \in Seq(DOMAIN heap) /\ DOMAIN << >> = {}
    BY EmptySeq, LenProperties
  <2> QED
    BY <2>1 DEF Walking
<1>4. Partial(heap, p, v, [q \in {p} |-> {}])
  BY <1>1, RootWritten
<1> HIDE DEF p, v
<1>5. /\ Tell("", p, Part(heap[p], {}))
      /\ DOMAIN written' = DOMAIN written \cup {p} =>
           Walking(heap, written', walk', nested') /\ BeginsAt(heap, << >>, walk', p)
  BY <1>1, <1>2, <1>3, BeginWrites
<1>6. written' = v /\ heap' = heap /\ root' = root
  BY <1>5 DEF Tell, v, converter
<1>7. Walking(heap, written', walk', nested') /\ BeginsAt(heap, << >>, walk', p)
  BY <1>2, <1>5, <1>6
<1>8. Passes' = [q \in {p} |-> {}]
  <2>1. Passed(heap, walk', p) = {}
    BY <1>1, <1>7 DEF BeginsAt
  <2> QED
    BY <1>2, <1>6, <2>1 DEF Passes
<1> QED
  BY <1>4, <1>6, <1>7, <1>8 DEF Writing, p

LEMMA EndKeepsWriting ==
  ASSUME HeapIsTree, Writing, WriteEnd, UNCHANGED converter
  PROVE  Writing'
<1>1. Walking(heap, written, walk, nested) /\ walk # << >> /\ Last(walk).left = {}
  BY DEF Writing, WriteEnd
<1>2. /\ Walking(heap, written, Front(walk), Front(nested))
      /\ \A q \in DOMAIN heap : Passed(heap, Front(walk), q) = Passed(heap, walk, q)
  BY <1>1, Finished
<1>3. /\ walk' = Front(walk) /\ nested' = Front(nested)
      /\ written' = written /\ heap' = heap /\ root' = root
  BY DEF WriteEnd, converter
<1>4. DOMAIN written \subseteq DOMAIN heap
  BY DEF Writing, Partial
<1>5. Passes' = Passes
  BY <1>2, <1>3, <1>4 DEF Passes
<1> QED
  BY <1>2, <1>3, <1>5 DEF Writing

\* An object is the part of it that has all its children.
LEMMA WholePart ==
  ASSUME NEW o, IsRecord(o), Filled(o), NEW ks, o.type \in Containers => ks = DOMAIN o.val
  PROVE  Part(o, ks) = o
<1>1. CASE o.type \notin Containers
  BY <1>1 DEF Part
<1>2. CASE o.type \in Containers
  <2> DEFINE s == o.val
             ty == o.type
  <2>1. Part(o, ks) = [type |-> ty, val |-> Children(o, ks)] /\ o = [type |-> ty, val |-> s]
    BY <1>2 DEF Part, IsRecord
  <2>2. Children(o, ks) = s
    <3>1. CASE o.type = "Dictionary"
      BY <1>2, <3>1 DEF Filled, Children
    <3>2. CASE o.type = "List"
      <4>1. s \in Seq(Nat)
        BY <3>2 DEF Filled
      <4> HIDE DEF s
      <4>2. s = [k \in DOMAIN s |-> s[k]]
        <5>1. s \in [1 .. Len(s) -> Nat]
          BY <4>1, LenProperties
        <5> QED
          BY <5>1
      <4> QED
        BY <1>2, <4>2 DEF Children, s
    <3> QED
      BY <1>2, <3>1, <3>2 DEF Containers
  <2> QED
    BY <2>1, <2>2
<1> QED
  BY <1>1, <1>2

\* When no activation is left, everything is written.
LEMMA AllIsWritten ==
  ASSUME HeapIsTree, Writing, walk = << >>
  PROVE  written = heap /\ nested = << >>
<1>1. \A q \in DOMAIN written : Passes[q] = Places(heap, q)
  BY DEF Passes, Passed
<1>2. /\ written = [q \in DOMAIN written |-> Part(heap[q], Passes[q])]
      /\ DOMAIN written \subseteq DOMAIN heap /\ root[1] \in DOMAIN written
      /\ \A c \in DOMAIN written : \A k \in Passes[c] : heap[c].val[k] \in DOMAIN written
  BY DEF Writing, Partial
<1>3. Closed(heap, DOMAIN written)
  BY <1>1, <1>2 DEF Closed
<1>4. DOMAIN written = DOMAIN heap
  BY <1>2, <1>3 DEF HeapIsTree, Tree
<1>5. ASSUME NEW q \in DOMAIN heap PROVE Part(heap[q], Passes[q]) = heap[q]
  <2>1. IsRecord(heap[q]) /\ Filled(heap[q])
    BY DEF HeapIsTree, IsHeap, Tree
  <2>2. heap[q].type \in Containers => Passes[q] = DOMAIN heap[q].val
    BY <1>1, <1>4 DEF Places
  <2> QED
    BY <2>1, <2>2, WholePart
<1>6. written = [q \in DOMAIN heap |-> heap[q]] /\ heap = [q \in DOMAIN heap |-> heap[q]]
  BY <1>2, <1>4, <1>5 DEF HeapIsTree, IsHeap
<1>7. nested = << >>
  <2>1. nested \in Seq(DOMAIN heap) /\ Len(nested) = 0
    BY DEF Writing, Walking
  <2> QED
    BY <2>1, EmptySeq
<1> QED
  BY <1>6, <1>7

-----------------------------------------------------------------------------
(* The converter and the writer. *)

WriterInv ==
  /\ Invariant /\ Tree(doc, root)
  /\ outcome # "value" => ended = "no"
  /\ ended = "no" => written = Empty /\ walk = << >> /\ nested = << >>
  /\ ended = "writing" => Writing
  /\ RoundTrip /\ RefusesForCause

\* What the converter has made when it is done.
LEMMA ValueIsTree ==
  ASSUME Invariant, Tree(doc, root), outcome = "value"
  PROVE  /\ HeapIsTree /\ DOMAIN heap = DOMAIN doc /\ heap = NarrowedAll(doc)
         /\ \A q \in DOMAIN doc : heap[q].type = doc[q].type
         /\ \A q \in DOMAIN doc : doc[q].type \in Containers => heap[q] = doc[q]
<1>1. heap = NarrowedAll(doc) /\ parse_stack = root /\ root # << >> /\ DocOK
  BY DEF Invariant, Following, ValueIsDocument, NarrowedAll
<1>2. IsHeap(doc) /\ calls \in Nat /\ DOMAIN doc \subseteq 1 .. calls
  BY <1>1 DEF DocOK
<1>3. root = <<root[1]>>
  <2>1. PICK r \in 0 .. calls : root = <<r>>
    BY <1>1 DEF DocOK
  <2> QED
    BY <2>1
<1>4. /\ IsHeap(heap) /\ DOMAIN heap = DOMAIN doc
      /\ \A q \in DOMAIN doc : heap[q].type = doc[q].type
  BY <1>1, <1>2, NarrowedHeap
<1>5. /\ Tree(heap, root)
      /\ \A q \in DOMAIN doc : doc[q].type \in Containers => heap[q] = doc[q]
  BY <1>1, <1>2, NarrowedTree
<1>6. Null \notin DOMAIN heap
  BY <1>2, <1>4 DEF Null
<1> QED
  BY <1>1, <1>3, <1>4, <1>5, <1>6 DEF HeapIsTree

\* How value_to_bdoc may fail.
LEMMA BeginEnds ==
  ASSUME NEW key, NEW p, NEW st, Begin(key, p, st)
  PROVE  \/ ended' = "writing"
         \/ ended' = "null dereference" /\ p \notin DOMAIN heap
         \/ /\ ended' = "Unknown value type" /\ p \in DOMAIN heap
            /\ heap[p].type \notin Written /\ heap[p].type \notin Containers
  BY DEF Begin, Refuse

\* The cause is in the document.
LEMMA UnknownTypes ==
  ASSUME WriterInv, outcome = "value", NEW p \in DOMAIN heap,
         heap[p].type \notin Written, heap[p].type \notin Containers
  PROVE  \E q \in DOMAIN doc : doc[q].type \in { "Bool", "Float" }
<1>1. p \in DOMAIN doc /\ heap[p].type = doc[p].type /\ Filled(heap[p])
  BY ValueIsTree DEF WriterInv, HeapIsTree, Tree
<1>2. heap[p].type \in { "Bool", "Float" }
  BY <1>1 DEF Filled, Kinds, Written
<1> QED
  BY <1>1, <1>2

LEMMA ChildIsNull ==
  ASSUME WriterInv, outcome = "value", NEW c \in DOMAIN heap, heap[c].type \in Containers,
         NEW k \in DOMAIN heap[c].val, heap[c].val[k] \notin DOMAIN heap
  PROVE  \E q \in DOMAIN doc : Nulls(doc[q])
<1>1. c \in DOMAIN doc /\ heap[c] = doc[c] /\ Tree(heap, root)
  BY ValueIsTree DEF WriterInv, HeapIsTree
<1>2. k \in Places(heap, c)
  BY DEF Places
<1>3. heap[c].val[k] = Null
  BY <1>1, <1>2 DEF Tree
<1> QED
  BY <1>1, <1>3 DEF Nulls

LEMMA ConverterStands ==
  ASSUME Invariant, Tree(doc, root), UNCHANGED converter
  PROVE  Invariant' /\ Tree(doc, root)'
<1>1. Invariant'
  BY DEF converter, Invariant, Following, DocOK, StackIsNesting, ValueIsDocument,
         ValidDocumentsConvert, IsHeap, IsRecord, Narrowed
<1>2. doc' = doc /\ root' = root
  BY DEF converter
<1>3. Tree(doc', root')
  BY <1>2
<1> QED
  BY <1>1, <1>3

LEMMA WriteValueKeeps ==
  ASSUME WriterInv, outcome = "value", WriteValue, UNCHANGED converter
  PROVE  WriterInv'
<1>1. /\ HeapIsTree /\ ended = "no" /\ Begin("", parse_stack[1], << >>)
      /\ written = Empty /\ walk = << >> /\ nested = << >>
  BY ValueIsTree DEF WriterInv, WriteValue
<1>2. Invariant' /\ Tree(doc, root)' /\ UNCHANGED <<outcome, doc, root>>
  BY ConverterStands DEF WriterInv, converter
<1>3. CASE ended' = "writing"
  BY <1>1, <1>2, <1>3, ValueKeepsWriting DEF WriterInv, RoundTrip, RefusesForCause
<1>4. CASE ended' = "null dereference" /\ parse_stack[1] \notin DOMAIN heap
  <2>1. root = <<Null>>
    <3>1. root = <<root[1]>> /\ root # << >> /\ parse_stack = root
      BY <1>1 DEF HeapIsTree
    <3>2. root[1] \in DOMAIN heap \cup {Null} /\ root[1] \notin DOMAIN heap
      BY <1>1, <1>4, <3>1 DEF HeapIsTree, Tree
    <3>3. root[1] = Null
      BY <3>2
    <3> QED
      BY <3>1, <3>3
  <2> QED
    BY <1>2, <1>4, <2>1 DEF WriterInv, RoundTrip, RefusesForCause
<1>5. CASE /\ ended' = "Unknown value type" /\ parse_stack[1] \in DOMAIN heap
           /\ heap[parse_stack[1]].type \notin Written
           /\ heap[parse_stack[1]].type \notin Containers
  <2>1. \E q \in DOMAIN doc : doc[q].type \in { "Bool", "Float" }
    BY <1>5, UnknownTypes
  <2> QED
    BY <1>2, <1>5, <2>1 DEF WriterInv, RoundTrip, RefusesForCause
<1> QED
  BY <1>1, <1>3, <1>4, <1>5, BeginEnds

LEMMA WriteChildKeeps ==
  ASSUME WriterInv, outcome = "value", WriteChild, UNCHANGED converter
  PROVE  WriterInv'
<1> DEFINE f == Last(walk)
           c == f.of
<1>1. HeapIsTree /\ Writing /\ walk # << >>
  BY ValueIsTree DEF WriterInv, WriteChild
<1>2. Invariant' /\ Tree(doc, root)' /\ UNCHANGED <<outcome, doc, root>>
  BY ConverterStands DEF WriterInv, converter
<1>3. PICK k \in First(f) :
        Begin(ChildKey(c, k), heap[c].val[k], Append(Front(walk), [f EXCEPT !.left = @ \ {k}]))
  BY DEF WriteChild
<1>4. /\ c \in DOMAIN heap /\ heap[c].type \in Containers
      /\ k \in DOMAIN heap[c].val
  <2>1. c \in DOMAIN heap /\ heap[c].type \in Containers
    BY <1>1, Innermost DEF Writing
  <2>2. NextAt(heap[c], Passes[c], k, ChildKey(c, k))
    BY <1>1, FirstIsNext
  <2> QED
    BY <2>1, <2>2 DEF NextAt
<1> DEFINE p == heap[c].val[k]
<1>5. CASE ended' = "writing"
  BY <1>1, <1>2, <1>5, ChildKeepsWriting DEF WriterInv, RoundTrip, RefusesForCause
<1>6. CASE ended' = "null dereference" /\ p \notin DOMAIN heap
  <2>1. \E q \in DOMAIN doc : Nulls(doc[q])
    BY <1>4, <1>6, ChildIsNull
  <2>2. \E q \in DOMAIN doc' : Nulls(doc'[q])
    BY <1>2, <2>1
  <2> QED
    BY <1>2, <1>6, <2>2 DEF WriterInv, RoundTrip, RefusesForCause
<1>7. CASE /\ ended' = "Unknown value type" /\ p \in DOMAIN heap
           /\ heap[p].type \notin Written /\ heap[p].type \notin Containers
  <2>1. \E q \in DOMAIN doc : doc[q].type \in { "Bool", "Float" }
    BY <1>7, UnknownTypes
  <2> QED
    BY <1>2, <1>7, <2>1 DEF WriterInv, RoundTrip, RefusesForCause
<1> QED
  BY <1>3, <1>5, <1>6, <1>7, BeginEnds

LEMMA MakeDocumentKeeps ==
  ASSUME WriterInv, outcome = "value", MakeDocument, UNCHANGED converter
  PROVE  WriterInv'
<1>1. HeapIsTree /\ heap = NarrowedAll(doc) /\ Writing /\ walk = << >>
  BY ValueIsTree DEF WriterInv, MakeDocument
<1>2. Invariant' /\ Tree(doc, root)' /\ UNCHANGED <<outcome, doc, root>>
  BY ConverterStands DEF WriterInv, converter
<1>3. ended' = "document" /\ written' = NarrowedAll(doc) /\ nested' = << >>
  BY <1>1, AllIsWritten DEF MakeDocument
<1>4. RoundTrip'
  BY <1>2, <1>3 DEF RoundTrip, NarrowedAll, Narrowed
<1> QED
  BY <1>2, <1>3, <1>4 DEF WriterInv, RefusesForCause

LEMMA NextKeepsWriter ==
  ASSUME NamedKeys, WriterInv, [Next]_vars
  PROVE  WriterInv'
<1>1. CASE ConverterNext /\ UNCHANGED writer
  <2>1. Invariant' /\ Tree(doc, root)'
    BY <1>1, NextFollows, NextKeepsTree DEF WriterInv, Invariant, Following
  <2>2. ended = "no" /\ UNCHANGED <<walk, written, nested, ended>>
    BY <1>1 DEF WriterInv, ConverterNext, writer
  <2> QED
    BY <2>1, <2>2 DEF WriterInv, RoundTrip, RefusesForCause
<1>2. CASE Write
  <2>1. CASE WriteValue
    BY <1>2, <2>1, WriteValueKeeps DEF Write
  <2>2. CASE WriteChild
    BY <1>2, <2>2, WriteChildKeeps DEF Write
  <2>3. CASE WriteEnd
    <3>1. outcome = "value" /\ UNCHANGED converter
      BY <1>2 DEF Write
    <3>2. HeapIsTree /\ Writing /\ ended' = "writing"
      BY <2>3, <3>1, ValueIsTree DEF WriterInv, WriteEnd
    <3>3. Invariant' /\ Tree(doc, root)' /\ outcome' = outcome
      BY <3>1, ConverterStands DEF WriterInv, converter
    <3>4. Writing'
      BY <2>3, <3>1, <3>2, EndKeepsWriting
    <3> QED
      BY <3>1, <3>2, <3>3, <3>4 DEF WriterInv, RoundTrip, RefusesForCause
  <2>4. CASE MakeDocument
    BY <1>2, <2>4, MakeDocumentKeeps DEF Write
  <2> QED
    BY <1>2, <2>1, <2>2, <2>3, <2>4 DEF Write
<1>3. CASE UNCHANGED vars
  <2>1. UNCHANGED converter /\ UNCHANGED <<walk, written, nested, ended>>
    BY <1>3 DEF vars, writer
  <2>2. Invariant' /\ Tree(doc, root)' /\ UNCHANGED <<outcome, doc, root, heap>>
    BY <2>1, ConverterStands DEF WriterInv, converter
  <2>3. Writing => Writing'
    BY <2>1, <2>2 DEF Writing, Passes, Walking, Partial
  <2>4. RoundTrip' /\ RefusesForCause'
    BY <2>1, <2>2 DEF WriterInv, RoundTrip, RefusesForCause, Narrowed, Nulls
  <2> QED
    BY <2>1, <2>2, <2>3, <2>4 DEF WriterInv
<1> QED
  BY <1>1, <1>2, <1>3 DEF Next

LEMMA InitWrites ==
  ASSUME Init
  PROVE  WriterInv
<1>1. Invariant /\ outcome = "reading"
  BY InitFollows DEF Init, ConverterInit
<1>2. Tree(doc, root)
  <2>1. doc = Empty /\ DOMAIN doc = {} /\ root = << >>
    BY DEF Init, ConverterInit, Empty
  <2> QED
    BY <2>1 DEF Tree
<1> QED
  BY <1>1, <1>2 DEF Init, WriterInv, RoundTrip, RefusesForCause

\* What is written of a value that was read is the document it was read from,
\* with every map and array ended ...
THEOREM RoundTripCorrect ==
  ASSUME NamedKeys PROVE Spec => []RoundTrip
<1>1. Init => WriterInv
  BY InitWrites
<1>2. WriterInv /\ [Next]_vars => WriterInv'
  BY NextKeepsWriter
<1>3. WriterInv => RoundTrip
  BY DEF WriterInv
<1> QED
  BY <1>1, <1>2, <1>3, PTL DEF Spec

\* ... and value_to_bdoc fails for nothing but a Boolean, a floating-point
\* number or a null in that document.
THEOREM RefusesForCauseCorrect ==
  ASSUME NamedKeys PROVE Spec => []RefusesForCause
<1>1. Init => WriterInv
  BY InitWrites
<1>2. WriterInv /\ [Next]_vars => WriterInv'
  BY NextKeepsWriter
<1>3. WriterInv => RefusesForCause
  BY DEF WriterInv
<1> QED
  BY <1>1, <1>2, <1>3, PTL DEF Spec

\* Converter and writer together are a converter: the writer starts when that
\* is done, and leaves what it made alone, so the theorems about it hold here.
THEOREM WriterImplementsConverter == Spec => ConverterSpec
<1>1. Init => ConverterInit
  BY DEF Init
<1>2. [Next]_vars => [ConverterNext]_converter
  <2>1. CASE ConverterNext /\ UNCHANGED writer
    BY <2>1
  <2>2. CASE Write
    BY <2>2 DEF Write
  <2>3. CASE UNCHANGED vars
    BY <2>3 DEF vars
  <2> QED
    BY <2>1, <2>2, <2>3 DEF Next
<1> QED
  BY <1>1, <1>2, PTL DEF Spec, ConverterSpec

=============================================================================
