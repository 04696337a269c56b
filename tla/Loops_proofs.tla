---------------------------- MODULE Loops_proofs ----------------------------
(***************************************************************************)
(* Proofs about loops: what the body_scopes of loops bind, what an         *)
(* activation's loop_state says about the activations below it, and how    *)
(* many body_scopes there are.  They follow from the types and from the    *)
(* few shapes that a step has: it replaces the top frame by one of the     *)
(* same kin, ends execute(), enters a node or leaves one.  Then, what the  *)
(* iterators of loops refer to, and what the host's names stand for.       *)
(***************************************************************************)
EXTENDS Interpreter_proofs, FiniteSetTheorems

-----------------------------------------------------------------------------
(* The shapes of steps. *)

\* f is the top frame but for its steps, its pointers and its texts.
Kin(f) == DOMAIN f = DOMAIN Top /\ f.ls = Top.ls /\ f.body = Top.body

\* The top frame is replaced; whether a jump may leave it does not change.
Local ==
  /\ stack # << >>
  /\ \E f : /\ stack' = Append(Front(stack), f)
            /\ f.body = Top.body
            /\ f.ls = "None" <=> Top.ls = "None"

\* execute() ends, with or without an exception.
Ending == stack' = << >> /\ scopes' = <<scopes[1]>>

\* The constructors of frames make kin.
LEMMA KinTypes ==
  ASSUME TypeOK, stack # << >>
  PROVE  /\ \A n : Kin(Done(n))
         /\ \A f : Kin(f) => \A p : Kin(Push(f, p))
         /\ \A f : Kin(f) => \A s : Kin(Then(f, s))
         /\ \A f : Kin(f) => \A s : Kin(Reading(f, s))
         /\ \A f : Kin(f) => \A s : Kin([f EXCEPT !.todo = s])
<1>1. DOMAIN Top = {"node", "start", "ls", "body", "todo", "vals", "rd"}
  BY TopType DEF Frame
<1> QED
  BY <1>1 DEF Kin, Done, Push, Then, Reading

\* What Resume, Step and Yield do with a frame of the same kin.
LEMMA ResumeShape ==
  ASSUME stack # << >>, NEW f, NEW p, NEW h, Kin(f), Resume(f, p, h)
  PROVE  Local /\ scopes' = scopes
BY DEF Local, Kin, Resume

\* The same for a step without a result.
LEMMA StepShape ==
  ASSUME stack # << >>, NEW f, NEW p, Kin(f), Step(f, p)
  PROVE  Local /\ scopes' = scopes
BY ResumeShape DEF Step

\* An exception ends execute().
LEMMA FailShape ==
  ASSUME NEW msg, Fail(msg)
  PROVE  Ending
BY DEF Ending, Fail

\* The same for a step with a result.
LEMMA YieldShape ==
  ASSUME TypeOK, stack # << >>, NEW r, NEW f, NEW p, Kin(f), Yield(r, f, p)
  PROVE  Ending \/ (Local /\ scopes' = scopes)
<1>1. \A q : Kin(Push(f, q))
  BY KinTypes
<1> QED
  BY <1>1, ResumeShape, FailShape DEF Yield

\* The actions that change no scope, except that an exception ends them all.
Calm ==
  \/ Skip \/ Drop \/ Count
  \/ Expressions
  \/ Fetch \/ Augment \/ MakeAlias \/ Load \/ Member
  \/ Choose \/ Iterate \/ Jump \/ Finish

\* A calm action works on the top frame or ends execute().
LEMMA CalmSteps ==
  ASSUME TypeOK, Calm
  PROVE  Ending \/ (Local /\ scopes' = scopes)
<1>1. CASE Skip
  <2>1. stack # << >>
    BY <1>1 DEF Skip, At
  <2>2. \A s : Kin(Then(Done(0), s))
    BY <2>1, KinTypes
  <2> QED
    BY <1>1, <2>1, <2>2, FailShape, StepShape DEF Skip
<1>2. CASE Drop
  BY <1>2, KinTypes, StepShape DEF Drop, At
<1>3. CASE Count
  <2>1. PICK step \in DOMAIN Repeats :
          /\ At(step, 0)
          /\ Step(Then(Done(0), Times(code[pos].val, Repeats[step])), pos + 1)
    BY <1>3 DEF Count
  <2>2. stack # << >>
    BY <2>1 DEF At
  <2> DEFINE s == Times(code[pos].val, Repeats[step])
  <2>3. Step(Then(Done(0), s), pos + 1)
    BY <2>1
  <2> HIDE DEF s
  <2>4. Kin(Then(Done(0), s))
    BY <2>2, KinTypes
  <2> QED
    BY <2>2, <2>3, <2>4, StepShape
<1>4. CASE ReadOp \/ ReadName \/ ReadNames
  <2>1. stack # << >>
    BY <1>4 DEF ReadOp, ReadName, ReadNames, At
  <2>2. Kin(Done(0)) /\ \A s : Kin(Reading(Done(0), s))
    BY <2>1, KinTypes
  <2>3. \/ \E msg : Fail(msg)
        \/ \E p : Step(Done(0), p) \/ \E s : Step(Reading(Done(0), s), p)
    BY <1>4 DEF ReadOp, ReadName, ReadNames
  <2> QED
    BY <2>1, <2>2, <2>3, FailShape, StepShape
<1>5. CASE Lookup
  <2>1. stack # << >>
    BY <1>5 DEF Lookup, At
  <2>2. PICK r : Yield(r, Done(0), pos + 1)
    BY <1>5 DEF Lookup
  <2> QED
    BY <2>1, <2>2, KinTypes, YieldShape
<1>6. CASE String \/ Integer \/ NewList \/ NewDictionary \/ Decided \/ Undecided
  <2>1. stack # << >>
    BY <1>6 DEF String, Integer, NewList, NewDictionary, Decided, Undecided, At
  <2>2. \E r, p : Yield(r, Done(0), p)
    BY <1>6 DEF String, Integer, NewList, NewDictionary, Decided, Undecided
  <2> QED
    BY <2>1, <2>2, KinTypes, YieldShape
<1>7. CASE AppendElement \/ InsertEntry
  <2>1. stack # << >>
    BY <1>7 DEF AppendElement, InsertEntry, At
  <2>2. \E h : Resume(Done(1), pos, h)
    BY <1>7 DEF AppendElement, InsertEntry
  <2> QED
    BY <2>1, <2>2, KinTypes, ResumeShape
<1>8. CASE Unary \/ Binary \/ Compare \/ Subscript \/ Attribute
  <2>1. stack # << >>
    BY <1>8 DEF Unary, Binary, Compare, Subscript, Attribute, At
  <2>2. \E r, n : Yield(r, Done(n), pos)
    BY <1>8 DEF Unary, Binary, Compare, Subscript, Attribute
  <2> QED
    BY <2>1, <2>2, KinTypes, YieldShape
<1>9. CASE Decide
  <2>1. stack # << >>
    BY <1>9 DEF Decide, At
  <2>2. Kin(Done(1)) /\ \A s : Kin([Done(1) EXCEPT !.todo = s])
    BY <2>1, KinTypes
  <2>3. \/ \E msg : Fail(msg)
        \/ Step(Done(1), pos) \/ \E s : Step([Done(1) EXCEPT !.todo = s], pos)
    BY <1>9 DEF Decide
  <2> QED
    BY <2>1, <2>2, <2>3, FailShape, StepShape
<1>10. CASE CheckCallable
  <2>1. stack # << >>
    BY <1>10 DEF CheckCallable, At
  <2>2. (\E msg : Fail(msg)) \/ Step(Done(0), pos)
    BY <1>10 DEF CheckCallable
  <2> QED
    BY <2>1, <2>2, KinTypes, FailShape, StepShape
<1>11. CASE Call \/ Fetch \/ MakeAlias \/ Member \/ Iterate
  <2>1. stack # << >>
    BY <1>11 DEF Call, Fetch, MakeAlias, Member, Iterate, At
  <2>2. (\E msg : Fail(msg)) \/ (\E r, n, p : Yield(r, Done(n), p))
    BY <1>11 DEF Call, Fetch, MakeAlias, Member, Iterate
  <2> QED
    BY <2>1, <2>2, KinTypes, FailShape, YieldShape
<1>12. CASE Augment
  <2>1. stack # << >>
    BY <1>12 DEF Augment, At
  <2>2. (\E msg : Fail(msg)) \/ (\E h : Resume(Done(2), pos, h))
    BY <1>12 DEF Augment
  <2> QED
    BY <2>1, <2>2, KinTypes, FailShape, ResumeShape
<1>13. CASE Load
  <2>1. stack # << >>
    BY <1>13 DEF Load, At
  <2>2. \/ \E msg : Fail(msg)
        \/ \E r : Yield(r, Done(0), pos)
        \/ /\ stack' = Append(Front(stack), Push(Done(0), brk + 1))
           /\ UNCHANGED scopes
    BY <1>13 DEF Load
  <2>3. Kin(Done(0)) /\ Kin(Push(Done(0), brk + 1))
    BY <2>1, KinTypes
  <2> QED
    BY <2>1, <2>2, <2>3, FailShape, YieldShape DEF Local, Kin
<1>14. CASE Choose
  <2> DEFINE f == Done(0)
  <2>1. stack # << >>
    BY <1>14 DEF Choose, At
  <2>2. \A s : Kin(Then(f, s)) /\ Kin(Push(Then(f, s), Null))
    BY <2>1, KinTypes
  <2>3. \/ \E msg : Fail(msg)
        \/ \E s : Step(Then(f, s), pos) \/ Step(Push(Then(f, s), Null), pos)
    BY <1>14 DEF Choose
  <2> HIDE DEF f
  <2> QED
    BY <2>1, <2>2, <2>3, FailShape, StepShape
<1>15. CASE Jump
  <2>1. PICK step \in {"break", "continue"} :
          /\ At(step, 0)
          /\ IF Top.ls = "None" THEN Fail("Not a loop")
             ELSE Step([Done(0) EXCEPT !.ls = IF step = "break" THEN "Break" ELSE "Continue"], pos)
    BY <1>15 DEF Jump
  <2> DEFINE f == [Done(0) EXCEPT !.ls = IF step = "break" THEN "Break" ELSE "Continue"]
  <2>2. CASE Top.ls = "None"
    BY <2>1, <2>2, FailShape
  <2>3. CASE Top.ls # "None"
    <3>1. stack # << >>
      BY <2>1 DEF At
    <3>2. Kin(Done(0)) /\ DOMAIN Top = {"node", "start", "ls", "body", "todo", "vals", "rd"}
      BY <3>1, KinTypes, TopType DEF Frame
    <3>3. f.body = Top.body /\ f.ls # "None"
      BY <3>2 DEF Kin
    <3>4. stack' = Append(Front(stack), f) /\ scopes' = scopes
      BY <2>1, <2>3 DEF Step, Resume
    <3> HIDE DEF f
    <3> QED
      BY <2>3, <3>1, <3>3, <3>4 DEF Local
  <2> QED
    BY <2>2, <2>3
<1>16. CASE Finish
  <2>1. \E msg : Fail(msg)
    BY <1>16 DEF Finish
  <2> QED
    BY <2>1, FailShape
<1> QED
  BY <1>1, <1>2, <1>3, <1>4, <1>5, <1>6, <1>7, <1>8, <1>9, <1>10, <1>11, <1>12, <1>13,
     <1>14, <1>15, <1>16 DEF Calm, Expressions

\* The head of a for loop.
LEMMA AdvanceShape ==
  ASSUME TypeOK, Advance
  PROVE  \/ Ending
         \/ /\ Local
            /\ \/ scopes' = scopes
               \/ \E texts, h, p : scopes' = Bound(Append(scopes, Fresh), texts, h, p)
<1>1. stack # << >>
  BY DEF Advance, At
<1>2. \/ Stop \/ \E msg : Fail(msg)
      \/ \E fresh, p, it : Bind(fresh, p, it)
  BY DEF Advance, NextOfRange, NextOfList, NextOfItems, NextOfDictionary
<1>3. CASE Stop
  <2>1. Kin(Then(Done(0), <<"skip">>))
    BY <1>1, KinTypes
  <2> QED
    BY <1>1, <1>3, <2>1, StepShape DEF Stop
<1>4. ASSUME NEW fresh, NEW p, NEW it, Bind(fresh, p, it)
      PROVE  \/ Ending
             \/ /\ Local
                /\ \E texts, h, q : scopes' = Bound(Append(scopes, Fresh), texts, h, q)
  <2> DEFINE f == Push(Then(Done(0), <<"body", "again">>), p)
  <2>1. \/ \E msg : Fail(msg)
        \/ /\ stack' = Append(Front(stack), f)
           /\ \E texts, h, q : scopes' = Bound(Append(scopes, Fresh), texts, h, q)
    BY <1>4 DEF Bind
  <2>2. Kin(f)
    BY <1>1, KinTypes
  <2> HIDE DEF f
  <2> QED
    BY <1>1, <2>1, <2>2, FailShape DEF Local, Kin
<1> QED
  BY <1>2, <1>3, <1>4, FailShape

-----------------------------------------------------------------------------
(* One binding for each name. *)

\* A chain of scopes, whatever they bind.
Chain(sc) == \A i \in DOMAIN sc : DOMAIN sc[i] = {"values", "terminated"}

\* set_value binds a name where it is bound, or where no scope binds it.
LEMMA SetValueSeparate ==
  ASSUME NEW sc, Chain(sc), Separate(sc), NEW x, NEW p
  PROVE  Chain(SetValue(sc, x, p)) /\ Separate(SetValue(sc, x, p))
<1> DEFINE new == SetValue(sc, x, p)
           holders == Holders(sc, x)
<1>1. DOMAIN new = DOMAIN sc
  BY DEF SetValue
<1>2. ASSUME NEW i \in DOMAIN sc
      PROVE  DOMAIN new[i].values =
               IF holders = {} /\ i = Len(sc) THEN DOMAIN sc[i].values \cup {x}
               ELSE DOMAIN sc[i].values
  <2>1. DOMAIN sc[i] = {"values", "terminated"}
    BY DEF Chain
  <2>2. DOMAIN [sc[i] EXCEPT !.values = Put(@, x, p)].values = DOMAIN sc[i].values \cup {x}
    BY <2>1 DEF Put
  <2>3. i \in holders => x \in DOMAIN sc[i].values
    BY DEF Holders
  <2> QED
    BY <2>2, <2>3 DEF SetValue
<1>3. holders = {} => \A i \in DOMAIN sc : x \notin DOMAIN sc[i].values
  BY DEF Holders
<1> DEFINE Old(i) == DOMAIN sc[i].values
           Now(i) == DOMAIN new[i].values
<1>4. \A i \in DOMAIN sc : Now(i) \subseteq Old(i) \cup {x}
  BY <1>2
<1>5. \A i \in DOMAIN sc : holders # {} \/ i # Len(sc) => Now(i) = Old(i)
  BY <1>2
<1>6. \A i, j \in DOMAIN sc : i # j => Old(i) \cap Old(j) = {}
  BY DEF Separate
<1>7. holders = {} => \A i \in DOMAIN sc : x \notin Old(i)
  BY <1>3
<1>8. Chain(new)
  BY DEF Chain, SetValue
<1> HIDE DEF new, Old, Now, holders
<1>9. ASSUME NEW i \in DOMAIN sc, NEW j \in DOMAIN sc, i # j
      PROVE  Now(i) \cap Now(j) = {}
  <2>1. Old(i) \cap Old(j) = {}
    BY <1>6, <1>9
  <2>2. CASE holders # {}
    BY <1>5, <2>1, <2>2
  <2>3. CASE holders = {} /\ i # Len(sc)
    BY <1>4, <1>5, <1>7, <2>1, <2>3
  <2>4. CASE holders = {} /\ j # Len(sc)
    BY <1>4, <1>5, <1>7, <2>1, <2>4
  <2> QED
    BY <1>9, <2>2, <2>3, <2>4
<1>10. Separate(new)
  BY <1>1, <1>9 DEF Separate, Now
<1> QED
  BY <1>8, <1>10 DEF new

\* The same for a pair of names.
LEMMA BoundSeparate ==
  ASSUME NEW sc, Chain(sc), Separate(sc), NEW texts, NEW h, NEW p
  PROVE  Separate(Bound(sc, texts, h, p))
BY SetValueSeparate DEF Bound

\* A new scope is empty.
LEMMA OpenedSeparate ==
  ASSUME NEW sc, ScopesOK(sc), Separate(sc)
  PROVE  Chain(Append(sc, Fresh)) /\ Separate(Append(sc, Fresh))
<1> DEFINE new == Append(sc, Fresh)
<1>1. sc \in Seq(Range(sc) \cup {Fresh}) /\ Fresh \in Range(sc) \cup {Fresh}
  BY SeqMonotonic DEF ScopesOK
<1>2. /\ new \in Seq(Range(sc) \cup {Fresh})
      /\ Len(new) = Len(sc) + 1
      /\ \A i \in 1 .. Len(sc) : new[i] = sc[i]
      /\ new[Len(sc) + 1] = Fresh
  BY <1>1, AppendProperties
<1>3. /\ DOMAIN new = 1 .. Len(sc) + 1
      /\ Len(sc) \in Nat /\ DOMAIN sc = 1 .. Len(sc)
  BY <1>1, <1>2, LenProperties
<1>4. DOMAIN Fresh = {"values", "terminated"} /\ DOMAIN Fresh.values = {}
  BY DEF Fresh, Empty
<1>5. \A i \in DOMAIN sc : DOMAIN sc[i] = {"values", "terminated"}
  BY DEF ScopesOK, IsScope
<1> HIDE DEF new
<1>6. Chain(new) /\ Separate(new)
  BY <1>2, <1>3, <1>4, <1>5 DEF Chain, Separate
<1> QED
  BY <1>6 DEF new

\* Dropping scopes binds nothing.
LEMMA ClosedSeparate ==
  ASSUME NEW sc, ScopesOK(sc), Separate(sc)
  PROVE  Separate(Front(sc)) /\ Separate(<<sc[1]>>)
<1>1. /\ Front(sc) \in Seq(Range(sc)) /\ Len(sc) \in Nat \ {0}
      /\ Len(Front(sc)) = Len(sc) - 1
      /\ \A i \in 1 .. Len(sc) - 1 : Front(sc)[i] = sc[i]
  BY Ends DEF ScopesOK
<1>2. DOMAIN Front(sc) = 1 .. Len(sc) - 1 /\ DOMAIN sc = 1 .. Len(sc)
  BY <1>1, LenProperties DEF ScopesOK
<1>3. Separate(Front(sc))
  BY <1>1, <1>2 DEF Separate
<1>4. Separate(<<sc[1]>>)
  <2>1. DOMAIN <<sc[1]>> = {1}
    OBVIOUS
  <2> QED
    BY <2>1 DEF Separate
<1> QED
  BY <1>3, <1>4

\* Nor does terminating one.
LEMMA TerminatedSeparate ==
  ASSUME NEW sc, ScopesOK(sc), Separate(sc)
  PROVE  Separate([sc EXCEPT ![Len(sc)].terminated = TRUE])
<1> DEFINE new == [sc EXCEPT ![Len(sc)].terminated = TRUE]
<1>1. DOMAIN new = DOMAIN sc
  OBVIOUS
<1>2. \A i \in DOMAIN sc : DOMAIN new[i].values = DOMAIN sc[i].values
  OBVIOUS
<1> HIDE DEF new
<1>3. Separate(new)
  BY <1>1, <1>2 DEF Separate
<1> QED
  BY <1>3 DEF new

\* What a step does to the scopes keeps them separate.
LEMMA CalmKeepsSeparate ==
  ASSUME TypeOK, OneBinding, Ending \/ scopes' = scopes
  PROVE  OneBinding'
BY ClosedSeparate DEF OneBinding, Ending, TypeOK, Separate

\* The statements that bind names or open and close scopes.
LEMMA StatementKeepsSeparate ==
  ASSUME TypeOK, OneBinding, Assign \/ BindImport \/ While \/ Again \/ Terminate \/ Advance
  PROVE  OneBinding'
<1>1. ScopesOK(scopes) /\ Chain(scopes) /\ Separate(scopes)
  BY DEF TypeOK, OneBinding, ScopesOK, IsScope, Chain
<1>2. CASE Assign
  <2>1. (\E msg : Fail(msg)) \/ \E texts, p : scopes' = Bound(scopes, texts, heap, p)
    BY <1>2 DEF Assign
  <2> QED
    BY <1>1, <2>1, FailShape, CalmKeepsSeparate, BoundSeparate DEF OneBinding
<1>3. CASE BindImport
  <2>1. \E x, p : scopes' = SetValue(scopes, x, p)
    BY <1>3 DEF BindImport
  <2> QED
    BY <1>1, <2>1, SetValueSeparate DEF OneBinding
<1>4. CASE While
  <2>1. scopes' = Append(scopes, Fresh) \/ scopes' = scopes
    BY <1>4 DEF While, OpenBody, Step, Resume
  <2> QED
    BY <1>1, <2>1, OpenedSeparate DEF OneBinding
<1>5. CASE Again
  BY <1>1, <1>5, ClosedSeparate DEF Again, OneBinding
<1>6. CASE Terminate
  BY <1>1, <1>6, TerminatedSeparate DEF Terminate, OneBinding
<1>7. CASE Advance
  <2>1. Separate(Append(scopes, Fresh)) /\ Chain(Append(scopes, Fresh))
    BY <1>1, OpenedSeparate
  <2> QED
    BY <1>7, <2>1, AdvanceShape, CalmKeepsSeparate, BoundSeparate DEF OneBinding
<1> QED
  BY <1>2, <1>3, <1>4, <1>5, <1>6, <1>7

\* Every step keeps the bindings apart.
LEMMA NextKeepsSeparate ==
  ASSUME TypeOK, OneBinding, [Next]_vars
  PROVE  OneBinding'
<1>1. CASE SetString \/ SetList \/ SetModule
  <2>1. Chain(scopes) /\ Separate(scopes)
    BY DEF TypeOK, OneBinding, ScopesOK, IsScope, Chain
  <2>2. scopes' = scopes \/ \E x, p : scopes' = SetValue(scopes, x, p)
    BY <1>1 DEF SetString, PresetString, SetList, PresetList, SetModule, Preset
  <2> QED
    BY <2>1, <2>2, SetValueSeparate, CalmKeepsSeparate DEF OneBinding
<1>2. CASE Execute \/ Return
  BY <1>2, CalmKeepsSeparate DEF Execute, Return
<1>3. CASE \E step \in ChildSteps : Enter(step)
  <2>1. (\E msg : Fail(msg)) \/ scopes' = scopes
    BY <1>3 DEF Enter
  <2> QED
    BY <2>1, FailShape, CalmKeepsSeparate
<1>4. CASE Calm
  BY <1>4, CalmSteps, CalmKeepsSeparate
<1>5. CASE Assign \/ BindImport \/ While \/ Again \/ Terminate \/ Advance
  BY <1>5, StatementKeepsSeparate
<1>6. CASE UNCHANGED vars
  BY <1>6, CalmKeepsSeparate DEF vars
<1> QED
  BY <1>1, <1>2, <1>3, <1>4, <1>5, <1>6
  DEF Next, Host, Interpret, Nodes, Statement, Calm, Ended

(***************************************************************************)
(* Scope::set_value writes to the outermost scope of the chain that has    *)
(* the name and Scope::get_value reads the innermost one.  They agree      *)
(* because no program ever has a name in two scopes of the chain at once.  *)
(***************************************************************************)
THEOREM OneBindingCorrect == Spec => []OneBinding
<1>1. Init => TypeOK /\ OneBinding
  <2>1. Init => OneBinding
    <3>1. DOMAIN <<Fresh>> = {1}
      OBVIOUS
    <3> QED
      BY <3>1 DEF Init, OneBinding, Separate
  <2> QED
    BY <2>1, InitTypes
<1>2. TypeOK /\ OneBinding /\ [Next]_vars => (TypeOK /\ OneBinding)'
  BY NextKeepsTypes, NextKeepsSeparate
<1> QED
  BY <1>1, <1>2, PTL DEF Spec

-----------------------------------------------------------------------------
(* Jumps. *)

(***************************************************************************)
(* JumpsNeedLoops alone is not inductive: a body is entered with the       *)
(* loop's for_loop_state, so that one must never be None either.  It is    *)
(* assigned from the loop_state of the body that returned, which had one.  *)
(***************************************************************************)
Jumps(st) ==
  /\ \A i \in DOMAIN st : st[i].ls # "None" <=> InLoop(st, i)
  /\ \A i \in DOMAIN st : st[i].body # "None"

JumpsInv == Jumps(stack)

\* What an activation above frame n is in depends on frame n ...
LEMMA InLoopAbove ==
  ASSUME NEW st, NEW n \in Nat \ {0}
  PROVE  InLoop(st, n + 1) <=>
           Waits(st, n, "body") \/ (~ Waits(st, n, "expr") /\ InLoop(st, n))
<1>1. ASSUME InLoop(st, n + 1)
      PROVE  Waits(st, n, "body") \/ (~ Waits(st, n, "expr") /\ InLoop(st, n))
  <2>1. PICK j \in 1 .. n : /\ Waits(st, j, "body")
                            /\ \A k \in j + 1 .. n : ~ Waits(st, k, "expr")
    BY <1>1 DEF InLoop
  <2>2. CASE j # n
    <3>1. j \in 1 .. n - 1 /\ n \in j + 1 .. n
      BY <2>2
    <3>2. \A k \in j + 1 .. n - 1 : ~ Waits(st, k, "expr")
      BY <2>1
    <3> QED
      BY <2>1, <3>1, <3>2 DEF InLoop
  <2> QED
    BY <2>1, <2>2
<1>2. ASSUME Waits(st, n, "body")
      PROVE  InLoop(st, n + 1)
  <2>1. n \in 1 .. (n + 1) - 1 /\ n + 1 .. (n + 1) - 1 = {}
    OBVIOUS
  <2> QED
    BY <1>2, <2>1 DEF InLoop
<1>3. ASSUME ~ Waits(st, n, "expr"), InLoop(st, n)
      PROVE  InLoop(st, n + 1)
  <2>1. PICK j \in 1 .. n - 1 : /\ Waits(st, j, "body")
                                /\ \A k \in j + 1 .. n - 1 : ~ Waits(st, k, "expr")
    BY <1>3 DEF InLoop
  <2>2. \A k \in j + 1 .. (n + 1) - 1 : k = n \/ k \in j + 1 .. n - 1
    OBVIOUS
  <2>3. j \in 1 .. (n + 1) - 1
    OBVIOUS
  <2> QED
    BY <1>3, <2>1, <2>2, <2>3 DEF InLoop
<1> QED
  BY <1>1, <1>2, <1>3

\* ... and on nothing above it.
LEMMA InLoopBelow ==
  ASSUME NEW st, NEW other, NEW n \in Nat, \A k \in 1 .. n - 1 : st[k] = other[k]
  PROVE  InLoop(st, n) <=> InLoop(other, n)
<1>1. \A k \in 1 .. n - 1 : \A step : Waits(st, k, step) <=> Waits(other, k, step)
  BY DEF Waits
<1>2. \A j \in 1 .. n - 1 : \A k \in j + 1 .. n - 1 : k \in 1 .. n - 1
  OBVIOUS
<1> QED
  BY <1>1, <1>2 DEF InLoop

\* The frames below the top one.
LEMMA FrontJumps ==
  ASSUME NEW st \in Seq(Frame), st # << >>, Jumps(st)
  PROVE  Jumps(Front(st))
<1>1. /\ Front(st) \in Seq(Frame) /\ Len(st) \in Nat \ {0}
      /\ Len(Front(st)) = Len(st) - 1
      /\ \A i \in 1 .. Len(st) - 1 : Front(st)[i] = st[i]
  BY Ends
<1>2. DOMAIN Front(st) = 1 .. Len(st) - 1 /\ DOMAIN st = 1 .. Len(st)
  BY <1>1, LenProperties
<1> DEFINE new == Front(st)
<1> HIDE DEF new
<1>3. ASSUME NEW i \in 1 .. Len(st) - 1
      PROVE  InLoop(new, i) <=> InLoop(st, i)
  <2>1. i \in Nat /\ \A k \in 1 .. i - 1 : new[k] = st[k]
    BY <1>1 DEF new
  <2> QED
    BY <2>1, InLoopBelow
<1>4. Jumps(new)
  BY <1>1, <1>2, <1>3 DEF Jumps, new
<1> QED
  BY <1>4 DEF new

\* A new frame on top of others.
LEMMA AppendJumps ==
  ASSUME NEW st \in Seq(Frame), Jumps(st), NEW f, f.body # "None",
         f.ls # "None" <=> InLoop(st, Len(st) + 1)
  PROVE  Jumps(Append(st, f))
<1> DEFINE new == Append(st, f)
<1>1. st \in Seq(Frame \cup {f}) /\ f \in Frame \cup {f}
  BY SeqMonotonic
<1>2. /\ new \in Seq(Frame \cup {f})
      /\ Len(new) = Len(st) + 1 /\ Len(st) \in Nat
      /\ \A i \in 1 .. Len(st) : new[i] = st[i]
      /\ new[Len(st) + 1] = f
  BY <1>1, AppendProperties, LenProperties
<1>3. DOMAIN new = 1 .. Len(st) + 1 /\ DOMAIN st = 1 .. Len(st)
  BY <1>1, <1>2, LenProperties
<1> HIDE DEF new
<1>4. ASSUME NEW i \in 1 .. Len(st) + 1
      PROVE  InLoop(new, i) <=> InLoop(st, i)
  <2>1. i \in Nat /\ \A k \in 1 .. i - 1 : new[k] = st[k]
    BY <1>2
  <2> QED
    BY <2>1, InLoopBelow
<1>5. ASSUME NEW i \in DOMAIN new
      PROVE  (new[i].ls # "None" <=> InLoop(new, i)) /\ new[i].body # "None"
  <2>1. CASE i = Len(st) + 1
    BY <1>2, <1>3, <1>4, <2>1
  <2>2. CASE i # Len(st) + 1
    <3>1. i \in 1 .. Len(st)
      BY <1>2, <1>3, <2>2
    <3> QED
      BY <1>2, <1>3, <1>4, <3>1 DEF Jumps
  <2> QED
    BY <2>1, <2>2
<1>6. Jumps(new)
  BY <1>5 DEF Jumps
<1> QED
  BY <1>6 DEF new

\* Another frame in the place of the top one.
LEMMA ReplaceJumps ==
  ASSUME NEW st \in Seq(Frame), st # << >>, Jumps(st), NEW f, f.body # "None",
         f.ls = "None" <=> Last(st).ls = "None"
  PROVE  Jumps(Append(Front(st), f))
<1>1. /\ Front(st) \in Seq(Frame) /\ Len(st) \in Nat \ {0}
      /\ Len(Front(st)) = Len(st) - 1
      /\ \A i \in 1 .. Len(st) - 1 : Front(st)[i] = st[i]
  BY Ends
<1>2. Jumps(Front(st))
  BY FrontJumps
<1>3. Last(st) = st[Len(st)] /\ Len(st) \in DOMAIN st
  BY <1>1, LenProperties DEF Last
<1>4. InLoop(Front(st), Len(st)) <=> InLoop(st, Len(st))
  BY <1>1, InLoopBelow
<1>5. Len(Front(st)) + 1 = Len(st)
  BY <1>1
<1>6. f.ls # "None" <=> InLoop(Front(st), Len(Front(st)) + 1)
  BY <1>3, <1>4, <1>5 DEF Jumps
<1> QED
  BY <1>1, <1>2, <1>6, AppendJumps

\* A step of the top frame.
LEMMA LocalKeepsJumps ==
  ASSUME TypeOK, JumpsInv, Local
  PROVE  JumpsInv'
<1>1. PICK f : /\ stack' = Append(Front(stack), f)
               /\ f.body = Top.body
               /\ f.ls = "None" <=> Top.ls = "None"
  BY DEF Local
<1>2. stack # << >> /\ stack \in Seq(Frame) /\ Jumps(stack)
  BY DEF Local, TypeOK, JumpsInv
<1>3. Top = stack[Len(stack)] /\ Len(stack) \in DOMAIN stack
  BY <1>2, LenProperties, EmptySeq DEF Top, Last
<1>4. f.body # "None"
  BY <1>1, <1>2, <1>3 DEF Jumps
<1>5. f.ls = "None" <=> Last(stack).ls = "None"
  BY <1>1 DEF Top
<1>6. Jumps(Append(Front(stack), f))
  BY <1>2, <1>4, <1>5, ReplaceJumps
<1> QED
  BY <1>1, <1>6 DEF JumpsInv

\* Nothing runs.
LEMMA NoJumps == Jumps(<< >>)
BY DEF Jumps

\* The end of execute().
LEMMA EndingKeepsJumps ==
  ASSUME Ending
  PROVE  JumpsInv'
BY NoJumps DEF Ending, JumpsInv

\* The other statements change the top frame too.
LEMMA StatementShape ==
  ASSUME TypeOK, Assign \/ BindImport \/ While \/ Again \/ Terminate
  PROVE  Ending \/ Local
<1>1. stack # << >>
  BY DEF Assign, BindImport, While, Again, Terminate, At
<1>2. /\ \A n : Kin(Done(n)) /\ \A s : Kin(Then(Done(n), s))
      /\ \A n : Kin([Done(n) EXCEPT !.todo = Handler["WhileLoop"]])
  BY <1>1, KinTypes
<1>3. CASE Assign
  <2>1. (\E msg : Fail(msg)) \/ stack' = Append(Front(stack), Done(0))
    BY <1>3 DEF Assign
  <2> QED
    BY <1>1, <1>2, <2>1, FailShape DEF Local, Kin
<1>4. CASE BindImport \/ Terminate
  <2>1. stack' = Append(Front(stack), Done(0))
    BY <1>4 DEF BindImport, Terminate
  <2> QED
    BY <1>1, <1>2, <2>1 DEF Local, Kin
<1>5. CASE While
  <2>1. \E s : stack' = Append(Front(stack), Then(Done(0), s))
    BY <1>5 DEF While, OpenBody, Step, Resume
  <2> QED
    BY <1>1, <1>2, <2>1 DEF Local, Kin
<1>6. CASE Again
  <2>1. \E s : stack' = Append(Front(stack), [Done(1) EXCEPT !.todo = s])
    BY <1>6 DEF Again
  <2>2. \A s : Kin([Done(1) EXCEPT !.todo = s])
    BY <1>1, KinTypes
  <2> QED
    BY <1>1, <2>1, <2>2 DEF Local, Kin
<1> QED
  BY <1>3, <1>4, <1>5, <1>6

\* Entering a node.
LEMMA EnterKeepsJumps ==
  ASSUME TypeOK, JumpsInv, NEW step \in ChildSteps, Enter(step)
  PROVE  JumpsInv'
<1>1. CASE \E msg : Fail(msg)
  BY <1>1, FailShape, EndingKeepsJumps
<1>2. CASE \E type : stack' = Append(stack, NewFrame(type, pos, ChildLoopState(Top, step)))
  <2>1. PICK type : stack' = Append(stack, NewFrame(type, pos, ChildLoopState(Top, step)))
    BY <1>2
  <2> DEFINE f == NewFrame(type, pos, ChildLoopState(Top, step))
             n == Len(stack)
  <2>2. f.body = "TopLevel" /\ f.ls = ChildLoopState(Top, step)
    BY DEF NewFrame
  <2>3. /\ stack \in Seq(Frame) /\ Jumps(stack)
        /\ stack # << >> /\ Waits(stack, n, step) /\ Top = stack[n]
    BY DEF Enter, At, TypeOK, JumpsInv, Waits, Top, Last
  <2>4. n \in Nat \ {0} /\ n \in DOMAIN stack
    BY <2>3, LenProperties, EmptySeq
  <2>5. Top.body # "None" /\ (Top.ls # "None" <=> InLoop(stack, n))
    BY <2>3, <2>4 DEF Jumps
  <2>6. /\ Waits(stack, n, "body") <=> step = "body"
        /\ Waits(stack, n, "expr") <=> step = "expr"
    BY <2>3 DEF Waits
  <2>7. f.ls # "None" <=> step = "body" \/ (step # "expr" /\ Top.ls # "None")
    BY <2>2, <2>5 DEF ChildLoopState
  <2> HIDE DEF f, n
  <2>8. f.ls # "None" <=> InLoop(stack, n + 1)
    BY <2>4, <2>5, <2>6, <2>7, InLoopAbove
  <2>9. Jumps(Append(stack, f))
    BY <2>2, <2>3, <2>8, AppendJumps DEF n
  <2> QED
    BY <2>1, <2>9 DEF JumpsInv, f
<1> QED
  BY <1>1, <1>2 DEF Enter

\* Leaving a node.
LEMMA ReturnKeepsJumps ==
  ASSUME TypeOK, JumpsInv, Return
  PROVE  JumpsInv'
<1> DEFINE below == Front(stack)
           n == Len(stack)
           caller == stack[n - 1]
           l == Top.ls
           f == Received(caller, ReturnValue(Top), l)
           step == Head(caller.todo)
<1>1. n > 1 /\ caller.todo # << >> /\ stack' = Append(Front(below), f)
  BY DEF Return
<1>2. stack \in Seq(Frame) /\ Jumps(stack)
  BY DEF TypeOK, JumpsInv
<1>3. /\ n \in Nat /\ n - 1 \in Nat \ {0} /\ stack # << >>
      /\ n \in DOMAIN stack /\ n - 1 \in DOMAIN stack /\ Top = stack[n]
  BY <1>1, <1>2, LenProperties DEF Top, Last
<1>4. /\ below \in Seq(Frame) /\ Len(below) = n - 1 /\ below[n - 1] = caller
      /\ below # << >> /\ Last(below) = caller /\ Jumps(below)
  <2>1. /\ below \in Seq(Frame) /\ Len(below) = n - 1
        /\ \A i \in 1 .. n - 1 : below[i] = stack[i]
    BY <1>2, <1>3, Ends
  <2>2. below[n - 1] = caller /\ Last(below) = caller /\ below # << >>
    BY <1>1, <1>3, <2>1 DEF Last
  <2> QED
    BY <1>2, <1>3, <2>1, <2>2, FrontJumps
<1>5. /\ caller \in Frame /\ caller.body # "None"
      /\ caller.ls # "None" <=> InLoop(stack, n - 1)
  BY <1>2, <1>3, ElementOfSeq, LenProperties DEF Jumps
<1>6. l # "None" <=> step = "body" \/ (step # "expr" /\ caller.ls # "None")
  <2>1. l # "None" <=> InLoop(stack, n)
    BY <1>2, <1>3 DEF Jumps
  <2>2. InLoop(stack, n) <=> Waits(stack, n - 1, "body")
                             \/ (~ Waits(stack, n - 1, "expr") /\ InLoop(stack, n - 1))
    <3>1. (n - 1) + 1 = n
      BY <1>3
    <3> QED
      BY <1>3, <3>1, InLoopAbove
  <2>3. /\ Waits(stack, n - 1, "body") <=> step = "body"
        /\ Waits(stack, n - 1, "expr") <=> step = "expr"
    BY <1>1 DEF Waits
  <2> QED
    BY <1>5, <2>1, <2>2, <2>3
<1>7. f.body # "None" /\ (f.ls = "None" <=> caller.ls = "None")
  <2> DEFINE kept == step = "stmt" /\ (caller.ls = "None" \/ l = "Normal")
  <2>1. /\ f.ls = IF step \in {"test", "branch", "stmt"} /\ ~ kept THEN l ELSE caller.ls
        /\ f.body = IF step = "body" THEN l ELSE caller.body
    BY <1>5 DEF Received, Frame
  <2> HIDE DEF f, step, l, caller
  <2> QED
    BY <1>5, <1>6, <2>1
<1> HIDE DEF f, below, caller
<1>8. Jumps(Append(Front(below), f))
  BY <1>4, <1>7, ReplaceJumps
<1> QED
  BY <1>1, <1>8 DEF JumpsInv

\* Every step keeps the loop_states in order.
LEMMA NextKeepsJumps ==
  ASSUME TypeOK, JumpsInv, [Next]_vars
  PROVE  JumpsInv'
<1>1. CASE Calm
  BY <1>1, CalmSteps, EndingKeepsJumps, LocalKeepsJumps
<1>2. CASE SetString \/ SetList \/ SetModule \/ UNCHANGED vars
  <2>1. stack' = stack
    BY <1>2 DEF SetString, PresetString, SetList, PresetList, SetModule, Preset, vars
  <2> QED
    BY <2>1 DEF JumpsInv, Jumps, InLoop, Waits
<1>3. CASE Execute
  <2> DEFINE f == NewFrame(code[pos].val, pos, "None")
  <2>1. stack' = <<f>>
    BY <1>3 DEF Execute
  <2>2. f.body # "None" /\ f.ls = "None"
    BY DEF NewFrame
  <2> HIDE DEF f
  <2>3. DOMAIN <<f>> = {1} /\ <<f>>[1] = f
    OBVIOUS
  <2>4. ~ InLoop(<<f>>, 1)
    BY DEF InLoop
  <2>5. Jumps(<<f>>)
    BY <2>2, <2>3, <2>4 DEF Jumps
  <2> QED
    BY <2>1, <2>5 DEF JumpsInv
<1>4. CASE \E step \in ChildSteps : Enter(step)
  BY <1>4, EnterKeepsJumps
<1>5. CASE Return
  BY <1>5, ReturnKeepsJumps
<1>6. CASE Assign \/ BindImport \/ While \/ Again \/ Terminate
  BY <1>6, StatementShape, EndingKeepsJumps, LocalKeepsJumps
<1>7. CASE Advance
  <2>1. stack # << >>
    BY <1>7 DEF Advance, At
  <2> QED
    BY <1>7, <2>1, AdvanceShape, EndingKeepsJumps, LocalKeepsJumps
<1> QED
  BY <1>1, <1>2, <1>3, <1>4, <1>5, <1>6, <1>7
  DEF Next, Host, Interpret, Nodes, Statement, Calm, Ended

(***************************************************************************)
(* Break and continue only ever reach a loop: in every program, at every   *)
(* moment, an activation has a loop_state exactly when a loop waits for    *)
(* its body below it and no expression is evaluated between the two.  So   *)
(* "Not a loop" is thrown exactly where Python rejects the program.        *)
(***************************************************************************)
THEOREM JumpsNeedLoopsCorrect == Spec => []JumpsNeedLoops
<1>1. Init => TypeOK /\ JumpsInv
  BY InitTypes, NoJumps DEF Init, JumpsInv
<1>2. TypeOK /\ JumpsInv /\ [Next]_vars => (TypeOK /\ JumpsInv)'
  BY NextKeepsTypes, NextKeepsJumps
<1>3. JumpsInv => JumpsNeedLoops
  BY DEF JumpsInv, Jumps, JumpsNeedLoops
<1> QED
  BY <1>1, <1>2, <1>3, PTL DEF Spec

-----------------------------------------------------------------------------
(* One scope for each running iteration. *)

(***************************************************************************)
(* The steps that run an iteration, "body" and then "again", are put in    *)
(* front of a loop's steps when the loop opens a body_scope, and nowhere   *)
(* else; and an activation that has called another one still waits for it. *)
(***************************************************************************)
Headed(t, s) == t # << >> /\ Head(t) = s

Ordered(t) ==
  \/ t \in Seq(Plain)
  \/ Headed(t, "again") /\ Tail(t) \in Seq(Plain)
  \/ Headed(t, "body") /\ Headed(Tail(t), "again") /\ Tail(Tail(t)) \in Seq(Plain)

Calls(f) == f.todo # << >> /\ Head(f.todo) \in ChildSteps

Order(st) ==
  /\ \A i \in DOMAIN st : Ordered(st[i].todo)
  /\ \A i \in DOMAIN st : i # Len(st) => Calls(st[i])

Iterates(f) == Headed(f.todo, "body") \/ Headed(f.todo, "again")

Busy(st) == { i \in DOMAIN st : Waits(st, i, "body") \/ Waits(st, i, "again") }
Depth(st) == Cardinality(Busy(st))

Weight(f) == IF Iterates(f) THEN 1 ELSE 0

ScopeInv == Order(stack) /\ Len(scopes) = 1 + Depth(stack)

\* Only finitely many activations run iterations.
LEMMA DepthType ==
  ASSUME NEW S, NEW st \in Seq(S)
  PROVE  IsFiniteSet(Busy(st)) /\ Depth(st) \in Nat
<1>1. Len(st) \in Nat /\ Busy(st) \subseteq 1 .. Len(st)
  BY LenProperties DEF Busy
<1>2. IsFiniteSet(1 .. Len(st))
  BY <1>1, FS_Interval
<1>3. IsFiniteSet(Busy(st))
  BY <1>1, <1>2, FS_Subset
<1> QED
  BY <1>3, FS_CardinalityType DEF Depth

\* One more activation.
LEMMA DepthAppend ==
  ASSUME NEW S, NEW st \in Seq(S), NEW f
  PROVE  Depth(Append(st, f)) = Depth(st) + Weight(f)
<1> DEFINE new == Append(st, f)
           n == Len(st)
<1>1. st \in Seq(S \cup {f}) /\ f \in S \cup {f}
  BY SeqMonotonic
<1>2. /\ new \in Seq(S \cup {f})
      /\ Len(new) = n + 1 /\ n \in Nat
      /\ \A i \in 1 .. n : new[i] = st[i]
      /\ new[n + 1] = f
  BY <1>1, AppendProperties, LenProperties
<1>3. DOMAIN new = 1 .. n + 1 /\ DOMAIN st = 1 .. n
  BY <1>1, <1>2, LenProperties
<1> HIDE DEF new, n
<1>4. \A i \in 1 .. n : i \in Busy(new) <=> i \in Busy(st)
  BY <1>2, <1>3 DEF Busy, Waits
<1>5. n + 1 \in Busy(new) <=> Iterates(f)
  BY <1>2, <1>3 DEF Busy, Waits, Iterates, Headed
<1>6. /\ Busy(new) \subseteq 1 .. n + 1 /\ Busy(st) \subseteq 1 .. n
      /\ IsFiniteSet(Busy(st)) /\ Depth(st) \in Nat
  BY <1>3, DepthType DEF Busy
<1>7. n + 1 \notin Busy(st) /\ \A i \in 1 .. n + 1 : i = n + 1 \/ i \in 1 .. n
  BY <1>2, <1>6
<1>8. CASE Iterates(f)
  <2>1. Busy(new) = Busy(st) \cup {n + 1}
    BY <1>4, <1>5, <1>6, <1>7, <1>8
  <2>2. Cardinality(Busy(st) \cup {n + 1}) = Cardinality(Busy(st)) + 1
    BY <1>6, <1>7, FS_AddElement
  <2> QED
    BY <1>8, <2>1, <2>2 DEF Depth, Weight, new
<1>9. CASE ~ Iterates(f)
  <2>1. Busy(new) = Busy(st)
    BY <1>4, <1>5, <1>6, <1>7, <1>9
  <2> QED
    BY <1>6, <1>9, <2>1 DEF Depth, Weight, new
<1> QED
  BY <1>8, <1>9

\* Another one in the place of the innermost.
LEMMA DepthReplace ==
  ASSUME NEW st \in Seq(Frame), st # << >>, NEW f
  PROVE  /\ Depth(st) = Depth(Front(st)) + Weight(Last(st))
         /\ Depth(Append(Front(st), f)) = Depth(st) - Weight(Last(st)) + Weight(f)
<1>1. Front(st) \in Seq(Frame) /\ st = Append(Front(st), Last(st))
  <2>1. /\ Front(st) \in Seq(Frame) /\ Len(st) \in Nat \ {0}
        /\ Len(Front(st)) = Len(st) - 1
        /\ \A i \in 1 .. Len(st) - 1 : Front(st)[i] = st[i]
    BY Ends
  <2>2. Last(st) = st[Len(st)] /\ Last(st) \in Frame
    BY <2>1, ElementOfSeq DEF Last
  <2> DEFINE new == Append(Front(st), Last(st))
  <2>3. /\ new \in Seq(Frame) /\ Len(new) = Len(st)
        /\ \A i \in 1 .. Len(st) - 1 : new[i] = st[i]
        /\ new[Len(st)] = st[Len(st)]
    BY <2>1, <2>2, AppendProperties
  <2>4. \A i \in 1 .. Len(st) : new[i] = st[i]
    BY <2>1, <2>3
  <2> HIDE DEF new
  <2>5. new = st
    BY <2>1, <2>3, <2>4, SeqEqual
  <2> QED
    BY <2>1, <2>5 DEF new
<1>2. Depth(st) = Depth(Front(st)) + Weight(Last(st))
  BY <1>1, DepthAppend
<1>3. Depth(Append(Front(st), f)) = Depth(Front(st)) + Weight(f)
  BY <1>1, DepthAppend
<1>4. Depth(Front(st)) \in Nat /\ Weight(Last(st)) \in Nat /\ Weight(f) \in Nat
  BY <1>1, DepthType DEF Weight
<1> QED
  BY <1>2, <1>3, <1>4

\* An activation on top of one that waits for it.
LEMMA OrderAppend ==
  ASSUME NEW S, NEW st \in Seq(S), Order(st), st # << >> => Calls(Last(st)),
         NEW f, Ordered(f.todo)
  PROVE  Order(Append(st, f))
<1> DEFINE new == Append(st, f)
           n == Len(st)
<1>1. st \in Seq(S \cup {f}) /\ f \in S \cup {f}
  BY SeqMonotonic
<1>2. /\ new \in Seq(S \cup {f})
      /\ Len(new) = n + 1 /\ n \in Nat
      /\ \A i \in 1 .. n : new[i] = st[i]
      /\ new[n + 1] = f
  BY <1>1, AppendProperties, LenProperties
<1>3. DOMAIN new = 1 .. n + 1 /\ DOMAIN st = 1 .. n
  BY <1>1, <1>2, LenProperties
<1>4. n \in 1 .. n => Calls(st[n])
  <2>1. n \in 1 .. n => st # << >>
    BY <1>2
  <2> QED
    BY <2>1 DEF Last
<1> HIDE DEF new, n
<1>5. ASSUME NEW i \in 1 .. n
      PROVE  Ordered(new[i].todo) /\ Calls(new[i])
  <2>1. Ordered(st[i].todo) /\ (i # n => Calls(st[i]))
    BY <1>3 DEF Order, n
  <2> QED
    BY <1>2, <1>4, <2>1
<1>6. \A i \in 1 .. n + 1 : i = n + 1 \/ i \in 1 .. n
  BY <1>2
<1>7. Order(new)
  BY <1>2, <1>3, <1>5, <1>6 DEF Order
<1> QED
  BY <1>7 DEF new

\* The activations below the innermost one.
LEMMA OrderFront ==
  ASSUME NEW st \in Seq(Frame), st # << >>, Order(st)
  PROVE  /\ Order(Front(st))
         /\ Front(st) # << >> => Calls(Last(Front(st)))
<1> DEFINE new == Front(st)
           n == Len(st)
<1>1. /\ new \in Seq(Frame) /\ n \in Nat \ {0}
      /\ Len(new) = n - 1
      /\ \A i \in 1 .. n - 1 : new[i] = st[i]
  BY Ends
<1>2. DOMAIN new = 1 .. n - 1 /\ DOMAIN st = 1 .. n
  BY <1>1, LenProperties
<1> HIDE DEF new
<1>3. \A i \in 1 .. n - 1 : i \in 1 .. n /\ i # n
  BY <1>1
<1>4. \A i \in 1 .. n - 1 : Ordered(new[i].todo) /\ Calls(new[i])
  BY <1>1, <1>2, <1>3 DEF Order
<1>5. Order(new)
  BY <1>1, <1>2, <1>4 DEF Order
<1>6. new # << >> => Calls(Last(new))
  <2>1. new # << >> => n - 1 \in 1 .. n - 1
    BY <1>1, EmptySeq
  <2> QED
    BY <1>1, <1>4, <2>1 DEF Last
<1> QED
  BY <1>5, <1>6 DEF new

\* A step of the innermost activation: scopes must follow its weight.
LEMMA ReplaceKeepsScopes ==
  ASSUME TypeOK, ScopeInv, stack # << >>, NEW f, Ordered(f.todo),
         stack' = Append(Front(stack), f),
         Len(scopes') = Len(scopes) - Weight(Top) + Weight(f)
  PROVE  ScopeInv'
<1>1. stack \in Seq(Frame) /\ Order(stack) /\ Len(scopes) = 1 + Depth(stack)
  BY DEF TypeOK, ScopeInv
<1>2. Front(stack) \in Seq(Frame)
  BY <1>1, Ends
<1>3. Order(Append(Front(stack), f))
  BY <1>1, <1>2, OrderFront, OrderAppend
<1>4. Depth(Append(Front(stack), f)) = Depth(stack) - Weight(Top) + Weight(f)
  BY <1>1, DepthReplace DEF Top
<1>5. Depth(stack) \in Nat /\ Weight(Top) \in Nat /\ Weight(f) \in Nat
  BY <1>1, DepthType DEF Weight
<1>6. Len(scopes') = 1 + (Depth(stack) - Weight(Top) + Weight(f))
  BY <1>1, <1>5
<1> QED
  BY <1>3, <1>4, <1>6 DEF ScopeInv, Order, Depth, Busy, Waits

\* The end of execute() leaves the global scope.
LEMMA EndingKeepsScopes ==
  ASSUME Ending
  PROVE  ScopeInv'
<1>1. Order(<< >>)
  BY DEF Order
<1>2. Busy(<< >>) = {}
  BY DEF Busy
<1>3. Depth(<< >>) = 0
  BY <1>2, FS_EmptySet DEF Depth
<1>4. Len(<<scopes[1]>>) = 1
  OBVIOUS
<1> QED
  BY <1>1, <1>3, <1>4 DEF Ending, ScopeInv

-----------------------------------------------------------------------------
(* Steps that open and close no scope. *)

\* The innermost activation's next step is not part of an iteration.
Ready == stack # << >> /\ Top.todo # << >> /\ Top.todo \in Seq(Plain)

\* So are all the steps of f.
Plainly(f) ==
  /\ DOMAIN f = {"node", "start", "ls", "body", "todo", "vals", "rd"}
  /\ f.todo \in Seq(Plain)

Onward ==
  /\ Ready
  /\ \E f : Plainly(f) /\ stack' = Append(Front(stack), f)

\* Steps that run no iteration weigh nothing.
LEMMA PlainWeight ==
  ASSUME NEW f, f.todo \in Seq(Plain)
  PROVE  Ordered(f.todo) /\ Weight(f) = 0
<1>1. f.todo # << >> => Head(f.todo) \in Plain
  BY HeadTailProperties
<1>2. ~ Iterates(f)
  BY <1>1 DEF Iterates, Headed, Plain
<1> QED
  BY <1>2 DEF Ordered, Weight

\* A step is ready unless it is "body" or "again".
LEMMA AtReady ==
  ASSUME TypeOK, ScopeInv, NEW step, NEW n, At(step, n), step \notin {"body", "again"}
  PROVE  Ready
<1>1. stack # << >> /\ Top.todo # << >> /\ Head(Top.todo) = step
  BY DEF At
<1>2. Ordered(Top.todo)
  <2>1. Len(stack) \in DOMAIN stack
    BY <1>1, EmptySeq, LenProperties DEF TypeOK
  <2> QED
    BY <2>1 DEF ScopeInv, Order, Top, Last
<1> QED
  BY <1>1, <1>2 DEF Ordered, Headed, Ready

\* The constructors of frames keep the steps plain.
LEMMA PlainFrames ==
  ASSUME TypeOK, Ready
  PROVE  /\ \A n : Plainly(Done(n))
         /\ \A f, p : Plainly(f) => Plainly(Push(f, p))
         /\ \A f, s : Plainly(f) => Plainly(Reading(f, s))
         /\ \A f : \A s \in Seq(Plain) : Plainly(f) => Plainly(Then(f, s))
         /\ \A f : \A s \in Seq(Plain) : Plainly(f) => Plainly([f EXCEPT !.todo = s])
<1>1. DOMAIN Top = {"node", "start", "ls", "body", "todo", "vals", "rd"}
  BY TopType DEF Frame, Ready
<1>2. Tail(Top.todo) \in Seq(Plain)
  BY HeadTailProperties DEF Ready
<1>3. \A n : Plainly(Done(n))
  BY <1>1, <1>2 DEF Plainly, Done
<1>4. /\ \A f, p : Plainly(f) => Plainly(Push(f, p))
      /\ \A f, s : Plainly(f) => Plainly(Reading(f, s))
  BY DEF Plainly, Push, Reading
<1>5. ASSUME NEW f, NEW s \in Seq(Plain), Plainly(f)
      PROVE  Plainly(Then(f, s)) /\ Plainly([f EXCEPT !.todo = s])
  <2>1. s \o f.todo \in Seq(Plain)
    BY <1>5, ConcatProperties DEF Plainly
  <2> QED
    BY <1>5, <2>1 DEF Plainly, Then
<1> QED
  BY <1>3, <1>4, <1>5

\* Going on within a node keeps the scopes right if their number is kept.
LEMMA OnwardKeepsScopes ==
  ASSUME TypeOK, ScopeInv, Onward, Len(scopes') = Len(scopes)
  PROVE  ScopeInv'
<1>1. PICK f : Plainly(f) /\ stack' = Append(Front(stack), f)
  BY DEF Onward
<1>2. Ordered(f.todo) /\ Weight(f) = 0 /\ Weight(Top) = 0
  BY <1>1, PlainWeight DEF Plainly, Onward, Ready
<1>3. Len(scopes) \in Nat
  BY LenProperties DEF TypeOK, ScopesOK
<1>4. Len(scopes') = Len(scopes) - Weight(Top) + Weight(f)
  BY <1>2, <1>3
<1> QED
  BY <1>1, <1>2, <1>4, ReplaceKeepsScopes DEF Onward, Ready

\* What Resume, Step and Yield do.
LEMMA ResumeOnward ==
  ASSUME Ready, NEW f, NEW p, NEW h, Plainly(f), Resume(f, p, h)
  PROVE  Onward /\ scopes' = scopes
BY DEF Onward, Resume

\* The same for a step without a result.
LEMMA StepOnward ==
  ASSUME Ready, NEW f, NEW p, Plainly(f), Step(f, p)
  PROVE  Onward /\ scopes' = scopes
BY ResumeOnward DEF Step

\* The same for a step with a result.
LEMMA YieldOnward ==
  ASSUME TypeOK, Ready, NEW r, NEW f, NEW p, Plainly(f), Yield(r, f, p)
  PROVE  Ending \/ (Onward /\ scopes' = scopes)
<1>1. \A q : Plainly(Push(f, q))
  BY PlainFrames
<1> QED
  BY <1>1, ResumeOnward, FailShape DEF Yield

-----------------------------------------------------------------------------
(* The actions. *)

\* What an action does that opens and closes no scope.
Steady == Ending \/ (Onward /\ scopes' = scopes)

\* The actions that yield a result.
LEMMA ResultsSteady ==
  ASSUME TypeOK, ScopeInv,
         \/ Lookup \/ String \/ Integer \/ NewList \/ NewDictionary
         \/ Unary \/ Binary \/ Compare \/ Subscript \/ Attribute
         \/ Decided \/ Undecided \/ Call \/ Fetch \/ MakeAlias \/ Member \/ Iterate
  PROVE  Steady
<1>1. \A step, n : At(step, n) /\ step \notin {"body", "again"} => Ready
  BY AtReady
<1>2. Ready
  <2>1. CASE Lookup \/ String \/ Integer \/ NewList \/ NewDictionary
    BY <1>1, <2>1 DEF Lookup, String, Integer, NewList, NewDictionary
  <2>2. CASE Unary \/ Binary \/ Compare \/ Subscript \/ Attribute
    BY <1>1, <2>2 DEF Unary, Binary, Compare, Subscript, Attribute
  <2>3. CASE Decided \/ Undecided \/ Call \/ Fetch
    BY <1>1, <2>3 DEF Decided, Undecided, Call, Fetch
  <2>4. CASE MakeAlias \/ Member \/ Iterate
    BY <1>1, <2>4 DEF MakeAlias, Member, Iterate
  <2> QED
    BY <2>1, <2>2, <2>3, <2>4
<1>3. (\E msg : Fail(msg)) \/ (\E r, n, p : Yield(r, Done(n), p))
  BY DEF Lookup, String, Integer, NewList, NewDictionary, Unary, Binary, Compare,
         Subscript, Attribute, Decided, Undecided, Call, Fetch, MakeAlias, Member, Iterate
<1> QED
  BY <1>2, <1>3, PlainFrames, FailShape, YieldOnward DEF Steady

\* The actions that read names and operators or write to an object.
LEMMA MovesSteady ==
  ASSUME TypeOK, ScopeInv,
         \/ ReadOp \/ ReadName \/ ReadNames \/ Drop \/ CheckCallable
         \/ AppendElement \/ InsertEntry \/ Augment
  PROVE  Steady
<1>1. \A step, n : At(step, n) /\ step \notin {"body", "again"} => Ready
  BY AtReady
<1>2. Ready
  <2>1. CASE ReadOp \/ ReadName
    BY <1>1, <2>1 DEF ReadOp, ReadName
  <2>2. CASE ReadNames
    <3>1. At("names", 0) \/ At("dropNames", 0)
      BY <2>2 DEF ReadNames
    <3> QED
      BY <1>1, <3>1
  <2>3. CASE Drop
    <3>1. "body" \notin DOMAIN Dropped /\ "again" \notin DOMAIN Dropped
      BY DEF Dropped
    <3>2. PICK step \in DOMAIN Dropped : At(step, 0)
      BY <2>3 DEF Drop
    <3> QED
      BY <1>1, <3>1, <3>2
  <2>4. CASE CheckCallable \/ AppendElement \/ InsertEntry \/ Augment
    <3>1. At("callable", 1) \/ At("append", 2) \/ At("insert", 2) \/ At("augment", 2)
      BY <2>4 DEF CheckCallable, AppendElement, InsertEntry, Augment
    <3> QED
      BY <1>1, <3>1
  <2> QED
    BY <2>1, <2>2, <2>3, <2>4
<1>3. \/ \E msg : Fail(msg)
      \/ \E n, p, h : \/ Resume(Done(n), p, h)
                      \/ \E s : Resume(Reading(Done(n), s), p, h)
  <2>1. CASE ReadOp \/ ReadName \/ ReadNames
    <3>1. \/ \E msg : Fail(msg)
          \/ \E p : Step(Done(0), p) \/ \E s : Step(Reading(Done(0), s), p)
      BY <2>1 DEF ReadOp, ReadName, ReadNames
    <3> QED
      BY <3>1 DEF Step
  <2>2. CASE Drop \/ CheckCallable
    <3>1. (\E msg : Fail(msg)) \/ (\E p : Step(Done(0), p))
      BY <2>2 DEF Drop, CheckCallable
    <3> QED
      BY <3>1 DEF Step
  <2>3. CASE AppendElement \/ InsertEntry \/ Augment
    BY <2>3 DEF AppendElement, InsertEntry, Augment
  <2> QED
    BY <2>1, <2>2, <2>3
<1> QED
  BY <1>2, <1>3, PlainFrames, FailShape, ResumeOnward DEF Steady

\* Counted loops, skipped nodes and conditions put plain steps in front.
LEMMA BranchesSteady ==
  ASSUME TypeOK, ScopeInv, Count \/ Skip \/ Decide \/ Choose
  PROVE  Steady
<1>1. \A step, n : At(step, n) /\ step \notin {"body", "again"} => Ready
  BY AtReady
<1>2. Ready
  <2>1. CASE Count
    <3>1. "body" \notin DOMAIN Repeats /\ "again" \notin DOMAIN Repeats
      BY DEF Repeats
    <3>2. PICK step \in DOMAIN Repeats : At(step, 0)
      BY <2>1 DEF Count
    <3> QED
      BY <1>1, <3>1, <3>2
  <2>2. CASE Skip
    BY <1>1, <2>2 DEF Skip
  <2>3. CASE Decide
    BY <1>1, <2>3 DEF Decide
  <2>4. CASE Choose
    BY <1>1, <2>4 DEF Choose
  <2> QED
    BY <2>1, <2>2, <2>3, <2>4
<1>3. /\ \A n : Plainly(Done(n))
      /\ \A f : \A s \in Seq(Plain) : Plainly(f) => Plainly(Then(f, s))
      /\ \A f : \A s \in Seq(Plain) : Plainly(f) => Plainly([f EXCEPT !.todo = s])
      /\ \A f, p : Plainly(f) => Plainly(Push(f, p))
  BY <1>2, PlainFrames
<1>4. "skip" \in Plain /\ "branch" \in Plain /\ "decided" \in Plain
  BY DEF Plain, Steps, ChildSteps
<1>5. CASE Count
  <2>1. PICK step \in DOMAIN Repeats :
          /\ At(step, 0) /\ Reads("u32", pos)
          /\ Step(Then(Done(0), Times(code[pos].val, Repeats[step])), pos + 1)
    BY <1>5 DEF Count
  <2>2. code[pos].val \in Nat
    BY <2>1 DEF Reads, TypeOK, IsCode, IsField
  <2> DEFINE s == Times(code[pos].val, Repeats[step])
  <2>3. s \in Seq(Plain)
    BY <2>2, RepeatsPlain, TimesType
  <2>4. Step(Then(Done(0), s), pos + 1)
    BY <2>1
  <2> HIDE DEF s
  <2> QED
    BY <1>2, <1>3, <2>3, <2>4, StepOnward DEF Steady
<1>6. CASE Skip
  <2>1. \/ \E msg : Fail(msg)
        \/ \E type \in DOMAIN Skipper : Step(Then(Done(0), Skipper[type]), pos + 1)
    BY <1>6 DEF Skip
  <2> QED
    BY <1>2, <1>3, <2>1, SkipperPlain, FailShape, StepOnward DEF Steady
<1>7. CASE Decide
  <2> DEFINE left == (Len(Top.todo) - 2) \div 2
             s == Times(left, <<"skip">>) \o <<"decided">>
  <2>1. \/ \E msg : Fail(msg)
        \/ Step(Done(1), pos)
        \/ Step([Done(1) EXCEPT !.todo = s], pos)
    BY <1>7 DEF Decide
  <2>2. left \in Int
    BY <1>2, LenProperties DEF Ready
  <2> HIDE DEF left
  <2>3. s \in Seq(Plain)
    <3>1. <<"skip">> \in Seq(Plain) /\ <<"decided">> \in Seq(Plain)
      BY <1>4, ShortPlain
    <3>2. Times(left, <<"skip">>) \in Seq(Plain)
      BY <2>2, <3>1, TimesType
    <3> QED
      BY <3>1, <3>2, ConcatProperties
  <2> HIDE DEF s
  <2> QED
    BY <1>2, <1>3, <2>1, <2>3, FailShape, StepOnward DEF Steady
<1>8. CASE Choose
  <2> DEFINE f == Done(0)
  <2>1. \/ \E msg : Fail(msg)
        \/ Step(Then(f, <<"branch">>), pos)
        \/ Step(Push(Then(f, <<"skip">>), Null), pos)
        \/ Step(Then(f, <<"branch", "skip">>), pos)
        \/ Step(Then(f, <<"skip", "branch">>), pos)
    BY <1>8 DEF Choose
  <2>2. /\ <<"branch">> \in Seq(Plain) /\ <<"skip">> \in Seq(Plain)
        /\ <<"branch", "skip">> \in Seq(Plain) /\ <<"skip", "branch">> \in Seq(Plain)
    BY <1>4, ShortPlain
  <2>3. Plainly(f)
    BY <1>3
  <2> HIDE DEF f
  <2>4. /\ Plainly(Then(f, <<"branch">>)) /\ Plainly(Push(Then(f, <<"skip">>), Null))
        /\ Plainly(Then(f, <<"branch", "skip">>)) /\ Plainly(Then(f, <<"skip", "branch">>))
    BY <1>3, <2>2, <2>3
  <2> QED
    BY <1>2, <2>1, <2>4, FailShape, StepOnward DEF Steady
<1> QED
  BY <1>5, <1>6, <1>7, <1>8

\* Jumps, imports and the end.
LEMMA OthersSteady ==
  ASSUME TypeOK, ScopeInv, Jump \/ Load \/ Finish
  PROVE  Steady
<1>1. CASE Finish
  <2>1. \E msg : Fail(msg)
    BY <1>1 DEF Finish
  <2> QED
    BY <2>1, FailShape DEF Steady
<1>2. CASE Jump
  <2>1. PICK step \in {"break", "continue"} :
          /\ At(step, 0)
          /\ IF Top.ls = "None" THEN Fail("Not a loop")
             ELSE Step([Done(0) EXCEPT !.ls = IF step = "break" THEN "Break" ELSE "Continue"], pos)
    BY <1>2 DEF Jump
  <2>2. Ready
    BY <2>1, AtReady
  <2>3. Plainly(Done(0))
    BY <2>2, PlainFrames
  <2>4. \A l : Plainly([Done(0) EXCEPT !.ls = l])
    BY <2>3 DEF Plainly
  <2>5. (\E msg : Fail(msg)) \/ (\E l : Step([Done(0) EXCEPT !.ls = l], pos))
    BY <2>1
  <2> QED
    BY <2>2, <2>4, <2>5, FailShape, StepOnward DEF Steady
<1>3. CASE Load
  <2>1. Ready
    BY <1>3, AtReady DEF Load
  <2>2. Plainly(Done(0)) /\ \A p : Plainly(Push(Done(0), p))
    BY <2>1, PlainFrames
  <2>3. \/ \E msg : Fail(msg)
        \/ \E r : Yield(r, Done(0), pos)
        \/ \E p : stack' = Append(Front(stack), Push(Done(0), p)) /\ UNCHANGED scopes
    BY <1>3 DEF Load
  <2> QED
    BY <2>1, <2>2, <2>3, FailShape, YieldOnward DEF Steady, Onward
<1> QED
  BY <1>1, <1>2, <1>3

\* None of them changes which scopes there are.
LEMMA SteadyKeepsScopes ==
  ASSUME TypeOK, ScopeInv, Steady
  PROVE  ScopeInv'
BY EndingKeepsScopes, OnwardKeepsScopes DEF Steady

\* Chains over the same numbers are equally long.
LEMMA SameLength ==
  ASSUME NEW sc, NEW new, ScopesOK(sc), ScopesOK(new), DOMAIN new = DOMAIN sc
  PROVE  Len(new) = Len(sc)
<1>1. /\ Len(sc) \in Nat \ {0} /\ DOMAIN sc = 1 .. Len(sc)
      /\ Len(new) \in Nat \ {0} /\ DOMAIN new = 1 .. Len(new)
  BY LenProperties, EmptySeq DEF ScopesOK
<1>2. Len(sc) \in 1 .. Len(new) /\ Len(new) \in 1 .. Len(sc)
  BY <1>1
<1> QED
  BY <1>1, <1>2

\* Binding names opens no scope.
LEMMA BoundDomain ==
  /\ \A sc, x, p : DOMAIN SetValue(sc, x, p) = DOMAIN sc
  /\ \A sc, names, h, p : DOMAIN Bound(sc, names, h, p) = DOMAIN sc
<1>1. \A sc, x, p : DOMAIN SetValue(sc, x, p) = DOMAIN sc
  BY DEF SetValue
<1> QED
  BY <1>1 DEF Bound

\* Assignments, imports and returns.
LEMMA BindingsKeepScopes ==
  ASSUME TypeOK, TypeOK', ScopeInv, Assign \/ BindImport \/ Terminate
  PROVE  ScopeInv'
<1>1. \A step, n : At(step, n) /\ step \notin {"body", "again"} => Ready
  BY AtReady
<1>2. Ready
  <2>1. At("target", 1) \/ At("bind", 2) \/ At("terminate", 0)
    BY DEF Assign, BindImport, Terminate
  <2> QED
    BY <1>1, <2>1
<1>3. Plainly(Done(0))
  BY <1>2, PlainFrames
<1>4. \/ \E msg : Fail(msg)
      \/ stack' = Append(Front(stack), Done(0)) /\ DOMAIN scopes' = DOMAIN scopes
  <2>1. CASE Assign
    <3>1. \/ \E msg : Fail(msg)
          \/ /\ stack' = Append(Front(stack), Done(0))
             /\ \E names, p : scopes' = Bound(scopes, names, heap, p)
      BY <2>1 DEF Assign
    <3> QED
      BY <3>1, BoundDomain
  <2>2. CASE BindImport
    <3>1. /\ stack' = Append(Front(stack), Done(0))
          /\ \E x, p : scopes' = SetValue(scopes, x, p)
      BY <2>2 DEF BindImport
    <3> QED
      BY <3>1, BoundDomain
  <2>3. CASE Terminate
    BY <2>3 DEF Terminate
  <2> QED
    BY <2>1, <2>2, <2>3
<1>5. CASE stack' = Append(Front(stack), Done(0)) /\ DOMAIN scopes' = DOMAIN scopes
  <2>1. Len(scopes') = Len(scopes)
    BY <1>5, SameLength DEF TypeOK
  <2> QED
    BY <1>2, <1>3, <1>5, <2>1, OnwardKeepsScopes DEF Onward
<1> QED
  BY <1>4, <1>5, FailShape, EndingKeepsScopes

\* A loop that opens a body_scope has the two steps of an iteration.
LEMMA OpeningKeepsScopes ==
  ASSUME TypeOK, ScopeInv, Ready, NEW f, NEW t \in Seq(Plain),
         f.todo = <<"body", "again">> \o t, stack' = Append(Front(stack), f),
         Len(scopes') = Len(scopes) + 1
  PROVE  ScopeInv'
<1>1. f.todo # << >> /\ Head(f.todo) = "body" /\ Tail(f.todo) = <<"again">> \o t
  OBVIOUS
<1>2. Tail(f.todo) # << >> /\ Head(Tail(f.todo)) = "again" /\ Tail(Tail(f.todo)) = t
  <2>1. <<"again">> \o t # << >> /\ Head(<<"again">> \o t) = "again" /\ Tail(<<"again">> \o t) = t
    OBVIOUS
  <2> QED
    BY <1>1, <2>1
<1>3. Ordered(f.todo) /\ Weight(f) = 1
  BY <1>1, <1>2 DEF Ordered, Headed, Weight, Iterates
<1>4. Weight(Top) = 0
  BY PlainWeight DEF Ready
<1>5. Len(scopes) \in Nat
  BY LenProperties DEF TypeOK, ScopesOK
<1>6. Len(scopes') = Len(scopes) - Weight(Top) + Weight(f)
  BY <1>3, <1>4, <1>5
<1> QED
  BY <1>3, <1>6, ReplaceKeepsScopes DEF Ready

\* The frame of such a loop.
LEMMA OpenFrame ==
  ASSUME TypeOK, Ready, NEW n
  PROVE  \E t \in Seq(Plain) :
           /\ Then(Done(n), <<"body", "again">>).todo = <<"body", "again">> \o t
           /\ \A p : Push(Then(Done(n), <<"body", "again">>), p).todo = <<"body", "again">> \o t
<1> DEFINE t == Done(n).todo
<1>1. Plainly(Done(n))
  BY PlainFrames
<1>2. Then(Done(n), <<"body", "again">>).todo = <<"body", "again">> \o t
  BY <1>1 DEF Plainly, Then
<1>3. \A p : Push(Then(Done(n), <<"body", "again">>), p).todo = <<"body", "again">> \o t
  BY <1>1 DEF Plainly, Then, Push
<1> QED
  BY <1>1, <1>2, <1>3 DEF Plainly

\* The length of a chain with one more scope.
LEMMA OpenedLength ==
  ASSUME TypeOK
  PROVE  /\ Len(Append(scopes, Fresh)) = Len(scopes) + 1
         /\ ScopesOK(Append(scopes, Fresh))
<1>1. Fresh \in Range(scopes) \cup {Fresh} /\ scopes \in Seq(Range(scopes) \cup {Fresh})
  BY SeqMonotonic DEF TypeOK, ScopesOK
<1> QED
  BY <1>1, AppendProperties, OpenedScopes DEF TypeOK

\* The condition of a while loop.
LEMMA WhileKeepsScopes ==
  ASSUME TypeOK, ScopeInv, While
  PROVE  ScopeInv'
<1>1. Ready
  BY AtReady DEF While
<1>2. OpenBody(Done(0)) \/ Step(Then(Done(0), <<"skip">>), pos)
  BY DEF While
<1>3. CASE OpenBody(Done(0))
  <2>1. /\ stack' = Append(Front(stack), Then(Done(0), <<"body", "again">>))
        /\ Len(scopes') = Len(scopes) + 1
    BY <1>3, OpenedLength DEF OpenBody
  <2> QED
    BY <1>1, <2>1, OpenFrame, OpeningKeepsScopes
<1>4. CASE Step(Then(Done(0), <<"skip">>), pos)
  <2>1. "skip" \in Plain
    BY DEF Plain, Steps
  <2>2. Plainly(Then(Done(0), <<"skip">>))
    BY <1>1, <2>1, PlainFrames, ShortPlain
  <2> QED
    BY <1>1, <1>4, <2>2, StepOnward, SteadyKeepsScopes DEF Steady
<1> QED
  BY <1>2, <1>3, <1>4

\* The head of a for loop.
LEMMA AdvanceKeepsScopes ==
  ASSUME TypeOK, TypeOK', ScopeInv, Advance
  PROVE  ScopeInv'
<1>1. Ready
  BY AtReady DEF Advance
<1>2. \/ Stop \/ \E msg : Fail(msg)
      \/ \E fresh, p, it : Bind(fresh, p, it)
  BY DEF Advance, NextOfRange, NextOfList, NextOfItems, NextOfDictionary
<1>3. CASE Stop
  <2>1. "skip" \in Plain
    BY DEF Plain, Steps
  <2>2. Plainly(Then(Done(0), <<"skip">>))
    BY <1>1, <2>1, PlainFrames, ShortPlain
  <2> QED
    BY <1>1, <1>3, <2>2, StepOnward, SteadyKeepsScopes DEF Steady, Stop
<1>4. ASSUME NEW fresh, NEW p, NEW it, Bind(fresh, p, it)
      PROVE  ScopeInv'
  <2>1. \/ \E msg : Fail(msg)
        \/ /\ stack' = Append(Front(stack), Push(Then(Done(0), <<"body", "again">>), p))
           /\ \E names, h : scopes' = Bound(Append(scopes, Fresh), names, h, p)
    BY <1>4 DEF Bind
  <2>2. CASE /\ stack' = Append(Front(stack), Push(Then(Done(0), <<"body", "again">>), p))
             /\ \E names, h : scopes' = Bound(Append(scopes, Fresh), names, h, p)
    <3>1. DOMAIN scopes' = DOMAIN Append(scopes, Fresh)
      <4>1. PICK names, h : scopes' = Bound(Append(scopes, Fresh), names, h, p)
        BY <2>2
      <4> DEFINE sc == Append(scopes, Fresh)
      <4> HIDE DEF sc
      <4>2. DOMAIN Bound(sc, names, h, p) = DOMAIN sc
        BY BoundDomain
      <4> QED
        BY <4>1, <4>2 DEF sc
    <3>2. Len(scopes') = Len(scopes) + 1
      BY <3>1, OpenedLength, SameLength DEF TypeOK
    <3> QED
      BY <1>1, <2>2, <3>2, OpenFrame, OpeningKeepsScopes
  <2> QED
    BY <2>1, <2>2, FailShape, EndingKeepsScopes
<1> QED
  BY <1>2, <1>3, <1>4, FailShape, EndingKeepsScopes

\* The end of an iteration.
LEMMA AgainKeepsScopes ==
  ASSUME TypeOK, ScopeInv, Again
  PROVE  ScopeInv'
<1>1. /\ stack # << >> /\ Top.todo # << >> /\ Head(Top.todo) = "again"
      /\ Len(scopes) > 1 /\ scopes' = Front(scopes)
  BY DEF Again, At
<1>2. Weight(Top) = 1
  BY <1>1 DEF Weight, Iterates, Headed
<1>3. \E s \in Seq(Plain) : stack' = Append(Front(stack), [Done(1) EXCEPT !.todo = s])
  <2>1. /\ << >> \in Seq(Plain) /\ <<"skip">> \in Seq(Plain) /\ <<"next">> \in Seq(Plain)
    <3>1. "skip" \in Plain /\ "next" \in Plain
      BY DEF Plain, Steps
    <3> QED
      BY <3>1, ShortPlain
  <2>2. Handler["WhileLoop"] \in Seq(Plain)
    <3>1. "WhileLoop" \in DOMAIN Handler
      BY DEF Handler
    <3> QED
      BY <3>1, HandlerPlain
  <2>3. \E s \in { << >>, <<"skip">>, <<"next">>, Handler["WhileLoop"] } :
          stack' = Append(Front(stack), [Done(1) EXCEPT !.todo = s])
    BY DEF Again
  <2> QED
    BY <2>1, <2>2, <2>3
<1>4. PICK s \in Seq(Plain) : stack' = Append(Front(stack), [Done(1) EXCEPT !.todo = s])
  BY <1>3
<1> DEFINE f == [Done(1) EXCEPT !.todo = s]
<1>5. f.todo = s
  <2>1. DOMAIN Top = {"node", "start", "ls", "body", "todo", "vals", "rd"}
    BY <1>1, TopType DEF Frame
  <2> QED
    BY <2>1 DEF Done
<1> HIDE DEF f
<1>6. Ordered(f.todo) /\ Weight(f) = 0
  BY <1>5, PlainWeight
<1>7. Len(scopes) \in Nat /\ Len(scopes') = Len(scopes) - 1
  BY <1>1, Ends DEF TypeOK, ScopesOK
<1>8. Len(scopes') = Len(scopes) - Weight(Top) + Weight(f)
  BY <1>2, <1>6, <1>7
<1> QED
  BY <1>1, <1>4, <1>6, <1>8, ReplaceKeepsScopes DEF f

\* Entering a node: its caller waits for it.
LEMMA EnterKeepsScopes ==
  ASSUME TypeOK, ScopeInv, NEW step \in ChildSteps, Enter(step)
  PROVE  ScopeInv'
<1>1. \/ \E msg : Fail(msg)
      \/ \E type \in DOMAIN Handler : \E ls :
           stack' = Append(stack, NewFrame(type, pos, ls)) /\ scopes' = scopes
  BY DEF Enter
<1>2. ASSUME NEW type \in DOMAIN Handler, NEW ls,
             stack' = Append(stack, NewFrame(type, pos, ls)), scopes' = scopes
      PROVE  ScopeInv'
  <2> DEFINE f == NewFrame(type, pos, ls)
  <2>1. f.todo \in Seq(Plain)
    BY HandlerPlain DEF NewFrame
  <2> HIDE DEF f
  <2>2. Ordered(f.todo) /\ Weight(f) = 0
    BY <2>1, PlainWeight
  <2>3. Calls(Last(stack))
    BY DEF Enter, At, Top, Calls
  <2>4. stack \in Seq(Frame) /\ Order(stack) /\ Len(scopes) = 1 + Depth(stack)
    BY DEF TypeOK, ScopeInv
  <2>5. Order(Append(stack, f))
    BY <2>2, <2>3, <2>4, OrderAppend
  <2>6. Depth(Append(stack, f)) = Depth(stack)
    BY <2>2, <2>4, DepthAppend, DepthType
  <2>7. stack' = Append(stack, f)
    BY <1>2 DEF f
  <2>8. Len(scopes') = Len(scopes)
    BY <1>2
  <2>9. Order(stack') /\ Depth(stack') = Depth(stack)
    BY <2>5, <2>6, <2>7
  <2> QED
    BY <2>4, <2>8, <2>9 DEF ScopeInv, Order, Depth, Busy, Waits
<1> QED
  BY <1>1, <1>2, FailShape, EndingKeepsScopes

\* What is left of a caller's steps: if it waited for "body", "again" is next.
LEMMA TailOrdered ==
  ASSUME NEW t, Ordered(t), t # << >>, Head(t) \in ChildSteps
  PROVE  Ordered(Tail(t)) /\ (Headed(Tail(t), "again") <=> Head(t) = "body")
                          /\ ~ Headed(Tail(t), "body") /\ Head(t) # "again"
<1>1. "again" \notin ChildSteps
  BY DEF ChildSteps
<1>2. \A s \in Seq(Plain) : ~ Headed(s, "body") /\ ~ Headed(s, "again")
  <2>1. \A s \in Seq(Plain) : s # << >> => Head(s) \in Plain
    BY HeadTailProperties
  <2> QED
    BY <2>1 DEF Headed, Plain
<1>3. CASE t \in Seq(Plain)
  <2>1. Tail(t) \in Seq(Plain)
    BY <1>3, HeadTailProperties
  <2>2. Head(t) # "body"
    BY <1>2, <1>3 DEF Headed
  <2> QED
    BY <1>1, <1>2, <2>1, <2>2 DEF Ordered
<1>4. CASE Headed(t, "body") /\ Headed(Tail(t), "again") /\ Tail(Tail(t)) \in Seq(Plain)
  BY <1>1, <1>4 DEF Ordered, Headed
<1> QED
  BY <1>1, <1>3, <1>4 DEF Ordered, Headed

\* Leaving a node.
LEMMA ReturnKeepsScopes ==
  ASSUME TypeOK, ScopeInv, Return
  PROVE  ScopeInv'
<1> DEFINE below == Front(stack)
           n == Len(stack)
           caller == stack[n - 1]
           f == Received(caller, ReturnValue(Top), Top.ls)
<1>1. /\ n > 1 /\ Top.todo = << >> /\ caller.todo # << >>
      /\ stack' = Append(Front(below), f) /\ scopes' = scopes
  BY DEF Return
<1>2. stack \in Seq(Frame) /\ Order(stack) /\ Len(scopes) = 1 + Depth(stack)
  BY DEF TypeOK, ScopeInv
<1>3. stack # << >> /\ n \in Nat /\ n - 1 \in Nat \ {0} /\ n - 1 \in DOMAIN stack /\ n - 1 # n
  <2>1. n \in Nat /\ DOMAIN stack = 1 .. n /\ (stack = << >> => n = 0)
    BY <1>2, LenProperties
  <2> HIDE DEF n
  <2> QED
    BY <1>1, <2>1
<1>4. /\ below \in Seq(Frame) /\ Len(below) = n - 1 /\ below # << >> /\ Last(below) = caller
      /\ Order(below)
  <2>1. /\ below \in Seq(Frame) /\ Len(below) = n - 1
        /\ \A i \in 1 .. n - 1 : below[i] = stack[i]
    BY <1>2, <1>3, Ends
  <2>2. below # << >> /\ Last(below) = caller
    BY <1>3, <2>1 DEF Last
  <2> QED
    BY <1>2, <1>3, <2>1, <2>2, OrderFront
<1>5. Depth(stack) = Depth(below) + Weight(Top) /\ Weight(Top) = 0
  <2>1. Depth(stack) = Depth(below) + Weight(Top)
    BY <1>2, <1>3, DepthReplace DEF Top
  <2>2. Weight(Top) = 0
    BY <1>1 DEF Weight, Iterates, Headed
  <2> QED
    BY <2>1, <2>2
<1>6. caller \in Frame /\ Ordered(caller.todo) /\ Head(caller.todo) \in ChildSteps
  BY <1>2, <1>3, ElementOfSeq, LenProperties DEF Order, Calls
<1>7. f.todo = Tail(caller.todo)
  BY <1>6 DEF Received, Frame
<1> HIDE DEF f, below, caller, n
<1>8. Ordered(f.todo) /\ Weight(f) = Weight(caller)
  <2>1. /\ Ordered(Tail(caller.todo))
        /\ Headed(Tail(caller.todo), "again") <=> Head(caller.todo) = "body"
        /\ ~ Headed(Tail(caller.todo), "body") /\ Head(caller.todo) # "again"
    BY <1>1, <1>6, TailOrdered
  <2>2. Iterates(f) <=> Iterates(caller)
    BY <1>1, <1>7, <2>1 DEF Iterates, Headed
  <2> QED
    BY <1>7, <2>1, <2>2 DEF Weight
<1>9. Order(Append(Front(below), f))
  <2>1. Front(below) \in Seq(Frame)
    BY <1>4, Ends
  <2> QED
    BY <1>4, <1>8, <2>1, OrderFront, OrderAppend
<1>10. Depth(Append(Front(below), f)) = Depth(stack)
  <2>1. Depth(Append(Front(below), f)) = Depth(below) - Weight(caller) + Weight(f)
    BY <1>4, DepthReplace
  <2>2. Depth(below) \in Nat /\ Weight(caller) \in Nat
    BY <1>4, DepthType DEF Weight
  <2> QED
    BY <1>5, <1>8, <2>1, <2>2
<1>11. Order(stack') /\ Depth(stack') = Depth(stack) /\ Len(scopes') = Len(scopes)
  BY <1>1, <1>9, <1>10
<1> QED
  BY <1>2, <1>11 DEF ScopeInv, Order, Depth, Busy, Waits

\* The host changes names only, and execute() begins in the global scope.
LEMMA HostKeepsScopes ==
  ASSUME TypeOK, TypeOK', ScopeInv, Host
  PROVE  ScopeInv'
<1>1. CASE SetString \/ SetList \/ SetModule
  <2>1. stack' = stack /\ (scopes' = scopes \/ \E x, p : scopes' = SetValue(scopes, x, p))
    BY <1>1 DEF SetString, PresetString, SetList, PresetList, SetModule, Preset
  <2>2. DOMAIN scopes' = DOMAIN scopes
    BY <2>1, BoundDomain
  <2>3. Len(scopes') = Len(scopes)
    BY <2>2, SameLength DEF TypeOK
  <2> QED
    BY <2>1, <2>3 DEF ScopeInv
<1>2. CASE Execute
  <2> DEFINE f == NewFrame(code[pos].val, pos, "None")
  <2>1. stack' = <<f>> /\ scopes' = scopes /\ f.todo \in Seq(Plain)
    BY <1>2, HandlerPlain DEF Execute, NewFrame
  <2> HIDE DEF f
  <2>2. stack = << >>
    BY <1>2 DEF Execute, Idle, TypeOK
  <2>3. Ordered(f.todo) /\ Weight(f) = 0
    BY <2>1, PlainWeight
  <2>4. << >> \in Seq(Frame) /\ Append(<< >>, f) = <<f>>
    OBVIOUS
  <2>5. Order(<<f>>)
    BY <2>2, <2>3, <2>4, OrderAppend DEF ScopeInv
  <2>6. Depth(<<f>>) = Depth(stack)
    <3>1. Depth(Append(<< >>, f)) = Depth(<< >>) + Weight(f) /\ Depth(<< >>) \in Nat
      BY <2>4, DepthAppend, DepthType
    <3>2. Depth(<<f>>) = Depth(<< >>)
      BY <2>3, <2>4, <3>1
    <3> QED
      BY <2>2, <3>2
  <2>7. Order(stack') /\ Depth(stack') = Depth(stack) /\ Len(scopes') = Len(scopes)
    BY <2>1, <2>5, <2>6
  <2> QED
    BY <2>7 DEF ScopeInv, Order, Depth, Busy, Waits
<1> QED
  BY <1>1, <1>2 DEF Host

\* Every step opens and closes scopes with the iterations.
LEMMA NextKeepsScopes ==
  ASSUME TypeOK, TypeOK', ScopeInv, [Next]_vars
  PROVE  ScopeInv'
<1>1. CASE UNCHANGED vars
  BY <1>1 DEF vars, ScopeInv
<1>2. CASE Expressions
  BY <1>2, ResultsSteady, MovesSteady, BranchesSteady, SteadyKeepsScopes DEF Expressions
<1>3. CASE Nodes
  BY <1>3, EnterKeepsScopes, ReturnKeepsScopes, MovesSteady, BranchesSteady, SteadyKeepsScopes
  DEF Nodes
<1>4. CASE Statement
  BY <1>4, ResultsSteady, MovesSteady, BranchesSteady, OthersSteady, SteadyKeepsScopes,
     BindingsKeepScopes, WhileKeepsScopes, AdvanceKeepsScopes, AgainKeepsScopes
  DEF Statement
<1>5. CASE Finish
  BY <1>5, OthersSteady, SteadyKeepsScopes
<1> QED
  BY <1>1, <1>2, <1>3, <1>4, <1>5, HostKeepsScopes DEF Next, Interpret, Ended

\* In the first state there is the global scope.
LEMMA InitScopes ==
  ASSUME Init
  PROVE  ScopeInv
<1>1. Order(<< >>) /\ stack = << >> /\ Len(scopes) = 1
  BY DEF Init, Order
<1>2. Busy(<< >>) = {}
  BY DEF Busy
<1>3. Depth(<< >>) = 0
  BY <1>2, FS_EmptySet DEF Depth
<1> QED
  BY <1>1, <1>3 DEF ScopeInv

(***************************************************************************)
(* A body_scope exists exactly while its loop runs an iteration, in every  *)
(* program: however an iteration ends, by its last statement, a jump, a    *)
(* return or an exception, its scope goes away with it, and no other       *)
(* scope does.                                                             *)
(***************************************************************************)
THEOREM ScopePerIterationCorrect == Spec => []ScopePerIteration
<1>1. Init => TypeOK /\ ScopeInv
  BY InitTypes, InitScopes
<1>2. TypeOK /\ ScopeInv /\ [Next]_vars => (TypeOK /\ ScopeInv)'
  BY NextKeepsTypes, NextKeepsScopes
<1>3. ScopeInv => ScopePerIteration
  BY DEF ScopeInv, Depth, Busy, ScopePerIteration
<1> QED
  BY <1>1, <1>2, <1>3, PTL DEF Spec

-----------------------------------------------------------------------------
(* What iterators borrow. *)

\* What a for loop holds for its run: an iterator over a list or a dictionary.
\* Other iterators are values, which programs get from range() and items().
LoopIterator(o) == o.type = "Iterator" /\ o.val.kind \in {"List", "DictKey"}

LoopIterators(h) == { p \in DOMAIN h : LoopIterator(h[p]) }

\* The pointers that programs may do with as they like.
Loose(h) == Ptr \ LoopIterators(h)

\* What comes of items(), and borrows a dictionary that its holder need not own.
OfItems(o) == o.type = "DictItems" \/ (o.type = "Iterator" /\ o.val.kind = "DictItem")

Itemless(h) == \A p \in DOMAIN h : ~ OfItems(h[p])

\* The name "items" occurs nowhere in the program.
CallsNoItems ==
  \A p \in DOMAIN code : code[p].kind \in {"str", "op"} => code[p].val # "items"

\* A loop's steps, and those of the other nodes, which make no loop iterator.
Allowed(node) ==
  IF node = "ForLoop" THEN Steps \ { "append", "insert", "elements", "entries", "bind" }
                      ELSE Steps \ { "iterate" }

\* Only a for loop holds a loop iterator, and its first pointer is to what that
\* is over.
Tied(f, h) ==
  \A i \in DOMAIN f.vals : f.vals[i] \in LoopIterators(h) =>
    /\ f.node = "ForLoop" /\ i # 1
    /\ f.vals[1] = h[f.vals[i]].val.over /\ f.vals[1] # Null

Proper(f, h) ==
  /\ f.todo \in Seq(Allowed(f.node)) /\ f.vals \in Seq(Ptr)
  /\ Tied(f, h)
  /\ CallsNoItems => "items" \notin Range(f.rd)

\* Nothing else has a pointer to a loop iterator.
Clear(sc, mo, h) ==
  /\ ScopesHold(sc, Loose(h)) /\ ModulesHold(mo, Loose(h)) /\ ObjectsHold(h, Loose(h))
  /\ CallsNoItems => Itemless(h)

BorrowInv ==
  /\ \A i \in DOMAIN stack : Proper(stack[i], heap)
  /\ Clear(scopes, modules, heap)

(***************************************************************************)
(* Only what comes of items() can outlive the dictionary that it borrows.  *)
(***************************************************************************)
OnlyItemsDangle ==
  \A f \in Range(stack) : \A p \in Range(f.vals) \cap DOMAIN heap :
    OfItems(heap[p]) \/ Borrowed(heap[p]) \subseteq DOMAIN heap

\* No loop iterator of h is new, or over something else than in g.
Quiet(g, h) ==
  \A p \in LoopIterators(h) : p \in LoopIterators(g) /\ h[p].val.over = g[p].val.over

\* The steps that the tables of module Bytecode put into a frame.
LEMMA HandlerAllowed ==
  ASSUME NEW t \in DOMAIN Handler
  PROVE  Handler[t] \in Seq(Allowed(t))
<1>1. CASE t = "ForLoop"
  <2>1. {"names", "expr", "iterate", "next"} \subseteq Allowed(t)
    BY <1>1 DEF Allowed, Steps, ChildSteps
  <2>2. Handler[t] = <<"names", "expr", "iterate", "next">>
    BY <1>1 DEF Handler
  <2> QED
    BY <2>1, <2>2
<1>2. CASE t \in {"List", "Dictionary"}
  <2>1. {"list", "elements", "dictionary", "entries"} \subseteq Allowed(t)
    BY <1>2 DEF Allowed, Steps, Repeats
  <2>2. Handler["List"] = <<"list", "elements">> /\ Handler["Dictionary"] = <<"dictionary", "entries">>
    BY DEF Handler
  <2>3. Handler["List"] \in Seq(Allowed(t)) /\ Handler["Dictionary"] \in Seq(Allowed(t))
    BY <2>1, <2>2
  <2> QED
    BY <1>2, <2>3
<1>3. CASE t \notin {"ForLoop", "List", "Dictionary"}
  <2> DEFINE S == Allowed(t)
  <2>1. { "name", "expr", "load", "member", "bind", "alias", "attribute",
          "lookup", "continue", "break", "op", "unary", "binary",
          "terminate", "string", "integer", "callable", "call",
          "test", "choose", "subscript", "while",
          "fetch", "augment", "undecided", "targets",
          "stmts", "conditions", "comparisons", "args" } \subseteq S
    BY <1>3 DEF Allowed, Steps, ChildSteps, Repeats
  <2>2. t \in { "ImportFrom", "Import", "Alias", "Attribute", "Name", "Continue",
                "Break", "Assign", "StatementList", "UnaryOp", "BoolOp",
                "BinaryOp", "Return", "String", "Compare", "Index", "Integer",
                "Call", "If", "IfElse", "Subscript", "WhileLoop", "AugmentedAssign" }
    BY <1>3 DEF Handler
  <2> HIDE DEF S
  <2>3. \A a, b, c, d, e \in S :
          /\ <<a>> \in Seq(S) /\ <<a, b>> \in Seq(S) /\ <<a, b, c>> \in Seq(S)
          /\ <<a, b, c, d>> \in Seq(S) /\ <<a, b, c, d, e>> \in Seq(S)
    OBVIOUS
  <2>4. /\ Handler["ImportFrom"] \in Seq(S) /\ Handler["Import"] \in Seq(S)
        /\ Handler["Alias"] \in Seq(S) /\ Handler["Attribute"] \in Seq(S)
        /\ Handler["Name"] \in Seq(S) /\ Handler["Continue"] \in Seq(S)
        /\ Handler["Break"] \in Seq(S) /\ Handler["Assign"] \in Seq(S)
    BY <2>1, <2>3 DEF Handler
  <2>5. /\ Handler["StatementList"] \in Seq(S) /\ Handler["UnaryOp"] \in Seq(S)
        /\ Handler["BoolOp"] \in Seq(S) /\ Handler["BinaryOp"] \in Seq(S)
        /\ Handler["Return"] \in Seq(S) /\ Handler["String"] \in Seq(S)
        /\ Handler["Compare"] \in Seq(S) /\ Handler["Index"] \in Seq(S)
    BY <2>1, <2>3 DEF Handler
  <2>6. /\ Handler["Integer"] \in Seq(S) /\ Handler["Call"] \in Seq(S)
        /\ Handler["If"] \in Seq(S) /\ Handler["IfElse"] \in Seq(S)
        /\ Handler["Subscript"] \in Seq(S) /\ Handler["WhileLoop"] \in Seq(S)
        /\ Handler["AugmentedAssign"] \in Seq(S)
    BY <2>1, <2>3 DEF Handler
  <2> QED
    BY <2>2, <2>4, <2>5, <2>6 DEF S
<1> QED
  BY <1>1, <1>2, <1>3

\* Short sequences of steps.
LEMMA ShortAllowed ==
  ASSUME NEW node
  PROVE  /\ << >> \in Seq(Allowed(node)) /\ <<"skip">> \in Seq(Allowed(node))
         /\ <<"branch">> \in Seq(Allowed(node)) /\ <<"decided">> \in Seq(Allowed(node))
         /\ <<"branch", "skip">> \in Seq(Allowed(node))
         /\ <<"skip", "branch">> \in Seq(Allowed(node))
         /\ <<"body", "again">> \in Seq(Allowed(node)) /\ <<"next">> \in Seq(Allowed(node))
         /\ Handler["WhileLoop"] \in Seq(Allowed(node))
<1>1. {"skip", "branch", "decided", "body", "again", "next", "expr", "while"} \subseteq Allowed(node)
  BY DEF Allowed, Steps, ChildSteps
<1>2. Handler["WhileLoop"] = <<"expr", "while">>
  BY DEF Handler
<1> QED
  BY <1>1, <1>2

\* skip_next.
LEMMA SkipperAllowed ==
  ASSUME NEW t \in DOMAIN Skipper, NEW node
  PROVE  Skipper[t] \in Seq(Allowed(node))
<1>1. DOMAIN Skipper =
        { "Name", "ForLoop", "Assign", "StatementList", "Index", "Return",
          "String", "Compare", "Integer", "Call", "IfElse", "List",
          "Tuple", "Dictionary", "UnaryOp", "BoolOp", "AugmentedAssign",
          "BinaryOp", "If", "Attribute", "Subscript", "Break", "Continue" }
  BY DEF Skipper
<1> DEFINE Used == { "dropString", "dropNames", "skip", "skips", "skippedComparisons",
                     "dropInteger", "skippedEntries", "dropOp" }
<1>2. Used \subseteq Allowed(node)
  BY DEF Allowed, Steps, Repeats, Dropped
<1>3. \A a, b, c \in Used :
        /\ << >> \in Seq(Used) /\ <<a>> \in Seq(Used) /\ <<a, b>> \in Seq(Used)
        /\ <<a, b, c>> \in Seq(Used)
  OBVIOUS
<1>4. /\ Skipper["Name"] \in Seq(Used) /\ Skipper["ForLoop"] \in Seq(Used)
      /\ Skipper["Assign"] \in Seq(Used) /\ Skipper["StatementList"] \in Seq(Used)
      /\ Skipper["Index"] \in Seq(Used) /\ Skipper["Return"] \in Seq(Used)
      /\ Skipper["String"] \in Seq(Used) /\ Skipper["Compare"] \in Seq(Used)
      /\ Skipper["Integer"] \in Seq(Used) /\ Skipper["Call"] \in Seq(Used)
      /\ Skipper["IfElse"] \in Seq(Used) /\ Skipper["List"] \in Seq(Used)
  BY <1>3 DEF Skipper
<1>5. /\ Skipper["Tuple"] \in Seq(Used) /\ Skipper["Dictionary"] \in Seq(Used)
      /\ Skipper["UnaryOp"] \in Seq(Used) /\ Skipper["BoolOp"] \in Seq(Used)
      /\ Skipper["AugmentedAssign"] \in Seq(Used) /\ Skipper["BinaryOp"] \in Seq(Used)
      /\ Skipper["If"] \in Seq(Used) /\ Skipper["Attribute"] \in Seq(Used)
      /\ Skipper["Subscript"] \in Seq(Used) /\ Skipper["Break"] \in Seq(Used)
      /\ Skipper["Continue"] \in Seq(Used)
  BY <1>3 DEF Skipper
<1> HIDE DEF Used
<1> QED
  BY <1>1, <1>2, <1>4, <1>5, SeqMonotonic

\* The repeated parts.
LEMMA RepeatsAllowed ==
  ASSUME NEW t \in DOMAIN Repeats, NEW node, t \in Allowed(node)
  PROVE  Repeats[t] \in Seq(Allowed(node))
<1>1. CASE t \in {"elements", "entries"}
  <2>1. node # "ForLoop"
    BY <1>1 DEF Allowed
  <2>2. {"expr", "append", "name", "insert"} \subseteq Allowed(node)
    BY <2>1 DEF Allowed, Steps, ChildSteps
  <2>3. Repeats["elements"] = <<"expr", "append">> /\ Repeats["entries"] = <<"name", "expr", "insert">>
    BY DEF Repeats
  <2>4. Repeats["elements"] \in Seq(Allowed(node)) /\ Repeats["entries"] \in Seq(Allowed(node))
    BY <2>2, <2>3
  <2> QED
    BY <1>1, <2>4
<1>2. CASE t \notin {"elements", "entries"}
  <2>1. t \in { "stmts", "targets", "args", "comparisons", "conditions", "skips",
                "skippedEntries", "skippedComparisons" }
    BY <1>2 DEF Repeats
  <2> DEFINE Used == { "stmt", "target", "expr", "op", "compare", "decide", "skip", "dropOp" }
  <2>2. Used \subseteq Allowed(node)
    BY DEF Allowed, Steps, ChildSteps, Dropped
  <2>3. \A a, b, c \in Used :
          <<a>> \in Seq(Used) /\ <<a, b>> \in Seq(Used) /\ <<a, b, c>> \in Seq(Used)
    OBVIOUS
  <2>4. /\ Repeats["stmts"] \in Seq(Used) /\ Repeats["targets"] \in Seq(Used)
        /\ Repeats["args"] \in Seq(Used) /\ Repeats["comparisons"] \in Seq(Used)
        /\ Repeats["conditions"] \in Seq(Used) /\ Repeats["skips"] \in Seq(Used)
        /\ Repeats["skippedEntries"] \in Seq(Used) /\ Repeats["skippedComparisons"] \in Seq(Used)
    BY <2>3 DEF Repeats, SkipComparison
  <2> HIDE DEF Used
  <2> QED
    BY <2>1, <2>2, <2>4, SeqMonotonic
<1> QED
  BY <1>1, <1>2

-----------------------------------------------------------------------------
(* What a step leaves. *)

\* A heap without new loop iterators.
LEMMA QuietKeeps ==
  ASSUME NEW g, NEW h, Quiet(g, h)
  PROVE  /\ Loose(g) \subseteq Loose(h)
         /\ \A f : Proper(f, g) => Proper(f, h)
BY DEF Quiet, Loose, Proper, Tied

\* The heap as it is.
LEMMA QuietSame == \A h : Quiet(h, h)
BY DEF Quiet

\* The end of a step frees objects.
LEMMA SettlesQuiet ==
  ASSUME NEW h, Settle(h)
  PROVE  Quiet(h, heap') /\ \A sc, mo : Clear(sc, mo, h) => Clear(sc, mo, heap')
<1>1. DOMAIN heap' \subseteq DOMAIN h /\ \A p \in DOMAIN heap' : heap'[p] = h[p]
  BY DEF Settle, Collect
<1>2. Quiet(h, heap')
  BY <1>1 DEF Quiet, LoopIterators
<1>3. Loose(h) \subseteq Loose(heap')
  BY <1>2, QuietKeeps
<1>4. ObjectsHold(h, Loose(h)) => ObjectsHold(heap', Loose(h))
  BY <1>1 DEF ObjectsHold
<1>5. Itemless(h) => Itemless(heap')
  BY <1>1 DEF Itemless
<1> QED
  BY <1>2, <1>3, <1>4, <1>5, HoldWider DEF Clear

\* A step that leaves frames and all else in order over a heap h.
LEMMA SettledKeep ==
  ASSUME NEW h, Settle(h) \/ heap' = h,
         \A i \in DOMAIN stack' : Proper(stack'[i], h),
         Clear(scopes', modules', h), code' = code
  PROVE  BorrowInv'
<1>1. Quiet(h, heap') /\ Clear(scopes', modules', heap')
  BY SettlesQuiet, QuietSame
<1>2. \A i \in DOMAIN stack' : Proper(stack'[i], heap')
  BY <1>1, QuietKeeps
<1>3. CallsNoItems' <=> CallsNoItems
  BY DEF CallsNoItems
<1> QED
  BY <1>1, <1>2, <1>3 DEF BorrowInv, Proper, Clear, Tied, Loose, LoopIterators, Itemless,
     ScopesHold, ModulesHold, ObjectsHold

\* f is the top frame at a later step.
Heir(f, h) == DOMAIN f = DOMAIN Top /\ f.node = Top.node /\ Proper(f, h)

\* The top frame becomes f, no loop iterator is made and none gets loose.
Turns ==
  /\ code' = code
  /\ \E f, h : /\ stack' = Append(Front(stack), f) /\ Proper(f, h)
               /\ Quiet(heap, h) /\ Settle(h)
               /\ Clear(scopes', modules', h)

\* Such a step keeps the invariant.
LEMMA TurnsKeep ==
  ASSUME TypeOK, BorrowInv, stack # << >>, Turns
  PROVE  BorrowInv'
<1>1. PICK f, h : /\ stack' = Append(Front(stack), f) /\ Proper(f, h)
                  /\ Quiet(heap, h) /\ Settle(h)
                  /\ Clear(scopes', modules', h) /\ code' = code
  BY DEF Turns
<1>2. /\ DOMAIN stack' = DOMAIN stack /\ stack'[Len(stack)] = f
      /\ \A i \in DOMAIN stack : i # Len(stack) => stack'[i] = stack[i]
  <2> DEFINE st == Append(Front(stack), f)
  <2>1. st = stack'
    BY <1>1
  <2> HIDE DEF st
  <2> QED
    BY <2>1, <1>1, NewTop
<1>3. \A i \in DOMAIN stack : Proper(stack[i], h)
  BY <1>1, QuietKeeps DEF BorrowInv
<1>4. \A i \in DOMAIN stack' : Proper(stack'[i], h)
  BY <1>1, <1>2, <1>3
<1> QED
  BY <1>1, <1>4, SettledKeep

\* The end of execute() keeps it.
LEMMA FailsKeep ==
  ASSUME TypeOK, BorrowInv, Fails
  PROVE  BorrowInv'
<1>1. /\ stack' = << >> /\ scopes' = <<scopes[1]>> /\ code' = code /\ modules' = modules
      /\ Settle(heap)
  BY DEF Fails, Fail
<1>2. scopes # << >> /\ 1 \in DOMAIN scopes
  BY EmptySeq, LenProperties DEF TypeOK, ScopesOK
<1>3. ScopesHold(scopes', Loose(heap))
  BY <1>1, <1>2 DEF BorrowInv, Clear, ScopesHold
<1>4. Clear(scopes', modules', heap)
  BY <1>1, <1>3 DEF BorrowInv, Clear
<1>5. DOMAIN stack' = {}
  BY <1>1
<1> QED
  BY <1>1, <1>4, <1>5, SettledKeep

-----------------------------------------------------------------------------
(* The top frame, after a step. *)

\* The invariant, at a step of the top frame.
Poised == TypeOK /\ BorrowInv /\ stack # << >>

\* What holds of the top frame then.
LEMMA PoisedTop ==
  ASSUME Poised
  PROVE  /\ Proper(Top, heap) /\ Clear(scopes, modules, heap)
         /\ DOMAIN Top = {"node", "start", "ls", "body", "todo", "vals", "rd"}
         /\ Top.rd \in Texts
<1>1. Top = stack[Len(stack)] /\ Len(stack) \in DOMAIN stack /\ Top \in Frame
  BY TopIndex, TopType DEF Poised
<1> QED
  BY <1>1 DEF Poised, BorrowInv, Frame

\* The null pointer.
LEMMA NullLoose == ASSUME TypeOK PROVE Null \in Loose(heap)
BY DEF TypeOK, HeapOK, Loose, LoopIterators, Null, Ptr

\* The operators on frames: the step that is done,
LEMMA DoneHeir ==
  ASSUME Poised, NEW step, NEW n \in Nat, At(step, n)
  PROVE  (\A k \in 0 .. n : Heir(Done(k), heap)) /\ Heir(Done(Len(Top.vals)), heap)
<1>1. /\ Top.todo # << >> /\ Len(Top.vals) \in Nat /\ Len(Top.vals) >= n
      /\ Top.vals \in Seq(Ptr)
  BY AtType DEF Poised
<1>2. Top.todo \in Seq(Allowed(Top.node)) /\ Tied(Top, heap)
      /\ (CallsNoItems => "items" \notin Range(Top.rd))
  BY PoisedTop DEF Proper
<1>3. Tail(Top.todo) \in Seq(Allowed(Top.node))
  BY <1>1, <1>2, HeadTailProperties
<1>4. ASSUME NEW k \in Nat, k <= Len(Top.vals)
      PROVE  Heir(Done(k), heap)
  <2> DEFINE v == SubSeq(Top.vals, 1, Len(Top.vals) - k)
             m == Len(Top.vals) - k
  <2>1. m \in Nat /\ m <= Len(Top.vals)
    BY <1>1, <1>4
  <2>2. v \in Seq(Ptr)
    BY <1>1, <2>1, Prefix
  <2>3. DOMAIN v = 1 .. m /\ \A i \in 1 .. m : v[i] = Top.vals[i] /\ i \in DOMAIN Top.vals
    BY <1>1, <2>1, SubSeqProperties, LenProperties
  <2>4. /\ DOMAIN Done(k) = DOMAIN Top /\ Done(k).node = Top.node /\ Done(k).vals = v
        /\ Done(k).todo = Tail(Top.todo) /\ Done(k).rd = Top.rd
    BY PoisedTop DEF Done
  <2> HIDE DEF v
  <2>5. Tied(Done(k), heap)
    <3> SUFFICES ASSUME NEW i \in 1 .. m, v[i] \in LoopIterators(heap)
                 PROVE  /\ Top.node = "ForLoop" /\ i # 1
                        /\ v[1] = heap[v[i]].val.over /\ v[1] # Null
      BY <2>3, <2>4 DEF Tied
    <3>1. 1 \in 1 .. m /\ v[1] = Top.vals[1] /\ v[i] = Top.vals[i] /\ i \in DOMAIN Top.vals
      BY <2>1, <2>3
    <3> QED
      BY <1>2, <3>1 DEF Tied
  <2> QED
    BY <1>2, <1>3, <2>2, <2>4, <2>5 DEF Heir, Proper
<1> QED
  BY <1>1, <1>4

\* a pointer to anything but a loop iterator,
LEMMA PushHeir ==
  ASSUME Poised, NEW h, NEW f, Heir(f, h), NEW p \in Loose(h)
  PROVE  Heir(Push(f, p), h)
<1>1. /\ f.vals \in Seq(Ptr) /\ Tied(f, h) /\ p \in Ptr
  BY DEF Heir, Proper, Loose
<1>2. /\ Append(f.vals, p) \in Seq(Ptr)
      /\ \A i \in DOMAIN Append(f.vals, p) :
           \/ i \in DOMAIN f.vals /\ Append(f.vals, p)[i] = f.vals[i]
           \/ i = Len(f.vals) + 1 /\ Append(f.vals, p)[i] = p
  BY <1>1, Grow
<1>3. f.vals # << >> => Append(f.vals, p)[1] = f.vals[1]
  BY <1>1, AppendProperties
<1>4. /\ Push(f, p).vals = Append(f.vals, p) /\ DOMAIN Push(f, p) = DOMAIN f
      /\ Push(f, p).node = f.node /\ Push(f, p).todo = f.todo /\ Push(f, p).rd = f.rd
  BY PoisedTop DEF Heir, Push
<1>5. \A i \in DOMAIN f.vals : f.vals # << >>
  BY <1>1
<1>6. p \notin LoopIterators(h)
  BY DEF Loose
<1> DEFINE v == Append(f.vals, p)
<1> HIDE DEF v
<1>7. Tied(Push(f, p), h)
  BY <1>1, <1>2, <1>3, <1>4, <1>5, <1>6 DEF Tied, v
<1> QED
  BY <1>2, <1>4, <1>7 DEF Heir, Proper

\* other steps,
LEMMA TodoHeir ==
  ASSUME Poised, NEW h, NEW f, Heir(f, h), NEW s \in Seq(Allowed(Top.node))
  PROVE  Heir(Then(f, s), h) /\ Heir([f EXCEPT !.todo = s], h)
<1>1. s \o f.todo \in Seq(Allowed(Top.node))
  BY ConcatProperties DEF Heir, Proper
<1> QED
  BY <1>1, PoisedTop DEF Heir, Proper, Tied, Then

\* what was read,
LEMMA ReadingHeir ==
  ASSUME Poised, NEW h, NEW f, Heir(f, h), NEW s, CallsNoItems => "items" \notin Range(s)
  PROVE  Heir(Reading(f, s), h)
BY PoisedTop DEF Heir, Proper, Tied, Reading

\* and another loop state.
LEMMA JumpHeir ==
  ASSUME Poised, NEW h, NEW f, Heir(f, h), NEW s
  PROVE  Heir([f EXCEPT !.ls = s], h)
BY PoisedTop DEF Heir, Proper, Tied

\* A step that leaves the objects alone.
LEMMA StepTurns ==
  ASSUME Poised, NEW f, Heir(f, heap), NEW p, Step(f, p)
  PROVE  Turns
<1>1. /\ stack' = Append(Front(stack), f) /\ Settle(heap)
      /\ scopes' = scopes /\ modules' = modules /\ code' = code
  BY DEF Step, Resume
<1> QED
  BY <1>1, PoisedTop, QuietSame DEF Turns, Heir

\* So with one that changes the scopes.
LEMMA ScopesTurn ==
  ASSUME Poised, NEW f, Heir(f, heap), stack' = Append(Front(stack), f),
         ScopesHold(scopes', Loose(heap)), UNCHANGED <<code, modules>>, Settle(heap)
  PROVE  Turns
<1>1. Clear(scopes', modules', heap)
  BY PoisedTop DEF Clear
<1> QED
  BY <1>1, QuietSame DEF Turns, Heir

-----------------------------------------------------------------------------
(* What operations yield. *)

\* An object that may be put anywhere.
Modest(o) ==
  /\ Owned(o) \subseteq Loose(heap) /\ ~ LoopIterator(o)
  /\ CallsNoItems => ~ OfItems(o)

\* A result that hands out no loop iterator, and a new object only if it owns none.
Inert(r) ==
  /\ r.kind = "use" => r.ptr \in Loose(heap)
  /\ r.kind = "new" => Modest(r.obj)

\* A heap with such an object.
LEMMA ModestQuiet ==
  ASSUME NEW q \in Ptr, NEW o, Modest(o), NEW h, h = Put(heap, q, o)
  PROVE  /\ Quiet(heap, h) /\ q \in Loose(h)
         /\ \A sc, mo : Clear(sc, mo, heap) => Clear(sc, mo, h)
<1>1. /\ DOMAIN h = DOMAIN heap \cup {q} /\ h[q] = o
      /\ \A p \in DOMAIN heap : p # q => h[p] = heap[p]
  BY DEF Put
<1>2. Quiet(heap, h) /\ q \in Loose(h)
  BY <1>1 DEF Quiet, LoopIterators, Loose, Modest
<1>3. Loose(heap) \subseteq Loose(h)
  BY <1>2, QuietKeeps
<1>4. ObjectsHold(heap, Loose(heap)) => ObjectsHold(h, Loose(heap))
  BY <1>1 DEF ObjectsHold, Modest
<1>5. Itemless(heap) /\ CallsNoItems => Itemless(h)
  BY <1>1 DEF Itemless, Modest
<1> QED
  BY <1>2, <1>3, <1>4, <1>5, HoldWider DEF Clear

\* A frame receives such a result.
LEMMA YieldTurns ==
  ASSUME Poised, NEW f, Heir(f, heap), NEW p, NEW r, Inert(r), Yield(r, f, p)
  PROVE  Turns \/ Fails
<1>1. CASE r.kind = "raise" /\ Fail(r.msg)
  BY <1>1 DEF Fails
<1>2. CASE r.kind = "use" /\ Resume(Push(f, r.ptr), p, heap) /\ UNCHANGED brk
  <2>1. Heir(Push(f, r.ptr), heap)
    BY <1>2, PushHeir DEF Inert
  <2>2. Step(Push(f, r.ptr), p)
    BY <1>2 DEF Step
  <2> QED
    BY <2>1, <2>2, StepTurns
<1>3. CASE r.kind = "new" /\ brk >= ArenaObjects /\ Fail(Full)
  BY <1>3 DEF Fails
<1>4. CASE /\ r.kind = "new" /\ brk < ArenaObjects
           /\ brk' = brk + 1
           /\ Resume(Push(f, brk + 1), p, Put(heap, brk + 1, r.obj))
  <2> DEFINE h == Put(heap, brk + 1, r.obj)
             g == Push(f, brk + 1)
  <2>1. brk + 1 \in Ptr
    BY DEF Poised, TypeOK, Ptr
  <2>2. /\ Quiet(heap, h) /\ brk + 1 \in Loose(h) /\ Clear(scopes, modules, h)
    BY <1>4, <2>1, ModestQuiet, PoisedTop DEF Inert
  <2>3. /\ stack' = Append(Front(stack), g) /\ Settle(h)
        /\ scopes' = scopes /\ modules' = modules /\ code' = code
    BY <1>4 DEF Resume
  <2> HIDE DEF h
  <2>4. Heir(g, h)
    <3>1. Heir(f, h)
      BY <2>2, QuietKeeps DEF Heir
    <3> QED
      BY <2>2, <3>1, PushHeir
  <2> QED
    BY <2>2, <2>3, <2>4 DEF Turns, Heir
<1> QED
  BY <1>1, <1>2, <1>3, <1>4 DEF Yield

\* Most kinds of results are.
LEMMA InertKinds ==
  /\ \A p \in Loose(heap) : Inert(Use(p))
  /\ \A m : Inert(Raise(m))
  /\ Inert(NullDereference) /\ Inert(DanglingReference) /\ Inert(BadCast)
  /\ \A b : Inert(New(Bool(b))) /\ Inert(New(Int32(b))) /\ Inert(New(Str(b)))
            /\ Inert(New(Builtin(b)))
  /\ \A m, n : Inert(New(Alias(m, n))) /\ Inert(New(Func(m, n)))
  /\ \A o, a, s, d : Inert(New(Iter("Range", o, a, s, d)))
  /\ Inert(New(List(<< >>))) /\ Inert(New(Dict(Empty)))
<1>1. /\ \A p \in Loose(heap) : Inert(Use(p))
      /\ \A m : Inert(Raise(m))
      /\ Inert(NullDereference) /\ Inert(DanglingReference) /\ Inert(BadCast)
  BY DEF Inert, Use, Raise, NullDereference, DanglingReference, BadCast
<1>2. \A o : o.type \notin {"List", "Tuple", "Dictionary", "DictItems", "Iterator"} => Modest(o)
  BY DEF Modest, Owned, LoopIterator, OfItems
<1>3. \A o : Modest(o) => Inert(New(o))
  BY DEF Inert, New
<1>4. /\ \A b : Modest(Bool(b)) /\ Modest(Int32(b)) /\ Modest(Str(b)) /\ Modest(Builtin(b))
      /\ \A m, n : Modest(Alias(m, n)) /\ Modest(Func(m, n))
  BY <1>2 DEF Bool, Int32, Str, Builtin, Alias, Func
<1>5. \A o, a, s, d : Modest(Iter("Range", o, a, s, d))
  BY DEF Modest, Owned, LoopIterator, OfItems, Iter
<1>6. Modest(List(<< >>))
  <2>1. List(<< >>).type = "List" /\ List(<< >>).val = << >>
    BY DEF List
  <2>2. Owned(List(<< >>)) = {}
    BY <2>1 DEF Owned
  <2> QED
    BY <2>1, <2>2 DEF Modest, LoopIterator, OfItems
<1>7. Modest(Dict(Empty))
  <2>1. Dict(Empty).type = "Dictionary" /\ Dict(Empty).val = Empty /\ DOMAIN Empty = {}
    BY DEF Dict, Empty
  <2>2. Owned(Dict(Empty)) = {}
    BY <2>1 DEF Owned
  <2> QED
    BY <2>1, <2>2 DEF Modest, LoopIterator, OfItems
<1> QED
  BY <1>1, <1>3, <1>4, <1>5, <1>6, <1>7

\* So with what Value.h computes,
LEMMA InertTruth == \A a, b : Inert(Truth(a, b)) /\ Inert(Negated(Truth(a, b)))
<1>1. \A a, b : Truth(a, b) = NullDereference \/ Truth(a, b) = New(Bool(b))
  BY DEF Truth
<1>2. Negated(NullDereference) = NullDereference
  BY DEF Negated, NullDereference, Raise
<1>3. \A b : \E c : Negated(New(Bool(b))) = New(Bool(c))
  BY DEF Negated, New
<1> QED
  BY <1>1, <1>2, <1>3, InertKinds

\* with what the operators yield,
LEMMA InertOperators ==
  ASSUME NEW op, NEW p, NEW q
  PROVE  /\ Inert(CompareResult(heap, op, p, q))
         /\ Inert(UnaryResult(heap, op, p))
         /\ Inert(BinaryResult(heap, op, p, q))
         /\ Inert(MemberResult(p, op))
<1>1. Inert(MemberResult(p, op))
  BY InertKinds DEF MemberResult
<1>2. Inert(CompareResult(heap, op, p, q))
  <2>1. \A e, r : Inert(ListContains(heap, e, r)) /\ Inert(Negated(ListContains(heap, e, r)))
    BY InertTruth DEF ListContains
  <2>2. \A m : Negated(Raise(m)) = Raise(m)
    BY DEF Negated, Raise
  <2>3. Negated(NullDereference) = NullDereference
    BY <2>2 DEF NullDereference
  <2> QED
    BY <2>1, <2>2, <2>3, InertTruth, InertKinds DEF CompareResult
<1>3. Inert(UnaryResult(heap, op, p))
  BY InertKinds DEF UnaryResult
<1>4. Inert(BinaryResult(heap, op, p, q))
  BY InertKinds DEF BinaryResult, AddResult, MultResult, SubResult
<1> QED
  BY <1>1, <1>2, <1>3, <1>4

\* an attribute that is not called items,
LEMMA InertAttribute ==
  ASSUME NEW p, NEW name, CallsNoItems => name # "items"
  PROVE  Inert(AttributeResult(heap, p, name))
<1>1. CallsNoItems \/ Inert(New(Items(p)))
  BY DEF Inert, New, Modest, Items, Owned, LoopIterator
<1>2. \A m : Inert(MemberResult(m, name))
  BY InertOperators
<1> QED
  BY <1>1, <1>2, InertKinds DEF AttributeResult

\* an element of a list or an entry of a dictionary,
LEMMA InertSubscript ==
  ASSUME Poised, NEW p, NEW q
  PROVE  Inert(SubscriptResult(heap, q, p))
<1>1. ObjectsHold(heap, Loose(heap)) /\ Null \in Loose(heap)
  BY PoisedTop, NullLoose DEF Clear, Poised
<1>2. Is(heap, p, "Dictionary") => \A k \in DOMAIN heap[p].val : heap[p].val[k] \in Loose(heap)
  BY <1>1 DEF Is, ObjectsHold, Owned
<1>3. Is(heap, p, "List") => \A i \in DOMAIN heap[p].val : heap[p].val[i] \in Loose(heap)
  BY <1>1 DEF Is, ObjectsHold, Owned
<1>4. /\ Inert(Raise("List index out of range")) /\ Inert(Raise("Invalid subscript"))
      /\ Inert(NullDereference) /\ \A x \in Loose(heap) : Inert(Use(x))
  BY InertKinds
<1> QED
  BY <1>1, <1>2, <1>3, <1>4 DEF SubscriptResult

\* with what a call returns,
LEMMA InertCall ==
  ASSUME Poised, NEW p \in DOMAIN heap, NEW args \in Seq(Ptr)
  PROVE  Inert(CallResult(heap, p, args))
<1>1. Null \in Loose(heap) /\ (CallsNoItems => Itemless(heap))
  BY PoisedTop, NullLoose DEF Clear, Poised
<1>2. \A name : Inert(BuiltinResult(heap, name, args))
  <2>1. Len(args) = 1 => args[1] \in Ptr
    <3> SUFFICES ASSUME Len(args) = 1 PROVE args[1] \in Ptr
      OBVIOUS
    <3>1. 1 \in 1 .. Len(args)
      OBVIOUS
    <3> QED
      BY <3>1, ElementOfSeq
  <2>2. Is(heap, args[1], "String") \/ Is(heap, args[1], "Integer")
          => args[1] \notin LoopIterators(heap)
    BY DEF Is, LoopIterators, LoopIterator
  <2>3. Len(args) = 1 /\ (Is(heap, args[1], "String") \/ Is(heap, args[1], "Integer"))
          => Inert(Use(args[1]))
    BY <2>1, <2>2, InertKinds DEF Loose
  <2> QED
    BY <1>1, <2>3, InertKinds DEF BuiltinResult
<1>3. Inert(RandIntResult(heap, args)) /\ Inert(HostResult(heap, args))
  BY InertKinds DEF RandIntResult, HostResult
<1>4. heap[p].type = "DictItems" => \A o : Inert(New(Iter("DictItem", o, 0, 0, {})))
  <2>1. heap[p].type = "DictItems" => ~ CallsNoItems
    BY <1>1 DEF Itemless, OfItems
  <2> QED
    BY <2>1 DEF Inert, New, Modest, Iter, Owned, LoopIterator
<1> QED
  BY <1>2, <1>3, <1>4, InertKinds DEF CallResult

\* and with what a name is bound to.
LEMMA InertLookup ==
  ASSUME Poised, NEW x, NEW r \in GetValue(scopes, x)
  PROVE  Inert(r)
<1>1. ASSUME NEW i \in Holders(scopes, x)
      PROVE  scopes[i].values[x] \in Loose(heap)
  BY <1>1, PoisedTop DEF Holders, ScopesHold, Clear
<1>2. Null \in Loose(heap)
  BY NullLoose DEF Poised
<1> QED
  BY <1>1, <1>2, InertKinds DEF GetValue

-----------------------------------------------------------------------------
(* What each action does with the pointers. *)

\* The steps that yield what an operation yields.
LEMMA OpsTurn ==
  ASSUME Poised,
         \/ String \/ Integer \/ Unary \/ Binary \/ Compare \/ Subscript \/ Attribute
         \/ Decided \/ Undecided \/ Call \/ MakeAlias \/ Member \/ NewList \/ NewDictionary
  PROVE  Turns \/ Fails
<1>1. ASSUME NEW step, NEW n \in Nat, At(step, n), NEW k \in 0 .. n, NEW r, Inert(r),
             NEW p, Yield(r, Done(k), p)
      PROVE  Turns \/ Fails
  BY <1>1, DoneHeir, YieldTurns
<1>2. CASE String \/ Integer
  <2>1. \E r, p, step : At(step, 0) /\ Inert(r) /\ Yield(r, Done(0), p)
    BY <1>2, InertKinds DEF String, Integer
  <2> QED
    BY <1>1, <2>1
<1>3. CASE NewList \/ NewDictionary
  <2>1. \E r, p, step : At(step, 0) /\ Inert(r) /\ Yield(r, Done(0), p)
    BY <1>3, InertKinds DEF NewList, NewDictionary
  <2> QED
    BY <1>1, <2>1
<1>4. CASE Unary
  BY <1>1, <1>4, InertOperators DEF Unary
<1>5. CASE Binary
  BY <1>1, <1>5, InertOperators DEF Binary
<1>6. CASE Compare
  BY <1>1, <1>6, InertOperators DEF Compare
<1>7. CASE Subscript
  BY <1>1, <1>7, InertSubscript DEF Subscript
<1>8. CASE Attribute
  <2>1. /\ At("attribute", 1) /\ Top.rd # << >>
        /\ Yield(AttributeResult(heap, Top.vals[1], Top.rd[1]), Done(1), pos)
    BY <1>8 DEF Attribute
  <2>2. Top.rd[1] \in Range(Top.rd)
    <3>1. 1 \in DOMAIN Top.rd
      BY <2>1, PoisedTop DEF Texts
    <3> QED
      BY <3>1 DEF Range
  <2>3. CallsNoItems => Top.rd[1] # "items"
    BY <2>2, PoisedTop DEF Proper
  <2> QED
    BY <1>1, <2>1, <2>3, InertAttribute
<1>9. CASE Decided \/ Undecided
  BY <1>1, <1>9, InertKinds DEF Decided, Undecided
<1>10. CASE Call
  <2>1. /\ At("call", 1) /\ Top.vals[1] \in DOMAIN heap
        /\ Yield(CallResult(heap, Top.vals[1], Tail(Top.vals)), Done(Len(Top.vals)), pos)
    BY <1>10 DEF Call
  <2>2. Tail(Top.vals) \in Seq(Ptr)
    <3>1. Top.vals \in Seq(Ptr) /\ Len(Top.vals) >= 1 /\ Len(Top.vals) \in Nat
      BY <2>1, AtType DEF Poised
    <3> QED
      BY <3>1, HeadTailProperties
  <2>3. Heir(Done(Len(Top.vals)), heap)
    BY <2>1, DoneHeir
  <2> QED
    BY <2>1, <2>2, <2>3, InertCall, YieldTurns
<1>11. CASE MakeAlias
  BY <1>1, <1>11, InertKinds DEF MakeAlias
<1>12. CASE Member
  BY <1>1, <1>12, InertOperators DEF Member
<1> QED
  BY <1>2, <1>3, <1>4, <1>5, <1>6, <1>7, <1>8, <1>9, <1>10, <1>11, <1>12

\* The steps that look a name up.
LEMMA NamesTurn ==
  ASSUME Poised, Lookup \/ Fetch
  PROVE  Turns \/ Fails
<1>1. CASE Lookup
  <2>1. At("lookup", 0)
    BY <1>1 DEF Lookup
  <2>2. \/ Yield(New(Bool(FALSE)), Done(0), pos + 1)
        \/ Yield(New(Bool(TRUE)), Done(0), pos + 1)
        \/ \E r \in GetValue(scopes, code[pos].val) : Yield(r, Done(0), pos + 1)
    BY <1>1 DEF Lookup
  <2>3. \E r : Inert(r) /\ Yield(r, Done(0), pos + 1)
    BY <2>2, InertLookup, InertKinds
  <2> QED
    BY <2>1, <2>3, DoneHeir, YieldTurns
<1>2. CASE Fetch
  <2>1. At("fetch", 0)
    BY <1>2 DEF Fetch
  <2>2. CASE IsName(pos)
    <3>1. \E r \in GetValue(scopes, code[pos + 1].val) : Yield(r, Done(0), pos + 2)
      BY <1>2, <2>2 DEF Fetch
    <3> QED
      BY <2>1, <3>1, InertLookup, DoneHeir, YieldTurns
  <2>3. CASE ~ IsName(pos)
    BY <1>2, <2>3 DEF Fetch, Fails
  <2> QED
    BY <2>2, <2>3
<1> QED
  BY <1>1, <1>2

\* The names that the program spells.
LEMMA NamesItemless ==
  ASSUME TypeOK, CallsNoItems, IsName(pos) \/ IsPair(pos)
  PROVE  "items" \notin Range(NamesAt(pos))
<1>1. \A p : Reads("str", p) => code[p].val # "items"
  BY DEF CallsNoItems, Reads
<1>2. CASE IsName(pos)
  <2>1. code[pos + 1].val # "items"
    BY <1>1, <1>2 DEF IsName
  <2> QED
    BY <1>2, <2>1 DEF NamesAt, Range
<1>3. CASE ~ IsName(pos)
  <2>1. (pos + 2) + 1 = pos + 3 /\ (pos + 4) + 1 = pos + 5
    BY FieldType
  <2>2. code[pos + 3].val # "items" /\ code[pos + 5].val # "items"
    BY <1>1, <1>3, <2>1 DEF IsName, IsPair
  <2> QED
    BY <1>3, <2>2 DEF NamesAt, Range
<1> QED
  BY <1>2, <1>3

\* The steps that only read the byte code.
LEMMA PlainTurn ==
  ASSUME Poised, Skip \/ Drop \/ Count \/ ReadOp \/ ReadName \/ ReadNames \/ CheckCallable \/ Jump
  PROVE  Turns \/ Fails
<1>1. ASSUME NEW step, NEW n \in Nat, At(step, n) PROVE Heir(Done(0), heap)
  BY <1>1, DoneHeir
<1>2. CASE Skip
  <2>1. Heir(Done(0), heap)
    BY <1>1, <1>2 DEF Skip
  <2>2. CASE code[pos].val \in DOMAIN Skipper
    <3>1. Step(Then(Done(0), Skipper[code[pos].val]), pos + 1)
      BY <1>2, <2>2 DEF Skip
    <3>2. Heir(Then(Done(0), Skipper[code[pos].val]), heap)
      BY <2>1, <2>2, SkipperAllowed, TodoHeir
    <3> QED
      BY <3>1, <3>2, StepTurns
  <2>3. CASE code[pos].val \notin DOMAIN Skipper
    BY <1>2, <2>3 DEF Skip, Fails
  <2> QED
    BY <2>2, <2>3
<1>3. CASE Drop
  BY <1>1, <1>3, StepTurns DEF Drop
<1>4. CASE Count
  <2>1. PICK step \in DOMAIN Repeats :
          /\ At(step, 0) /\ Reads("u32", pos)
          /\ Step(Then(Done(0), Times(code[pos].val, Repeats[step])), pos + 1)
    BY <1>4 DEF Count
  <2>2. Heir(Done(0), heap)
    BY <1>1, <2>1
  <2>3. step \in Allowed(Top.node)
    <3>1. Top.todo # << >> /\ Head(Top.todo) = step
      BY <2>1 DEF At
    <3>2. Top.todo \in Seq(Allowed(Top.node))
      BY PoisedTop DEF Proper
    <3> QED
      BY <3>1, <3>2, HeadTailProperties
  <2>4. Repeats[step] \in Seq(Allowed(Top.node))
    BY <2>3, RepeatsAllowed
  <2>5. code[pos].val \in Int
    BY <2>1, FieldType DEF Poised
  <2>6. Times(code[pos].val, Repeats[step]) \in Seq(Allowed(Top.node))
    BY <2>4, <2>5, TimesType
  <2> QED
    BY <2>1, <2>2, <2>6, TodoHeir, StepTurns
<1>5. CASE ReadOp
  <2>1. Step(Reading(Done(0), <<code[pos].val>>), pos + 1) /\ Heir(Done(0), heap) /\ Reads("op", pos)
    BY <1>1, <1>5 DEF ReadOp
  <2>2. CallsNoItems => "items" \notin Range(<<code[pos].val>>)
    BY <2>1 DEF CallsNoItems, Reads, Range
  <2> QED
    BY <2>1, <2>2, ReadingHeir, StepTurns
<1>6. CASE ReadName \/ ReadNames
  <2>1. Heir(Done(0), heap)
    BY <1>1, <1>6 DEF ReadName, ReadNames
  <2>2. \/ /\ IsName(pos) \/ IsPair(pos)
           /\ \E p : Step(Reading(Done(0), NamesAt(pos)), p)
        \/ \E p : Step(Done(0), p)
        \/ \E m : Fail(m)
    BY <1>6 DEF ReadName, ReadNames
  <2>3. IsName(pos) \/ IsPair(pos) => Heir(Reading(Done(0), NamesAt(pos)), heap)
    BY <2>1, NamesItemless, ReadingHeir DEF Poised
  <2> QED
    BY <2>1, <2>2, <2>3, StepTurns DEF Fails
<1>7. CASE CheckCallable
  <2>1. Heir(Done(0), heap)
    BY <1>1, <1>7 DEF CheckCallable
  <2>2. (\E p : Step(Done(0), p)) \/ \E m : Fail(m)
    BY <1>7 DEF CheckCallable
  <2> QED
    BY <2>1, <2>2, StepTurns DEF Fails
<1>8. CASE Jump
  <2>1. Heir(Done(0), heap)
    BY <1>1, <1>8 DEF Jump
  <2>2. \A s : Heir([Done(0) EXCEPT !.ls = s], heap)
    BY <2>1, JumpHeir
  <2>3. (\E s, p : Step([Done(0) EXCEPT !.ls = s], p)) \/ \E m : Fail(m)
    BY <1>8 DEF Jump
  <2> QED
    BY <2>2, <2>3, StepTurns DEF Fails
<1> QED
  BY <1>2, <1>3, <1>4, <1>5, <1>6, <1>7, <1>8

\* The steps that choose between others.
LEMMA DecisionsTurn ==
  ASSUME Poised, Decide \/ Choose
  PROVE  Turns \/ Fails
<1> DEFINE S == Allowed(Top.node)
<1>1. CASE Decide
  <2>1. At("decide", 1)
    BY <1>1 DEF Decide
  <2>2. Heir(Done(1), heap)
    BY <2>1, DoneHeir
  <2> DEFINE left == (Len(Top.todo) - 2) \div 2
             todo == Times(left, <<"skip">>) \o <<"decided">>
  <2>3. todo \in Seq(S)
    <3>1. Top.todo \in Seq(S)
      BY PoisedTop DEF Proper
    <3>2. left \in Int
      BY <3>1, LenProperties
    <3> HIDE DEF left, S
    <3>3. <<"skip">> \in Seq(S) /\ <<"decided">> \in Seq(S)
      BY ShortAllowed DEF S
    <3>4. Times(left, <<"skip">>) \in Seq(S)
      BY <3>2, <3>3, TimesType
    <3> QED
      BY <3>3, <3>4, ConcatProperties
  <2>4. Step(Done(1), pos) \/ Step([Done(1) EXCEPT !.todo = todo], pos) \/ \E m : Fail(m)
    BY <1>1 DEF Decide
  <2> HIDE DEF todo
  <2>5. Heir([Done(1) EXCEPT !.todo = todo], heap)
    BY <2>2, <2>3, TodoHeir
  <2> QED
    BY <2>2, <2>4, <2>5, StepTurns DEF Fails
<1>2. CASE Choose
  <2>1. At("choose", 1)
    BY <1>2 DEF Choose
  <2>2. Heir(Done(0), heap) /\ Null \in Loose(heap)
    BY <2>1, DoneHeir, NullLoose DEF Poised
  <2>3. /\ \A s \in Seq(S) : Heir(Then(Done(0), s), heap)
        /\ Heir(Push(Then(Done(0), <<"skip">>), Null), heap)
    BY <2>2, ShortAllowed, TodoHeir, PushHeir
  <2>4. \/ Step(Then(Done(0), <<"branch">>), pos)
        \/ Step(Push(Then(Done(0), <<"skip">>), Null), pos)
        \/ Step(Then(Done(0), <<"branch", "skip">>), pos)
        \/ Step(Then(Done(0), <<"skip", "branch">>), pos)
        \/ \E m : Fail(m)
    BY <1>2 DEF Choose
  <2> HIDE DEF S
  <2>5. /\ <<"skip">> \in Seq(S) /\ <<"branch">> \in Seq(S)
        /\ <<"branch", "skip">> \in Seq(S) /\ <<"skip", "branch">> \in Seq(S)
    BY ShortAllowed DEF S
  <2> QED
    BY <2>3, <2>4, <2>5, StepTurns DEF Fails
<1> QED
  BY <1>1, <1>2

\* A step that writes one such object.
LEMMA ResumeTurns ==
  ASSUME Poised, NEW f, Heir(f, heap), NEW p, NEW q \in Ptr, NEW o, Modest(o),
         Resume(f, p, Put(heap, q, o))
  PROVE  Turns
<1> DEFINE h == Put(heap, q, o)
<1>1. Quiet(heap, h) /\ Clear(scopes, modules, h)
  BY ModestQuiet, PoisedTop
<1>2. /\ stack' = Append(Front(stack), f) /\ Settle(h)
      /\ scopes' = scopes /\ modules' = modules /\ code' = code
  BY DEF Resume
<1> HIDE DEF h
<1>3. Proper(f, h)
  BY <1>1, QuietKeeps DEF Heir
<1> QED
  BY <1>1, <1>2, <1>3 DEF Turns

\* A frame that is no loop's holds no loop iterator; nor does any hold one first.
LEMMA LooseTop ==
  ASSUME Poised, NEW step, NEW n \in Nat, At(step, n)
  PROVE  /\ n > 0 => Top.vals[1] \in Loose(heap)
         /\ step \in {"append", "insert", "bind"} =>
              /\ \A i \in 1 .. n : Top.vals[i] \in Loose(heap)
              /\ n > 0 => Last(Top.vals) \in Loose(heap)
<1>1. /\ Top.vals \in Seq(Ptr) /\ Len(Top.vals) \in Nat /\ Len(Top.vals) >= n
      /\ \A i \in 1 .. Len(Top.vals) : Top.vals[i] \in Ptr
      /\ Top.todo # << >> /\ Head(Top.todo) = step
  BY AtType DEF Poised, At
<1>2. Tied(Top, heap) /\ Top.todo \in Seq(Allowed(Top.node))
  BY PoisedTop DEF Proper
<1>3. DOMAIN Top.vals = 1 .. Len(Top.vals)
  BY <1>1
<1>4. n > 0 => Top.vals[1] \in Loose(heap)
  BY <1>1, <1>2, <1>3 DEF Tied, Loose
<1>5. ASSUME step \in {"append", "insert", "bind"}
      PROVE  \A i \in 1 .. Len(Top.vals) : Top.vals[i] \in Loose(heap)
  <2>1. step \in Allowed(Top.node)
    BY <1>1, <1>2, HeadTailProperties
  <2>2. Top.node # "ForLoop"
    BY <1>5, <2>1 DEF Allowed
  <2> QED
    BY <1>1, <1>2, <1>3, <2>2 DEF Tied, Loose
<1>6. n > 0 => Last(Top.vals) = Top.vals[Len(Top.vals)] /\ Len(Top.vals) \in 1 .. Len(Top.vals)
  BY <1>1 DEF Last
<1>7. \A i \in 1 .. n : i \in 1 .. Len(Top.vals)
  BY <1>1
<1> QED
  BY <1>4, <1>5, <1>6, <1>7

\* The steps that fill a list or a dictionary.
LEMMA FillsTurn ==
  ASSUME Poised, AppendElement \/ InsertEntry
  PROVE  Turns \/ Fails
<1> DEFINE q == Top.vals[1]
           p == Top.vals[2]
<1>1. PICK step \in {"append", "insert"} : At(step, 2)
  BY DEF AppendElement, InsertEntry
<1>2. Heir(Done(1), heap) /\ q \in Ptr /\ p \in Loose(heap)
  BY <1>1, DoneHeir, LooseTop DEF Loose
<1>3. ObjectsHold(heap, Loose(heap)) /\ HeapOK(heap, brk)
  BY PoisedTop DEF Clear, Poised, TypeOK
<1>4. CASE AppendElement
  <2> DEFINE s == heap[q].val
             o == List(Append(s, p))
  <2>1. Is(heap, q, "List") /\ Resume(Done(1), pos, Put(heap, q, o))
    BY <1>4 DEF AppendElement
  <2>2. s \in Seq(Ptr) /\ \A i \in DOMAIN s : s[i] \in Loose(heap)
    BY <1>3, <2>1 DEF Is, HeapOK, IsObject, ObjectsHold, Owned
  <2>3. o.type = "List" /\ o.val = Append(s, p)
    BY DEF List
  <2>4. p \in Ptr
    BY <1>2 DEF Loose
  <2> HIDE DEF o, s, p, q
  <2>5. \A i \in DOMAIN Append(s, p) : Append(s, p)[i] \in Loose(heap)
    BY <1>2, <2>2, <2>4, Grow
  <2>6. Owned(o) \subseteq Loose(heap)
    BY <2>3, <2>5 DEF Owned
  <2>7. Modest(o)
    BY <2>3, <2>6 DEF Modest, LoopIterator, OfItems
  <2> QED
    BY <1>2, <2>1, <2>7, ResumeTurns
<1>5. CASE InsertEntry
  <2> DEFINE d == heap[q].val
             e == Put(d, Top.rd[1], p)
             o == Dict(e)
  <2>1. Is(heap, q, "Dictionary") /\ Resume(Done(1), pos, Put(heap, q, o))
    BY <1>5 DEF InsertEntry
  <2>2. \A k \in DOMAIN d : d[k] \in Loose(heap)
    BY <1>3, <2>1 DEF Is, ObjectsHold, Owned
  <2>3. o.type = "Dictionary" /\ o.val = e
    BY DEF Dict
  <2>4. \A k \in DOMAIN e : e[k] \in Loose(heap)
    BY <1>2, <2>2 DEF Put
  <2> HIDE DEF o, e, d, p, q
  <2>5. Owned(o) \subseteq Loose(heap)
    BY <2>3, <2>4 DEF Owned
  <2>6. Modest(o)
    BY <2>3, <2>5 DEF Modest, LoopIterator, OfItems
  <2> QED
    BY <1>2, <2>1, <2>6, ResumeTurns
<1> QED
  BY <1>4, <1>5

\* The steps that bind names.
LEMMA BindingsTurn ==
  ASSUME Poised, Assign \/ BindImport
  PROVE  Turns \/ Fails
<1>1. /\ ScopesOK(scopes) /\ ScopesHold(scopes, Loose(heap)) /\ ObjectsHold(heap, Loose(heap))
      /\ brk \in Nat /\ HeapOK(heap, brk)
  BY PoisedTop DEF Clear, Poised, TypeOK
<1>2. CASE Assign
  <2> DEFINE v == Top.vals[1]
  <2>1. At("target", 1)
    BY <1>2 DEF Assign
  <2>2. Heir(Done(0), heap) /\ v \in Loose(heap)
    BY <2>1, DoneHeir, LooseTop
  <2>3. CASE ~ /\ IsName(pos) \/ IsPair(pos)
               /\ ~ (IsPair(pos) /\ ~ Is(heap, v, "Tuple"))
    <3>1. \E m : Fail(m)
      BY <1>2, <2>3 DEF Assign, Is
    <3> QED
      BY <3>1 DEF Fails
  <2>4. CASE /\ IsName(pos) \/ IsPair(pos)
             /\ ~ (IsPair(pos) /\ ~ Is(heap, v, "Tuple"))
    <3>1. /\ scopes' = Bound(scopes, NamesAt(pos), heap, v)
          /\ stack' = Append(Front(stack), Done(0))
          /\ UNCHANGED <<code, modules>>
          /\ Settle(heap)
      BY <1>2, <2>4 DEF Assign, Is
    <3>2. NamesAt(pos) \in Texts /\ NamesAt(pos) # << >>
      BY <2>4, NamesType DEF Poised
    <3>3. Len(NamesAt(pos)) # 1 => Is(heap, v, "Tuple")
      BY <2>4 DEF NamesAt
    <3> HIDE DEF v
    <3>4. ScopesHold(scopes', Loose(heap))
      BY <1>1, <2>2, <3>1, <3>2, <3>3, BoundHolds
    <3> QED
      BY <2>2, <3>1, <3>4, ScopesTurn
  <2> QED
    BY <2>3, <2>4
<1>3. CASE BindImport
  <2>1. At("bind", 2)
    BY <1>3 DEF BindImport
  <2>2. PICK x : scopes' = SetValue(scopes, x, Last(Top.vals))
    BY <1>3 DEF BindImport
  <2>3. Heir(Done(0), heap) /\ Last(Top.vals) \in Loose(heap)
    BY <2>1, DoneHeir, LooseTop
  <2>4. ScopesHold(scopes', Loose(heap))
    BY <1>1, <2>2, <2>3, SetValueHolds
  <2>5. stack' = Append(Front(stack), Done(0)) /\ UNCHANGED <<code, modules>> /\ Settle(heap)
    BY <1>3 DEF BindImport
  <2> QED
    BY <2>3, <2>4, <2>5, ScopesTurn
<1> QED
  BY <1>2, <1>3

\* The steps that open and close scopes.
LEMMA ScopesTurnOver ==
  ASSUME Poised, While \/ Again \/ Terminate
  PROVE  Turns \/ Fails
<1> DEFINE S == Allowed(Top.node)
<1>1. ScopesOK(scopes) /\ ScopesHold(scopes, Loose(heap))
  BY PoisedTop DEF Clear, Poised, TypeOK
<1>2. /\ << >> \in Seq(S) /\ <<"skip">> \in Seq(S) /\ <<"next">> \in Seq(S)
      /\ <<"body", "again">> \in Seq(S) /\ Handler["WhileLoop"] \in Seq(S)
  BY ShortAllowed
<1>3. CASE While
  <2>1. At("while", 1)
    BY <1>3 DEF While
  <2>2. Heir(Done(0), heap)
    BY <2>1, DoneHeir
  <2>3. Heir(Then(Done(0), <<"skip">>), heap) /\ Heir(Then(Done(0), <<"body", "again">>), heap)
    BY <1>2, <2>2, TodoHeir
  <2>4. CASE Step(Then(Done(0), <<"skip">>), pos)
    BY <2>3, <2>4, StepTurns
  <2>5. CASE OpenBody(Done(0))
    <3>1. /\ stack' = Append(Front(stack), Then(Done(0), <<"body", "again">>))
          /\ scopes' = Append(scopes, Fresh)
          /\ UNCHANGED <<code, modules>> /\ Settle(heap)
      BY <2>5 DEF OpenBody
    <3>2. ScopesHold(scopes', Loose(heap))
      BY <1>1, <3>1, OpenedHolds
    <3> QED
      BY <2>3, <3>1, <3>2, ScopesTurn
  <2> QED
    BY <1>3, <2>4, <2>5 DEF While
<1>4. CASE Again
  <2> DEFINE todo == CASE Top.node = "WhileLoop" /\ Top.body = "Break" -> << >>
                       [] Top.node = "WhileLoop" /\ Top.body # "Break" -> Handler["WhileLoop"]
                       [] Top.node # "WhileLoop" /\ Top.body = "Break" -> <<"skip">>
                       [] OTHER -> <<"next">>
             f == [Done(1) EXCEPT !.todo = todo]
  <2>1. At("again", 1) /\ Len(scopes) > 1 /\ scopes' = Front(scopes)
    BY <1>4 DEF Again
  <2>2. stack' = Append(Front(stack), f) /\ UNCHANGED <<code, modules>> /\ Settle(heap)
    BY <1>4 DEF Again
  <2>3. todo \in Seq(S)
    <3> HIDE DEF S
    <3> QED
      BY <1>2
  <2>4. Heir(Done(1), heap)
    BY <2>1, DoneHeir
  <2>5. Heir(f, heap)
    <3> HIDE DEF todo
    <3> QED
      BY <2>3, <2>4, TodoHeir
  <2>6. ScopesHold(scopes', Loose(heap))
    BY <1>1, <2>1, ClosedHolds
  <2> HIDE DEF f
  <2> QED
    BY <2>2, <2>5, <2>6, ScopesTurn
<1>5. CASE Terminate
  <2>1. At("terminate", 0)
    BY <1>5 DEF Terminate
  <2>2. /\ scopes' = [scopes EXCEPT ![Len(scopes)].terminated = TRUE]
        /\ stack' = Append(Front(stack), Done(0))
        /\ UNCHANGED <<code, modules>> /\ Settle(heap)
    BY <1>5 DEF Terminate
  <2>3. DOMAIN scopes' = DOMAIN scopes /\ \A i \in DOMAIN scopes : scopes'[i].values = scopes[i].values
    BY <1>1, <2>2 DEF ScopesOK, IsScope
  <2>4. ScopesHold(scopes', Loose(heap))
    BY <1>1, <2>3 DEF ScopesHold
  <2>5. Heir(Done(0), heap)
    BY <2>1, DoneHeir
  <2> QED
    BY <2>2, <2>4, <2>5, ScopesTurn
<1> QED
  BY <1>3, <1>4, <1>5

\* The step that writes to an Integer.
LEMMA AugmentTurns ==
  ASSUME Poised, Augment
  PROVE  Turns \/ Fails
<1> DEFINE target == Top.vals[1]
           value == Top.vals[2]
           o == Int32(heap[target].val + heap[value].val)
<1>1. At("augment", 2)
  BY DEF Augment
<1>2. Fails \/ Resume(Done(2), pos, Put(heap, target, o))
  BY DEF Augment, Fails
<1>3. Heir(Done(2), heap) /\ target \in Ptr
  BY <1>1, DoneHeir, LooseTop DEF Loose
<1>4. Modest(o)
  BY DEF Modest, Owned, LoopIterator, OfItems, Int32
<1> HIDE DEF o, target
<1> QED
  BY <1>2, <1>3, <1>4, ResumeTurns

\* The step that finds a module, or makes and lists it.
LEMMA LoadTurns ==
  ASSUME Poised, Load
  PROVE  Turns \/ Fails
<1>1. At("load", 1)
  BY DEF Load
<1>2. Heir(Done(0), heap)
  BY <1>1, DoneHeir
<1>3. PICK m :
        \/ m \in DOMAIN modules /\ Yield(Use(modules[m]), Done(0), pos)
        \/ Fails
        \/ /\ m \notin DOMAIN modules
           /\ modules' = Put(modules, m, brk + 1)
           /\ stack' = Append(Front(stack), Push(Done(0), brk + 1))
           /\ UNCHANGED <<code, scopes>>
           /\ Settle(Put(heap, brk + 1, Module(m)))
  BY DEF Load, Loaded, Fails
<1>4. CASE m \in DOMAIN modules /\ Yield(Use(modules[m]), Done(0), pos)
  <2>1. modules[m] \in Loose(heap)
    BY <1>4, PoisedTop DEF Clear, ModulesHold
  <2> QED
    BY <1>2, <1>4, <2>1, InertKinds, YieldTurns
<1>5. CASE /\ m \notin DOMAIN modules
           /\ modules' = Put(modules, m, brk + 1)
           /\ stack' = Append(Front(stack), Push(Done(0), brk + 1))
           /\ UNCHANGED <<code, scopes>>
           /\ Settle(Put(heap, brk + 1, Module(m)))
  <2> DEFINE h == Put(heap, brk + 1, Module(m))
             g == Push(Done(0), brk + 1)
  <2>1. Modest(Module(m)) /\ brk + 1 \in Ptr
    BY DEF Modest, Owned, LoopIterator, OfItems, Module, Poised, TypeOK, Ptr
  <2>2. Quiet(heap, h) /\ brk + 1 \in Loose(h) /\ Clear(scopes, modules, h)
    BY <2>1, ModestQuiet, PoisedTop
  <2>3. stack' = Append(Front(stack), g) /\ Settle(h) /\ code' = code
    BY <1>5
  <2> HIDE DEF h
  <2>4. ModulesHold(modules', Loose(h))
    BY <1>5, <2>2 DEF Clear, ModulesHold, Put
  <2>5. Clear(scopes', modules', h)
    BY <1>5, <2>2, <2>4 DEF Clear
  <2>6. Heir(g, h)
    <3>1. Heir(Done(0), h)
      BY <1>2, <2>2, QuietKeeps DEF Heir
    <3> QED
      BY <2>2, <3>1, PushHeir
  <2> QED
    BY <2>2, <2>3, <2>5, <2>6 DEF Turns, Heir
<1> QED
  BY <1>3, <1>4, <1>5

\* A loop binds its names to what its iterator came upon.
LEMMA BindTurns ==
  ASSUME Poised, At("next", 2), Top.rd # << >>, Is(heap, Top.vals[2], "Iterator"),
         NEW fresh, Len(fresh) \in Nat,
         \A i \in 1 .. Len(fresh) : IsObject(fresh[i]) /\ Modest(fresh[i]),
         NEW p \in Loose(heap), NEW it, IsObject(it), it.type = "Iterator",
         it.val.kind = heap[Top.vals[2]].val.kind, it.val.over = heap[Top.vals[2]].val.over,
         Bind(fresh, p, it)
  PROVE  Turns \/ Fails
<1> DEFINE n == Len(fresh)
           h == [r \in DOMAIN heap \cup brk + 1 .. brk + Len(fresh) |->
                   IF r > brk THEN fresh[r - brk]
                   ELSE IF r = Top.vals[2] THEN it ELSE heap[r]]
           f == Then(Done(0), <<"body", "again">>)
           L == Loose(heap)
           M == Loose(h)
<1>1. \/ Fails
      \/ /\ ~ (Len(Top.rd) # 1 /\ ~ Is(h, p, "Tuple"))
         /\ stack' = Append(Front(stack), Push(f, p))
         /\ scopes' = Bound(Append(scopes, Fresh), Top.rd, h, p)
         /\ UNCHANGED <<code, modules>>
         /\ Settle(h)
  BY DEF Bind, Fails
<1>2. brk \in Nat /\ HeapOK(heap, brk) /\ ScopesOK(scopes) /\ Clear(scopes, modules, heap)
  BY PoisedTop DEF Poised, TypeOK
<1>3. /\ DOMAIN h = DOMAIN heap \cup (brk + 1 .. brk + n)
      /\ \A q \in DOMAIN heap : q <= brk /\ q \in Nat
           /\ h[q] = IF q = Top.vals[2] THEN it ELSE heap[q]
      /\ \A q \in brk + 1 .. brk + n : q - brk \in 1 .. n /\ h[q] = fresh[q - brk]
  BY <1>2 DEF HeapOK
<1>4. Owned(it) = {} /\ (LoopIterator(it) <=> LoopIterator(heap[Top.vals[2]]))
      /\ (OfItems(it) <=> OfItems(heap[Top.vals[2]])) /\ Top.vals[2] \in DOMAIN heap
  BY DEF Owned, Is, LoopIterator, OfItems
<1> HIDE DEF h, n
<1>5. Quiet(heap, h)
  <2> SUFFICES ASSUME NEW q \in LoopIterators(h)
               PROVE  q \in LoopIterators(heap) /\ h[q].val.over = heap[q].val.over
    BY DEF Quiet
  <2>1. q \in DOMAIN h /\ LoopIterator(h[q])
    BY DEF LoopIterators
  <2>2. q \notin brk + 1 .. brk + n
    BY <1>3, <2>1 DEF Modest, n
  <2>3. q \in DOMAIN heap
    BY <1>3, <2>1, <2>2
  <2> QED
    BY <1>3, <1>4, <2>1, <2>3 DEF LoopIterators
<1>6. L \subseteq M /\ p \in M
  BY <1>5, QuietKeeps
<1>7. HeapOK(h, brk + n)
  <2>1. DOMAIN h \subseteq 1 .. brk + n
    BY <1>2, <1>3 DEF HeapOK, n
  <2>2. \A q \in DOMAIN h : IsObject(h[q])
    BY <1>2, <1>3 DEF HeapOK, n
  <2> QED
    BY <2>1, <2>2 DEF HeapOK
<1>8. ObjectsHold(h, L)
  <2>1. \A q \in DOMAIN heap : Owned(heap[q]) \subseteq L
    BY <1>2 DEF Clear, ObjectsHold
  <2>2. \A q \in brk + 1 .. brk + n : Owned(h[q]) \subseteq L
    BY <1>3 DEF Modest, n
  <2> HIDE DEF L
  <2> QED
    BY <1>3, <1>4, <2>1, <2>2 DEF ObjectsHold
<1>9. ObjectsHold(h, M) /\ ModulesHold(modules, M) /\ ScopesHold(scopes, M)
  BY <1>2, <1>6, <1>8, HoldWider DEF Clear
<1>10. CallsNoItems => Itemless(h)
  <2> HAVE CallsNoItems
  <2>1. \A q \in DOMAIN heap : ~ OfItems(heap[q])
    BY <1>2 DEF Clear, Itemless
  <2>2. \A q \in brk + 1 .. brk + n : ~ OfItems(h[q])
    BY <1>3 DEF Modest, n
  <2> QED
    BY <1>3, <1>4, <2>1, <2>2 DEF Itemless
<1>11. Heir(Push(f, p), h)
  <2>1. Heir(Done(0), heap)
    BY DoneHeir
  <2>2. Heir(f, heap)
    BY <2>1, ShortAllowed, TodoHeir
  <2>3. Heir(f, h)
    BY <1>5, <2>2, QuietKeeps DEF Heir
  <2> HIDE DEF f
  <2> QED
    BY <1>6, <2>3, PushHeir
<1> HIDE DEF f, L, M
<1>12. CASE /\ ~ (Len(Top.rd) # 1 /\ ~ Is(h, p, "Tuple"))
            /\ stack' = Append(Front(stack), Push(f, p))
            /\ scopes' = Bound(Append(scopes, Fresh), Top.rd, h, p)
            /\ UNCHANGED <<code, modules>>
            /\ Settle(h)
  <2>1. ScopesOK(Append(scopes, Fresh)) /\ ScopesHold(Append(scopes, Fresh), M)
    BY <1>2, <1>9, OpenedScopes, OpenedHolds
  <2>2. Top.rd \in Texts /\ brk + n \in Nat
    BY <1>2, PoisedTop DEF n
  <2>3. ScopesHold(scopes', M)
    BY <1>6, <1>7, <1>9, <1>12, <2>1, <2>2, BoundHolds
  <2>4. Clear(scopes', modules', h)
    BY <1>9, <1>10, <1>12, <2>3 DEF Clear, M
  <2> QED
    BY <1>5, <1>11, <1>12, <2>4 DEF Turns, Heir
<1> QED
  BY <1>1, <1>12

\* A pair, as the iterator over items makes it.
LEMMA PairOwns == \A p, q : Pair(p, q).type = "Tuple" /\ Owned(Pair(p, q)) = {p, q}
<1> TAKE p, q
<1>1. DOMAIN <<p, q>> = {1, 2} /\ <<p, q>>[1] = p /\ <<p, q>>[2] = q
  OBVIOUS
<1>2. Pair(p, q).type = "Tuple" /\ Pair(p, q).val = <<p, q>>
  BY DEF Pair
<1>3. Owned(Pair(p, q)) = { <<p, q>>[i] : i \in {1, 2} }
  BY <1>1, <1>2 DEF Owned
<1> QED
  BY <1>1, <1>2, <1>3

\* Each iterator's next().
LEMMA AdvanceTurns ==
  ASSUME Poised, Advance
  PROVE  Turns \/ Fails
<1> DEFINE it == heap[Top.vals[2]].val
           d == heap[it.over].val
<1>1. At("next", 2) /\ Top.rd # << >> /\ Is(heap, Top.vals[2], "Iterator")
  BY DEF Advance
<1>2. brk \in Nat /\ HeapOK(heap, brk) /\ ObjectsHold(heap, Loose(heap))
  BY PoisedTop DEF Clear, Poised, TypeOK
<1>3. Top.vals[2] \in DOMAIN heap /\ IsIterator(it)
  BY <1>1, <1>2 DEF Is, HeapOK, IsObject
<1>4. \A at \in Nat, done \in SUBSET STRING :
        LET o == Moved(it, at, done)
        IN  IsObject(o) /\ o.type = "Iterator" /\ o.val.kind = it.kind /\ o.val.over = it.over
  BY <1>3, MovedType DEF Moved, Iter
<1>5. brk + 1 \in Loose(heap) /\ brk + 2 \in Loose(heap)
  BY <1>2 DEF HeapOK, Loose, LoopIterators, Ptr
<1>6. ASSUME NEW fresh, Len(fresh) \in Nat,
             \A i \in 1 .. Len(fresh) : IsObject(fresh[i]) /\ Modest(fresh[i]),
             NEW p \in Loose(heap), NEW at \in Nat, NEW done \in SUBSET STRING,
             Bind(fresh, p, Moved(it, at, done))
      PROVE  Turns \/ Fails
  <2> DEFINE o == Moved(it, at, done)
  <2>1. IsObject(o) /\ o.type = "Iterator" /\ o.val.kind = it.kind /\ o.val.over = it.over
    BY <1>4
  <2>2. Bind(fresh, p, o)
    BY <1>6
  <2> HIDE DEF o
  <2> QED
    BY <1>1, <1>6, <2>1, <2>2, BindTurns
<1>7. CASE Stop
  <2>1. Heir(Done(0), heap)
    BY <1>1, DoneHeir
  <2>2. Heir(Then(Done(0), <<"skip">>), heap)
    BY <2>1, ShortAllowed, TodoHeir
  <2> QED
    BY <1>7, <2>2, StepTurns DEF Stop
<1>8. CASE Fail(DanglingReference.msg)
  BY <1>8 DEF Fails
<1>9. CASE it.kind = "Range" /\ Bind(<<Int32(it.at)>>, brk + 1, Moved(it, it.at + 1, {}))
  <2> DEFINE o == Int32(it.at)
             at == it.at + 1
  <2>1. it.at \in Nat /\ at \in Nat /\ {} \in SUBSET STRING
    BY <1>3 DEF IsIterator
  <2>2. IsObject(o) /\ Modest(o)
    BY <2>1, Int32Type DEF Int32, Owned, Modest, LoopIterator, OfItems
  <2>3. Bind(<<o>>, brk + 1, Moved(it, at, {}))
    BY <1>9
  <2> HIDE DEF o, at, it
  <2>4. Len(<<o>>) = 1 /\ <<o>>[1] = o /\ \A i \in 1 .. 1 : i = 1
    OBVIOUS
  <2>5. Len(<<o>>) \in Nat /\ \A i \in 1 .. Len(<<o>>) : IsObject(<<o>>[i]) /\ Modest(<<o>>[i])
    BY <2>2, <2>4
  <2> QED
    BY <1>5, <1>6, <2>1, <2>3, <2>5
<1> DEFINE none == << >>
<1>10. Len(none) \in Nat /\ \A i \in 1 .. Len(none) : IsObject(none[i]) /\ Modest(none[i])
  OBVIOUS
<1>11. CASE /\ it.kind = "List" /\ Is(heap, it.over, "List")
            /\ ~ (it.at >= Len(d))
            /\ Bind(<< >>, d[it.at + 1], Moved(it, it.at + 1, {}))
  <2> DEFINE at == it.at
             p == d[at + 1]
  <2>1. at \in Nat /\ at + 1 \in Nat /\ {} \in SUBSET STRING
    BY <1>3 DEF IsIterator
  <2>2. d \in Seq(Ptr) /\ \A i \in DOMAIN d : d[i] \in Loose(heap)
    BY <1>2, <1>11 DEF HeapOK, Is, IsObject, ObjectsHold, Owned
  <2>3. p \in Loose(heap)
    <3>1. ~ (at >= Len(d))
      BY <1>11
    <3> HIDE DEF d, at
    <3>2. Len(d) \in Nat /\ DOMAIN d = 1 .. Len(d)
      BY <2>2, LenProperties
    <3>3. at + 1 \in 1 .. Len(d)
      BY <2>1, <3>1, <3>2
    <3> QED
      BY <2>2, <3>2, <3>3
  <2>4. Bind(none, p, Moved(it, at + 1, {}))
    BY <1>11
  <2> HIDE DEF p, at, it, none
  <2> QED
    BY <1>6, <1>10, <2>1, <2>3, <2>4
<1>12. CASE /\ it.kind \in {"DictItem", "DictKey"} /\ Is(heap, it.over, "Dictionary")
            /\ \E k \in Least(DOMAIN d \ it.done) :
                 LET moved == Moved(it, 0, it.done \cup {k}) IN
                 IF it.kind = "DictKey" THEN Bind(<< >>, d[k], moved)
                 ELSE Bind(<<Str(k), Pair(brk + 1, d[k])>>, brk + 2, moved)
  <2>1. PICK k \in Least(DOMAIN d \ it.done) :
               LET moved == Moved(it, 0, it.done \cup {k}) IN
               IF it.kind = "DictKey" THEN Bind(<< >>, d[k], moved)
               ELSE Bind(<<Str(k), Pair(brk + 1, d[k])>>, brk + 2, moved)
    BY <1>12
  <2> DEFINE done == it.done \cup {k}
             v == d[k]
  <2>2. k \in DOMAIN d
    BY DEF Least
  <2>3. k \in STRING /\ v \in Ptr /\ v \in Loose(heap)
    BY <1>2, <1>12, <2>2 DEF HeapOK, Is, IsObject, ObjectsHold, Owned
  <2>4. done \in SUBSET STRING /\ 0 \in Nat
    BY <1>3, <2>3 DEF IsIterator
  <2>5. CASE Bind(<< >>, v, Moved(it, 0, done))
    <3>1. Bind(none, v, Moved(it, 0, done))
      BY <2>5
    <3> HIDE DEF none, v, done, it
    <3> QED
      BY <1>6, <1>10, <2>3, <2>4, <3>1
  <2>6. CASE Bind(<<Str(k), Pair(brk + 1, v)>>, brk + 2, Moved(it, 0, done))
    <3> DEFINE key == Str(k)
               pair == Pair(brk + 1, v)
    <3>1. IsObject(key) /\ IsObject(pair)
      <4>1. brk + 1 \in Ptr
        BY <1>2 DEF Ptr
      <4> QED
        BY <2>3, <4>1, ObjectTypes
    <3>2. Modest(key)
      BY DEF Modest, Str, Owned, LoopIterator, OfItems
    <3>3. Modest(pair)
      <4>1. pair.type = "Tuple" /\ Owned(pair) = {brk + 1, v}
        BY PairOwns
      <4> HIDE DEF pair, v
      <4> QED
        BY <1>5, <2>3, <4>1 DEF Modest, LoopIterator, OfItems
    <3>4. Bind(<<key, pair>>, brk + 2, Moved(it, 0, done))
      BY <2>6
    <3> HIDE DEF key, pair, v, done, it
    <3>5. /\ Len(<<key, pair>>) = 2 /\ <<key, pair>>[1] = key /\ <<key, pair>>[2] = pair
          /\ \A i \in 1 .. 2 : i = 1 \/ i = 2
      OBVIOUS
    <3> DEFINE fresh == <<key, pair>>
    <3>6. Len(fresh) \in Nat /\ \A i \in 1 .. Len(fresh) : IsObject(fresh[i]) /\ Modest(fresh[i])
      BY <3>1, <3>2, <3>3, <3>5
    <3> HIDE DEF fresh
    <3> QED
      BY <1>5, <1>6, <2>4, <3>4, <3>6 DEF fresh
  <2> QED
    BY <2>1, <2>5, <2>6
<1> QED
  BY <1>7, <1>8, <1>9, <1>11, <1>12
  DEF Advance, NextOfRange, NextOfList, NextOfItems, NextOfDictionary, Left

\* The step that makes a loop's iterator: it alone holds the pointer.
LEMMA IterateKeeps ==
  ASSUME Poised, Accounted, Iterate
  PROVE  BorrowInv'
<1> DEFINE v == Top.vals[1]
           r == IterateResult(heap, v)
<1>1. At("iterate", 1) /\ Yield(r, Done(0), pos)
  BY DEF Iterate
<1>2. Heir(Done(0), heap) /\ v \in Loose(heap)
  BY <1>1, DoneHeir, LooseTop
<1>3. CASE Inert(r)
  <2> HIDE DEF r
  <2>1. Turns \/ Fails
    BY <1>1, <1>2, <1>3, YieldTurns
  <2> QED
    BY <2>1, TurnsKeep, FailsKeep DEF Poised
<1>4. CASE \E k \in {"List", "DictKey"} : v \in DOMAIN heap /\ r = New(Iter(k, v, 0, 0, {}))
  <2>1. PICK k \in {"List", "DictKey"} : v \in DOMAIN heap /\ r = New(Iter(k, v, 0, 0, {}))
    BY <1>4
  <2> DEFINE o == Iter(k, v, 0, 0, {})
             h == Put(heap, brk + 1, o)
             g == Push(Done(0), brk + 1)
             b == brk + 1
  <2>2. Owned(o) = {} /\ LoopIterator(o) /\ o.val.over = v /\ ~ OfItems(o)
    BY DEF Iter, Owned, LoopIterator, OfItems
  <2>3. r.kind = "new" /\ r.obj = o
    BY <2>1 DEF New
  <2>4. Fails \/ Resume(g, pos, h)
    BY <1>1, <2>3 DEF Yield, Fails
  <2>5. b \in Ptr /\ b \notin DOMAIN heap /\ b # Null /\ Null \notin DOMAIN heap
    BY DEF Poised, TypeOK, HeapOK, Ptr, Null
  <2>6. /\ DOMAIN h = DOMAIN heap \cup {b} /\ h[b] = o
        /\ \A p \in DOMAIN heap : h[p] = heap[p]
    BY <2>5 DEF Put
  <2> HIDE DEF h, o, b, r
  <2>7. /\ LoopIterators(h) = LoopIterators(heap) \cup {b}
        /\ \A p \in LoopIterators(heap) : h[p] = heap[p]
    BY <2>2, <2>6 DEF LoopIterators
  <2>8. \A p \in Loose(heap) : p \in Live(heap) => p \in Loose(h)
    BY <2>5, <2>7 DEF Loose, Live
  <2>9. Clear(scopes, modules, h)
    <3>1. /\ ScopesHold(scopes, Live(heap)) /\ ScopesHold(scopes, Loose(heap))
          /\ ModulesHold(modules, Live(heap)) /\ ModulesHold(modules, Loose(heap))
          /\ ObjectsHold(heap, Live(heap)) /\ ObjectsHold(heap, Loose(heap))
          /\ CallsNoItems => Itemless(heap)
      BY PoisedTop DEF Clear, Accounted, Whole
    <3>2. ScopesHold(scopes, Loose(h))
      BY <2>8, <3>1 DEF ScopesHold
    <3>3. ModulesHold(modules, Loose(h))
      BY <2>8, <3>1 DEF ModulesHold
    <3>4. ObjectsHold(h, Loose(h))
      BY <2>2, <2>6, <2>8, <3>1 DEF ObjectsHold
    <3>5. CallsNoItems => Itemless(h)
      BY <2>2, <2>6, <3>1 DEF Itemless
    <3> QED
      BY <3>2, <3>3, <3>4, <3>5 DEF Clear
  <2>10. ASSUME NEW f, f.vals \in Seq(Live(heap)), Proper(f, heap)
         PROVE  Proper(f, h)
    <3>1. \A i \in DOMAIN f.vals : f.vals[i] # b
      BY <2>5, <2>10, ElementOfSeq DEF Live
    <3> QED
      BY <2>7, <2>10, <3>1 DEF Proper, Tied
  <2>11. /\ Top.vals \in Seq(Live(heap)) /\ Top.vals \in Seq(Ptr) /\ Len(Top.vals) \in Nat
         /\ Len(Top.vals) >= 1 /\ Top.todo # << >> /\ Head(Top.todo) = "iterate"
    <3>1. Top.vals \in Seq(Live(heap))
      BY TopIndex DEF Poised, Accounted, Whole, FramesHold
    <3> QED
      BY <1>1, <3>1, AtType DEF Poised, At
  <2>12. Top.node = "ForLoop"
    <3>1. Top.todo \in Seq(Allowed(Top.node))
      BY PoisedTop DEF Proper
    <3>2. "iterate" \in Allowed(Top.node)
      BY <2>11, <3>1, HeadTailProperties
    <3> QED
      BY <3>2 DEF Allowed
  <2>13. Done(0).vals = Top.vals /\ Done(0).node = Top.node
    <3>1. Done(0).vals = SubSeq(Top.vals, 1, Len(Top.vals)) /\ Done(0).node = Top.node
      BY <2>11, PoisedTop DEF Done
    <3>2. SubSeq(Top.vals, 1, Len(Top.vals)) = Top.vals
      BY <2>11
    <3> QED
      BY <3>1, <3>2
  <2> DEFINE d == Done(0)
  <2>14. Proper(d, h) /\ DOMAIN d = DOMAIN Top
    BY <1>2, <2>10, <2>11, <2>13 DEF Heir
  <2>15. d.vals = Top.vals /\ d.node = "ForLoop" /\ d.vals[1] = v /\ v # Null
    BY <2>1, <2>5, <2>12, <2>13
  <2> DEFINE s == Append(d.vals, b)
  <2>16. /\ g.vals = s /\ g.node = d.node /\ g.todo = d.todo /\ g.rd = d.rd
    BY <2>14, PoisedTop DEF Push, b
  <2> HIDE DEF d, g, v
  <2>17. /\ d.vals \in Seq(Ptr) /\ Len(d.vals) \in Nat /\ Len(d.vals) >= 1
    BY <2>11, <2>15
  <2>18. /\ s \in Seq(Ptr) /\ s[1] = v /\ DOMAIN d.vals = 1 .. Len(d.vals)
         /\ \A i \in DOMAIN s : \/ i \in DOMAIN d.vals /\ s[i] = d.vals[i]
                                \/ i = Len(d.vals) + 1 /\ s[i] = b
    <3>1. \A i \in DOMAIN s : \/ i \in DOMAIN d.vals /\ s[i] = d.vals[i]
                              \/ i = Len(d.vals) + 1 /\ s[i] = b
      BY <2>5, <2>17, Grow
    <3> QED
      BY <2>5, <2>15, <2>17, <3>1, AppendProperties
  <2> HIDE DEF s
  <2>19. Tied(g, h)
    <3> SUFFICES ASSUME NEW i \in DOMAIN s, s[i] \in LoopIterators(h)
                 PROVE  i # 1 /\ s[1] = h[s[i]].val.over
      BY <2>15, <2>16, <2>18 DEF Tied
    <3>1. CASE i \in DOMAIN d.vals /\ s[i] = d.vals[i]
      BY <2>14, <2>15, <2>18, <3>1 DEF Proper, Tied
    <3>2. CASE i = Len(d.vals) + 1 /\ s[i] = b
      BY <2>2, <2>6, <2>17, <2>18, <3>2
    <3> QED
      BY <2>18, <3>1, <3>2
  <2>20. Proper(g, h)
    BY <2>14, <2>16, <2>18, <2>19 DEF Proper
  <2>21. CASE Resume(g, pos, h)
    <3>1. /\ stack' = Append(Front(stack), g) /\ Settle(h)
          /\ scopes' = scopes /\ modules' = modules /\ code' = code
      BY <2>21 DEF Resume
    <3>2. /\ DOMAIN stack' = DOMAIN stack /\ stack'[Len(stack)] = g
          /\ \A i \in DOMAIN stack : i # Len(stack) => stack'[i] = stack[i]
      <4> DEFINE st == Append(Front(stack), g)
      <4>1. st = stack'
        BY <3>1
      <4> HIDE DEF st
      <4> QED
        BY <4>1, <3>1, NewTop DEF Poised
    <3>3. \A i \in DOMAIN stack : Proper(stack[i], h)
      BY <2>10 DEF Poised, BorrowInv, Accounted, Whole, FramesHold
    <3>4. \A i \in DOMAIN stack' : Proper(stack'[i], h)
      BY <2>20, <3>2, <3>3
    <3> QED
      BY <2>9, <3>1, <3>4, SettledKeep
  <2> QED
    BY <2>4, <2>21, FailsKeep DEF Poised
<1>5. Inert(r) \/ \E k \in {"List", "DictKey"} : v \in DOMAIN heap /\ r = New(Iter(k, v, 0, 0, {}))
  <2> HIDE DEF v
  <2>1. Inert(NullDereference) /\ Inert(Use(v)) /\ Inert(Raise("Can't iterate"))
    BY <1>2, InertKinds
  <2> QED
    BY <2>1 DEF IterateResult, Is
<1> QED
  BY <1>3, <1>4, <1>5

\* A node's frame, as it starts.
LEMMA NewProper ==
  ASSUME NEW t \in DOMAIN Handler, NEW p, NEW l, NEW h
  PROVE  Proper(NewFrame(t, p, l), h)
<1>1. /\ NewFrame(t, p, l).node = t /\ NewFrame(t, p, l).todo = Handler[t]
      /\ NewFrame(t, p, l).vals = << >> /\ NewFrame(t, p, l).rd = << >>
  BY DEF NewFrame
<1>2. << >> \in Seq(Ptr) /\ DOMAIN << >> = {}
  OBVIOUS
<1>3. \A x : x \notin Range(<< >>)
  BY <1>2 DEF Range
<1> QED
  BY <1>1, <1>2, <1>3, HandlerAllowed DEF Proper, Tied

\* Entering a node.
LEMMA EnterKeeps ==
  ASSUME Poised, NEW step, Enter(step)
  PROVE  BorrowInv'
<1>1. CASE Fails
  BY <1>1, FailsKeep DEF Poised
<1>2. CASE ~ Fails
  <2>1. PICK t, p, l :
          /\ t \in DOMAIN Handler
          /\ stack' = Append(stack, NewFrame(t, p, l))
          /\ UNCHANGED <<code, scopes, heap, modules>>
    BY <1>2 DEF Enter, Fails
  <2> DEFINE f == NewFrame(t, p, l)
  <2>2. Proper(f, heap) /\ stack' = Append(stack, f)
    BY <2>1, NewProper
  <2> HIDE DEF f
  <2>3. stack \in Seq(Frame)
    BY DEF Poised, TypeOK
  <2>4. \A i \in DOMAIN stack' : (i \in DOMAIN stack /\ stack'[i] = stack[i]) \/ stack'[i] = f
    BY <2>2, <2>3
  <2>5. \A i \in DOMAIN stack' : Proper(stack'[i], heap)
    BY <2>2, <2>4 DEF Poised, BorrowInv
  <2>6. Clear(scopes', modules', heap) /\ heap' = heap /\ code' = code
    BY <2>1, PoisedTop
  <2> QED
    BY <2>5, <2>6, SettledKeep
<1> QED
  BY <1>1, <1>2

\* What a node returns is no loop iterator.
LEMMA ReturnedLoose ==
  ASSUME Poised
  PROVE  ReturnValue(Top) \in Loose(heap)
<1>1. Null \in Loose(heap)
  BY NullLoose DEF Poised
<1>2. Top.vals \in Seq(Ptr) /\ Tied(Top, heap)
  BY PoisedTop DEF Proper
<1>3. CASE Top.node \notin Statements /\ Top.vals # << >>
  <2>1. Last(Top.vals) = Top.vals[Len(Top.vals)] /\ Len(Top.vals) \in DOMAIN Top.vals
        /\ Top.vals[Len(Top.vals)] \in Ptr
    <3>1. Len(Top.vals) \in 1 .. Len(Top.vals)
      BY <1>2, <1>3, EmptySeq, LenProperties
    <3> QED
      BY <1>2, <3>1, ElementOfSeq, LenProperties DEF Last
  <2>2. Top.node # "ForLoop"
    BY <1>3 DEF Statements
  <2>3. Last(Top.vals) \notin LoopIterators(heap)
    BY <1>2, <2>1, <2>2 DEF Tied
  <2> QED
    BY <1>3, <2>1, <2>3 DEF ReturnValue, Loose
<1> QED
  BY <1>1, <1>3 DEF ReturnValue

\* The caller, once it has that value.
LEMMA ReceivedProper ==
  ASSUME NEW h, NEW c \in Frame, Proper(c, h), c.todo # << >>, NEW v \in Loose(h), NEW l,
         NEW f, f = Received(c, v, l)
  PROVE  Proper(f, h)
<1> DEFINE s == Append(c.vals, v)
<1>1. /\ f.node = c.node /\ f.todo = Tail(c.todo) /\ f.rd = c.rd
      /\ f.vals \in {c.vals, <<v>>, s}
  BY DEF Received, Frame
<1>2. v \in Ptr /\ v \notin LoopIterators(h)
  BY DEF Loose
<1>3. /\ c.vals \in Seq(Ptr) /\ Tied(c, h) /\ c.todo \in Seq(Allowed(c.node))
      /\ CallsNoItems => "items" \notin Range(c.rd)
  BY DEF Proper
<1>4. Tail(c.todo) \in Seq(Allowed(c.node))
  BY <1>3, HeadTailProperties
<1>5. CASE f.vals = c.vals
  BY <1>1, <1>3, <1>4, <1>5 DEF Proper, Tied
<1>6. CASE f.vals = <<v>>
  <2>1. <<v>> \in Seq(Ptr) /\ \A i \in DOMAIN <<v>> : <<v>>[i] = v
    BY <1>2
  <2>2. Tied(f, h)
    BY <1>2, <1>6, <2>1 DEF Tied
  <2> QED
    BY <1>1, <1>3, <1>4, <1>6, <2>1, <2>2 DEF Proper
<1>7. CASE f.vals = s
  <2>1. /\ s \in Seq(Ptr)
        /\ \A i \in DOMAIN s : \/ i \in DOMAIN c.vals /\ s[i] = c.vals[i]
                               \/ i = Len(c.vals) + 1 /\ s[i] = v
    BY <1>2, <1>3, Grow
  <2>2. c.vals # << >> => s[1] = c.vals[1]
    BY <1>2, <1>3, AppendProperties
  <2>3. \A i \in DOMAIN c.vals : c.vals # << >>
    BY <1>3
  <2> HIDE DEF s
  <2>4. Tied(f, h)
    BY <1>1, <1>2, <1>3, <1>7, <2>1, <2>2, <2>3 DEF Tied
  <2> QED
    BY <1>1, <1>3, <1>4, <1>7, <2>1, <2>4 DEF Proper
<1> QED
  BY <1>1, <1>5, <1>6, <1>7

\* Leaving a node.
LEMMA ReturnKeeps ==
  ASSUME Poised, Return
  PROVE  BorrowInv'
<1> DEFINE n == Len(stack)
           c == stack[n - 1]
           v == ReturnValue(Top)
           f == Received(c, v, Top.ls)
<1>1. /\ n > 1 /\ stack' = Append(Front(Front(stack)), f) /\ Settle(heap)
      /\ c.todo # << >> /\ UNCHANGED <<code, scopes, modules>>
  BY DEF Return
<1>2. n \in Nat /\ DOMAIN stack = 1 .. n /\ stack \in Seq(Frame)
  BY TopIndex DEF Poised
<1> HIDE DEF c, v, f
<1>3. /\ DOMAIN stack' = 1 .. n - 1 /\ stack'[n - 1] = f
      /\ \A i \in 1 .. n - 2 : stack'[i] = stack[i]
  <2> DEFINE st == Append(Front(Front(stack)), f)
  <2>1. /\ DOMAIN st = 1 .. n - 1 /\ st[n - 1] = f
        /\ \A i \in 1 .. n - 2 : st[i] = stack[i]
    BY <1>1, NewCaller DEF Poised
  <2> QED
    BY <1>1, <2>1
<1> HIDE DEF n
<1>4. n - 1 \in 1 .. n /\ \A i \in 1 .. n - 1 : i = n - 1 \/ i \in 1 .. n - 2
  BY <1>1, <1>2
<1>5. c \in Frame /\ Proper(c, heap)
  BY <1>2, <1>4, ElementOfSeq DEF Poised, BorrowInv, c
<1>6. v \in Loose(heap)
  BY ReturnedLoose DEF v
<1>7. Proper(f, heap)
  BY <1>1, <1>5, <1>6, ReceivedProper DEF f
<1>8. \A i \in 1 .. n - 2 : i \in 1 .. n
  BY <1>2
<1>9. \A i \in DOMAIN stack' : Proper(stack'[i], heap)
  BY <1>2, <1>3, <1>4, <1>7, <1>8 DEF Poised, BorrowInv
<1>10. Clear(scopes', modules', heap)
  BY <1>1, PoisedTop
<1> QED
  BY <1>1, <1>9, <1>10, SettledKeep

\* The host adds objects before execute() starts.
LEMMA PresetKeeps ==
  ASSUME TypeOK, BorrowInv, stack = << >>,
         NEW fresh, Len(fresh) \in Nat, \A i \in 1 .. Len(fresh) : Modest(fresh[i]),
         NEW sc, ScopesHold(sc, Loose(heap)), NEW mo, ModulesHold(mo, Loose(heap)),
         Preset(fresh, sc, mo)
  PROVE  BorrowInv'
<1> DEFINE n == Len(fresh)
           h == [r \in DOMAIN heap \cup brk + 1 .. brk + Len(fresh) |->
                   IF r > brk THEN fresh[r - brk] ELSE heap[r]]
<1>1. /\ scopes' = sc /\ modules' = mo /\ stack' = stack /\ code' = code /\ Settle(h)
  BY DEF Preset
<1>2. brk \in Nat /\ HeapOK(heap, brk) /\ Clear(scopes, modules, heap)
  BY DEF TypeOK, BorrowInv
<1>3. /\ DOMAIN h = DOMAIN heap \cup (brk + 1 .. brk + n)
      /\ \A q \in DOMAIN heap : q <= brk /\ q \in Nat /\ h[q] = heap[q]
      /\ \A q \in brk + 1 .. brk + n : q - brk \in 1 .. n /\ h[q] = fresh[q - brk]
  BY <1>2 DEF HeapOK
<1> HIDE DEF h
<1>4. \A q \in brk + 1 .. brk + n : Modest(h[q])
  BY <1>3
<1>5. LoopIterators(h) \subseteq LoopIterators(heap)
  BY <1>3, <1>4 DEF LoopIterators, Modest
<1>6. Loose(heap) \subseteq Loose(h)
  BY <1>5 DEF Loose
<1>7. ObjectsHold(h, Loose(heap))
  BY <1>2, <1>3, <1>4 DEF Clear, ObjectsHold, Modest
<1>8. CallsNoItems => Itemless(h)
  BY <1>2, <1>3, <1>4 DEF Clear, Itemless, Modest
<1>9. Clear(scopes', modules', h)
  BY <1>1, <1>6, <1>7, <1>8, HoldWider DEF Clear
<1>10. DOMAIN stack' = {}
  BY <1>1
<1> QED
  BY <1>1, <1>9, <1>10, SettledKeep

\* set_string, set_list and set_module.
LEMMA HostKeeps ==
  ASSUME TypeOK, BorrowInv, stack = << >>, SetString \/ SetList \/ SetModule
  PROVE  BorrowInv'
<1>1. /\ ScopesOK(scopes) /\ ScopesHold(scopes, Loose(heap)) /\ ModulesHold(modules, Loose(heap))
      /\ brk \in Nat /\ HeapOK(heap, brk)
  BY DEF TypeOK, BorrowInv, Clear
<1>2. brk + 1 \in Loose(heap) /\ brk + 2 \in Loose(heap) /\ brk + 3 \in Loose(heap)
  BY <1>1 DEF HeapOK, Loose, LoopIterators, Ptr
<1>3. \A t : Modest(Str(t)) /\ Modest(Module(t))
  BY DEF Modest, Owned, LoopIterator, OfItems, Str, Module
<1>4. \A x : ScopesHold(SetValue(scopes, x, brk + 1), Loose(heap))
  BY <1>1, <1>2, SetValueHolds
<1>5. CASE SetString
  <2>1. PICK x \in HostNames, t \in HostTexts :
          Preset(<<Str(t)>>, SetValue(scopes, x, brk + 1), modules)
    BY <1>5 DEF SetString, PresetString
  <2> DEFINE o == Str(t)
             fresh == <<o>>
  <2>2. Modest(o) /\ Preset(fresh, SetValue(scopes, x, brk + 1), modules)
    BY <1>3, <2>1
  <2> HIDE DEF o
  <2>3. Len(fresh) \in Nat /\ \A i \in 1 .. Len(fresh) : Modest(fresh[i])
    BY <2>2
  <2> HIDE DEF fresh
  <2> QED
    BY <1>1, <1>4, <2>2, <2>3, PresetKeeps
<1>6. CASE SetList
  <2>1. PICK x \in HostNames, t \in HostTexts, u \in HostTexts :
          Preset(<<List(<<brk + 2, brk + 3>>), Str(t), Str(u)>>,
                 SetValue(scopes, x, brk + 1), modules)
    BY <1>6 DEF SetList, PresetList
  <2> DEFINE o == List(<<brk + 2, brk + 3>>)
             v == Str(t)
             w == Str(u)
             fresh == <<o, v, w>>
  <2>2. Modest(o)
    <3>1. o.type = "List" /\ o.val = <<brk + 2, brk + 3>>
      BY DEF List
    <3>2. Owned(o) = { <<brk + 2, brk + 3>>[i] : i \in DOMAIN <<brk + 2, brk + 3>> }
      BY <3>1 DEF Owned
    <3>3. Owned(o) = {brk + 2, brk + 3}
      BY <3>2
    <3> QED
      BY <1>2, <3>1, <3>3 DEF Modest, LoopIterator, OfItems
  <2>3. Modest(v) /\ Modest(w) /\ Preset(fresh, SetValue(scopes, x, brk + 1), modules)
    BY <1>3, <2>1
  <2> HIDE DEF o, v, w
  <2>4. /\ Len(fresh) = 3 /\ fresh[1] = o /\ fresh[2] = v /\ fresh[3] = w
        /\ \A i \in 1 .. 3 : i = 1 \/ i = 2 \/ i = 3
    OBVIOUS
  <2> HIDE DEF fresh
  <2>5. Len(fresh) \in Nat /\ \A i \in 1 .. Len(fresh) : Modest(fresh[i])
    BY <2>2, <2>3, <2>4
  <2> QED
    BY <1>1, <1>4, <2>3, <2>5, PresetKeeps
<1>7. CASE SetModule
  <2>1. PICK m \in HostModules : Preset(<<Module(m)>>, scopes, Put(modules, m, brk + 1))
    BY <1>7 DEF SetModule
  <2> DEFINE o == Module(m)
             fresh == <<o>>
             mo == Put(modules, m, brk + 1)
  <2>2. Modest(o) /\ Preset(fresh, scopes, mo)
    BY <1>3, <2>1
  <2>3. ModulesHold(mo, Loose(heap))
    BY <1>1, <1>2 DEF ModulesHold, Put
  <2> HIDE DEF o, mo
  <2>4. Len(fresh) \in Nat /\ \A i \in 1 .. Len(fresh) : Modest(fresh[i])
    BY <2>2
  <2> HIDE DEF fresh
  <2> QED
    BY <1>1, <2>2, <2>3, <2>4, PresetKeeps
<1> QED
  BY <1>5, <1>6, <1>7

\* The start of execute().
LEMMA ExecuteKeeps ==
  ASSUME TypeOK, BorrowInv, Execute
  PROVE  BorrowInv'
<1>1. PICK t, p, l :
        /\ t \in DOMAIN Handler
        /\ stack' = <<NewFrame(t, p, l)>>
        /\ UNCHANGED <<code, scopes, heap, modules>>
  BY DEF Execute
<1> DEFINE f == NewFrame(t, p, l)
<1>2. Proper(f, heap) /\ stack' = <<f>>
  BY <1>1, NewProper
<1> HIDE DEF f
<1>3. \A i \in DOMAIN stack' : Proper(stack'[i], heap)
  BY <1>2
<1>4. Clear(scopes', modules', heap)
  BY <1>1 DEF BorrowInv
<1> QED
  BY <1>1, <1>3, <1>4, SettledKeep

\* Every step.
LEMMA NextBorrows ==
  ASSUME TypeOK, Accounted, IdleOwners, BorrowInv, [Next]_vars
  PROVE  BorrowInv'
<1>1. CASE SetString \/ SetList \/ SetModule
  <2>1. stack = << >>
    BY <1>1 DEF SetString, PresetString, SetList, PresetList, SetModule, Preset, Idle, IdleOwners
  <2> QED
    BY <1>1, <2>1, HostKeeps
<1>2. CASE Execute
  BY <1>2, ExecuteKeeps
<1>3. CASE Nodes \/ Expressions \/ Statement
  <2>1. stack # << >>
    <3>1. Accounted' /\ outcome = "running"
      BY <1>3, StepsCount
    <3> QED
      BY <3>1 DEF TypeOK
  <2>2. Poised
    BY <2>1 DEF Poised
  <2>3. CASE (\E step \in ChildSteps : Enter(step)) \/ Return \/ Iterate
    BY <2>2, <2>3, EnterKeeps, ReturnKeeps, IterateKeeps
  <2>4. CASE ~ ((\E step \in ChildSteps : Enter(step)) \/ Return \/ Iterate)
    <3>1. CASE Skip \/ Drop \/ Count \/ ReadOp \/ ReadName \/ ReadNames \/ CheckCallable \/ Jump
      BY <2>2, <3>1, PlainTurn, TurnsKeep, FailsKeep DEF Poised
    <3>2. CASE \/ String \/ Integer \/ Unary \/ Binary \/ Compare \/ Subscript \/ Attribute
               \/ Decided \/ Undecided \/ Call \/ MakeAlias \/ Member \/ NewList \/ NewDictionary
      BY <2>2, <3>2, OpsTurn, TurnsKeep, FailsKeep DEF Poised
    <3>3. CASE Lookup \/ Fetch \/ Decide \/ Choose
      BY <2>2, <3>3, NamesTurn, DecisionsTurn, TurnsKeep, FailsKeep DEF Poised
    <3>4. CASE AppendElement \/ InsertEntry \/ Assign \/ BindImport \/ While \/ Again \/ Terminate
      BY <2>2, <3>4, FillsTurn, BindingsTurn, ScopesTurnOver, TurnsKeep, FailsKeep DEF Poised
    <3>5. CASE Augment \/ Load \/ Advance
      BY <2>2, <3>5, AugmentTurns, LoadTurns, AdvanceTurns, TurnsKeep, FailsKeep DEF Poised
    <3> QED
      BY <1>3, <2>4, <3>1, <3>2, <3>3, <3>4, <3>5 DEF Nodes, Expressions, Statement
  <2> QED
    BY <2>3, <2>4
<1>4. CASE Finish
  <2> DEFINE v == ReturnValue(Top)
             msg == IF ~ Is(heap, v, "Bool") THEN "result is not a boolean"
                    ELSE IF heap[v].val THEN "true" ELSE "false"
  <2>1. Fail(msg)
    BY <1>4 DEF Finish
  <2> HIDE DEF msg
  <2> QED
    BY <2>1, FailsKeep DEF Fails
<1>5. CASE UNCHANGED vars
  <2>1. /\ stack' = stack /\ scopes' = scopes /\ modules' = modules /\ heap' = heap /\ code' = code
    BY <1>5 DEF vars
  <2> QED
    BY <2>1, SettledKeep DEF BorrowInv
<1> QED
  BY <1>1, <1>2, <1>3, <1>4, <1>5 DEF Next, Host, Interpret, Ended

\* The initial states.
LEMMA InitBorrows ==
  ASSUME Init
  PROVE  BorrowInv
<1>1. stack = << >> /\ scopes = <<Fresh>> /\ heap = Empty /\ modules = Empty
  BY DEF Init
<1>2. DOMAIN heap = {} /\ DOMAIN modules = {} /\ DOMAIN stack = {}
  BY <1>1 DEF Empty
<1>3. \A L : ScopesHold(scopes, L)
  <2>1. DOMAIN scopes = {1} /\ DOMAIN scopes[1].values = {}
    BY <1>1 DEF Fresh, Empty
  <2> QED
    BY <2>1 DEF ScopesHold
<1> QED
  BY <1>2, <1>3 DEF BorrowInv, Clear, ModulesHold, ObjectsHold, Itemless

\* The inductive invariant of borrowing.
LEMMA BorrowCorrect == Spec => [](TypeOK /\ Accounted /\ BorrowInv)
<1>1. Init => TypeOK /\ Accounted /\ IdleOwners /\ BorrowInv
  BY InitTypes, InitCounts, InitBorrows
<1>2. TypeOK /\ Accounted /\ IdleOwners /\ BorrowInv /\ [Next]_vars
        => (TypeOK /\ Accounted /\ IdleOwners /\ BorrowInv)'
  BY NextKeepsTypes, NextCounts, NextBorrows
<1> QED
  BY <1>1, <1>2, PTL DEF Spec

\* What the invariant says of a frame's pointers.
LEMMA HeldBorrows ==
  ASSUME TypeOK, Accounted, BorrowInv, NEW f \in Range(stack), NEW p \in Range(f.vals) \cap DOMAIN heap
  PROVE  OfItems(heap[p]) \/ Borrowed(heap[p]) \subseteq DOMAIN heap
<1>1. PICK i \in DOMAIN stack : f = stack[i]
  BY DEF Range
<1>2. PICK k \in DOMAIN f.vals : p = f.vals[k]
  BY DEF Range
<1>3. Tied(f, heap) /\ f.vals \in Seq(Live(heap)) /\ IsObject(heap[p])
  BY <1>1 DEF BorrowInv, Proper, Accounted, Whole, FramesHold, TypeOK, HeapOK
<1>4. CASE LoopIterator(heap[p])
  <2>1. p \in LoopIterators(heap)
    BY <1>4 DEF LoopIterators
  <2>2. f.vals[1] = heap[p].val.over /\ f.vals[1] # Null
    BY <1>2, <1>3, <2>1 DEF Tied
  <2>3. f.vals[1] \in Live(heap)
    <3>1. 1 \in 1 .. Len(f.vals)
      BY <1>2, <1>3
    <3> QED
      BY <1>3, <3>1, ElementOfSeq
  <2>4. heap[p].val.over \in DOMAIN heap
    BY <2>2, <2>3 DEF Live
  <2> QED
    BY <1>4, <2>4 DEF Borrowed, LoopIterator
<1>5. CASE ~ LoopIterator(heap[p])
  <2>1. heap[p].type = "Iterator" => heap[p].val.kind \in {"Range", "List", "DictItem", "DictKey"}
    BY <1>3 DEF IsObject, IsIterator, IteratorKinds
  <2> QED
    BY <1>5, <2>1 DEF Borrowed, LoopIterator, OfItems
<1> QED
  BY <1>4, <1>5

(***************************************************************************)
(* Iterators refer to their list or dictionary by a plain C++ reference.   *)
(* In whatever state of whatever program, the one that a for loop makes    *)
(* refers to a live container: execute_next holds the container's ValuePtr *)
(* beside the iterator's until the loop ends, and hands the iterator to    *)
(* nobody.  So only what comes of items() can dangle, when its dictionary  *)
(* is a temporary.                                                         *)
(***************************************************************************)
THEOREM OnlyItemsDangleCorrect == Spec => []OnlyItemsDangle
<1>1. TypeOK /\ Accounted /\ BorrowInv => OnlyItemsDangle
  BY HeldBorrows DEF OnlyItemsDangle
<1> QED
  BY <1>1, BorrowCorrect, PTL

(***************************************************************************)
(* In a program where the name "items" does not occur, no activation ever  *)
(* holds an iterator whose container is freed.                             *)
(***************************************************************************)
THEOREM BorrowsAreLiveCorrect == Spec => [](CallsNoItems => BorrowsAreLive)
<1>1. TypeOK /\ Accounted /\ BorrowInv => (CallsNoItems => BorrowsAreLive)
  BY HeldBorrows DEF BorrowsAreLive, BorrowInv, Clear, Itemless
<1> QED
  BY <1>1, BorrowCorrect, PTL

-----------------------------------------------------------------------------
(* What the host presets. *)

\* An object that stays what it is reads as it did, and so do its elements.
LEMMA KeptTexts ==
  ASSUME NEW h, NEW g, ObjectsHold(h, Live(h)), ObjectsHold(g, Live(g)),
         Null \notin DOMAIN h, Null \notin DOMAIN g,
         \A q \in DOMAIN h \cap DOMAIN g : g[q] = h[q],
         NEW p \in Live(h) \cap Live(g)
  PROVE  TextsAt(g, p) = TextsAt(h, p)
<1>1. ASSUME NEW q \in Live(h) \cap Live(g)
      PROVE  StringAt(g, q) = StringAt(h, q)
  <2>1. CASE q = Null
    BY <2>1 DEF StringAt, Is
  <2>2. CASE q # Null
    <3>1. q \in DOMAIN h /\ q \in DOMAIN g /\ g[q] = h[q]
      BY <2>2 DEF Live
    <3> QED
      BY <3>1 DEF StringAt, Is
  <2> QED
    BY <2>1, <2>2
<1>2. CASE p = Null
  BY <1>1, <1>2 DEF TextsAt, Is
<1>3. CASE p # Null
  <2>1. p \in DOMAIN h /\ p \in DOMAIN g /\ g[p] = h[p]
    BY <1>3 DEF Live
  <2>2. CASE h[p].type = "List"
    <3>1. \A i \in DOMAIN h[p].val : h[p].val[i] \in Live(h) \cap Live(g)
      BY <2>1, <2>2 DEF ObjectsHold, Owned
    <3>2. \A i \in DOMAIN h[p].val : StringAt(g, h[p].val[i]) = StringAt(h, h[p].val[i])
      BY <1>1, <3>1
    <3> QED
      BY <2>1, <2>2, <3>2 DEF TextsAt, Is
  <2>3. CASE h[p].type # "List"
    BY <1>1, <2>1, <2>3 DEF TextsAt, Is
  <2> QED
    BY <2>2, <2>3
<1> QED
  BY <1>2, <1>3

\* While the host may preset, there is the global scope alone.
LEMMA IdleScope ==
  ASSUME TypeOK, ScopeInv, outcome = "idle"
  PROVE  DOMAIN scopes = {1} /\ Len(scopes) = 1
<1>1. stack = << >>
  BY DEF TypeOK
<1>2. Busy(<< >>) = {}
  BY DEF Busy
<1>3. Depth(<< >>) = 0
  BY <1>2, FS_EmptySet DEF Depth
<1>4. Len(scopes) = 1
  BY <1>1, <1>3 DEF ScopeInv
<1>5. scopes \in Seq(Range(scopes))
  BY DEF TypeOK, ScopesOK
<1> QED
  BY <1>4, <1>5

\* There set_value binds the name, whether or not it is bound.
LEMMA SetValueBinds ==
  ASSUME NEW sc, ScopesOK(sc), DOMAIN sc = {1}, Len(sc) = 1, NEW x, NEW p
  PROVE  SetValue(sc, x, p)[1].values = Put(sc[1].values, x, p)
<1>1. Holders(sc, x) = {} \/ Holders(sc, x) = {1}
  BY DEF Holders
<1>2. SetValue(sc, x, p)[1] = [sc[1] EXCEPT !.values = Put(@, x, p)]
  BY <1>1 DEF SetValue
<1>3. DOMAIN sc[1] = {"values", "terminated"}
  BY DEF ScopesOK, IsScope
<1> QED
  BY <1>2, <1>3

\* What was there stays what it is, and what is new is what the host gave.
LEMMA PresetHeap ==
  ASSUME TypeOK, NEW fresh, Presets(fresh), NEW sc, NEW mo, Preset(fresh, sc, mo)
  PROVE  /\ scopes' = sc /\ outcome = "idle"
         /\ \A p \in DOMAIN heap \cap DOMAIN heap' : heap'[p] = heap[p]
         /\ \A i \in 1 .. Len(fresh) : brk + i \in DOMAIN heap' => heap'[brk + i] = fresh[i]
<1>1. PICK h : Extended(h, fresh) /\ Settle(h)
  BY PresetExtends
<1>2. scopes' = sc /\ outcome = "idle"
  BY DEF Preset, Idle
<1>3. \A p \in DOMAIN heap' : heap'[p] = h[p]
  BY <1>1 DEF Settle, Collect
<1> QED
  BY <1>1, <1>2, <1>3 DEF Extended

\* What the invariants say of the values of names.
LEMMA NamesAreLive ==
  ASSUME TypeOK, Accounted, 1 \in DOMAIN scopes
  PROVE  /\ \A y \in DOMAIN scopes[1].values : scopes[1].values[y] \in Live(heap)
         /\ ObjectsHold(heap, Live(heap)) /\ Null \notin DOMAIN heap
<1>1. Null \notin DOMAIN heap
  BY DEF TypeOK, HeapOK, Null
<1> QED
  BY <1>1 DEF Accounted, Whole, ScopesHold

\* What names refer to reads as before, as long as they refer to it.
LEMMA PresetKeepsTexts ==
  ASSUME TypeOK, TypeOK', Accounted, Accounted', ScopeInv,
         NEW fresh, Presets(fresh), NEW sc, NEW mo, Preset(fresh, sc, mo), 1 \in DOMAIN sc,
         NEW y \in DOMAIN scopes[1].values, y \in DOMAIN sc[1].values,
         sc[1].values[y] = scopes[1].values[y]
  PROVE  HostValues'[y] = HostValues[y]
<1> DEFINE p == scopes[1].values[y]
<1>1. /\ scopes' = sc /\ outcome = "idle"
      /\ \A q \in DOMAIN heap \cap DOMAIN heap' : heap'[q] = heap[q]
  BY PresetHeap
<1>2. 1 \in DOMAIN scopes
  BY <1>1, IdleScope
<1>3. p \in Live(heap) /\ ObjectsHold(heap, Live(heap)) /\ Null \notin DOMAIN heap
  BY <1>2, NamesAreLive
<1>4. p \in Live(heap') /\ ObjectsHold(heap', Live(heap')) /\ Null \notin DOMAIN heap'
  <2>1. Null \notin DOMAIN heap'
    BY DEF TypeOK, HeapOK, Null
  <2> QED
    BY <1>1, <2>1 DEF Accounted, Whole, ScopesHold
<1>5. TextsAt(heap', p) = TextsAt(heap, p)
  BY <1>1, <1>3, <1>4, KeptTexts
<1> QED
  BY <1>1, <1>5 DEF HostValues

\* The name reads as the new object does, the others as they did.
LEMMA NamedPresetReads ==
  ASSUME TypeOK, TypeOK', Accounted, Accounted', ScopeInv,
         NEW fresh, Presets(fresh), NEW x, Preset(fresh, SetValue(scopes, x, brk + 1), modules)
  PROVE  /\ HostValues' = Put(HostValues, x, TextsAt(heap', brk + 1))
         /\ brk + 1 \in DOMAIN heap' /\ ObjectsHold(heap', Live(heap'))
<1> DEFINE p == brk + 1
           old == scopes[1].values
           new == scopes'[1].values
<1>1. scopes' = SetValue(scopes, x, p) /\ outcome = "idle"
  BY PresetHeap
<1>2. DOMAIN scopes = {1} /\ Len(scopes) = 1 /\ ScopesOK(scopes)
  BY <1>1, IdleScope DEF TypeOK
<1>3. new = Put(old, x, p)
  BY <1>1, <1>2, SetValueBinds
<1>4. 1 \in DOMAIN scopes'
  BY <1>1, <1>2, BoundDomain
<1>5. p \in DOMAIN heap' /\ ObjectsHold(heap', Live(heap'))
  <2>1. new[x] \in Live(heap') /\ ObjectsHold(heap', Live(heap'))
    BY <1>3, <1>4 DEF Put, Accounted, Whole, ScopesHold
  <2>2. p # Null
    BY DEF TypeOK, Null
  <2> QED
    BY <1>3, <2>1, <2>2 DEF Live, Put
<1>6. DOMAIN new = DOMAIN old \cup {x} /\ new[x] = p
      /\ \A y \in DOMAIN old : y # x => new[y] = old[y]
  BY <1>3 DEF Put
<1>7. \A y \in DOMAIN old : y # x => HostValues'[y] = HostValues[y]
  BY <1>1, <1>4, <1>6, PresetKeepsTexts
<1>8. HostValues'[x] = TextsAt(heap', p)
  BY <1>6 DEF HostValues
<1>9. DOMAIN HostValues = DOMAIN old
      /\ HostValues' = [y \in DOMAIN new |-> HostValues'[y]]
  BY DEF HostValues
<1> HIDE DEF p, old, new
<1>10. HostValues' = Put(HostValues, x, TextsAt(heap', p))
  BY <1>6, <1>7, <1>8, <1>9 DEF Put
<1> QED
  BY <1>5, <1>10 DEF p

\* set_string
LEMMA PresetStringReads ==
  ASSUME TypeOK, TypeOK', Accounted, Accounted', ScopeInv, NEW x, NEW t, PresetString(x, t)
  PROVE  HostValues' = Put(HostValues, x, <<t>>)
<1> DEFINE fresh == <<Str(t)>>
<1>1. Len(fresh) = 1 /\ fresh[1] = Str(t)
  OBVIOUS
<1>2. Preset(fresh, SetValue(scopes, x, brk + 1), modules)
  BY DEF PresetString
<1> HIDE DEF fresh
<1>3. Presets(fresh)
  BY <1>1 DEF Presets, Owned, Str
<1>4. /\ HostValues' = Put(HostValues, x, TextsAt(heap', brk + 1))
      /\ brk + 1 \in DOMAIN heap'
  BY <1>2, <1>3, NamedPresetReads
<1>5. heap'[brk + 1] = Str(t)
  BY <1>1, <1>2, <1>3, <1>4, PresetHeap
<1>6. TextsAt(heap', brk + 1) = <<t>>
  BY <1>4, <1>5 DEF TextsAt, StringAt, Is, Str
<1> QED
  BY <1>4, <1>6

\* set_list
LEMMA PresetListReads ==
  ASSUME TypeOK, TypeOK', Accounted, Accounted', ScopeInv, NEW x, NEW t, NEW u,
         PresetList(x, t, u)
  PROVE  HostValues' = Put(HostValues, x, <<t, u>>)
<1> DEFINE elems == <<brk + 2, brk + 3>>
           o == List(elems)
           fresh == <<o, Str(t), Str(u)>>
<1>1. Len(fresh) = 3 /\ fresh[1] = o /\ fresh[2] = Str(t) /\ fresh[3] = Str(u)
  OBVIOUS
<1>2. Preset(fresh, SetValue(scopes, x, brk + 1), modules)
  BY DEF PresetList
<1>3. o.type = "List" /\ o.val = elems
  BY DEF List
<1>4. DOMAIN elems = {1, 2} /\ elems[1] = brk + 2 /\ elems[2] = brk + 3
  OBVIOUS
<1>5. brk \in Nat
  BY DEF TypeOK
<1> HIDE DEF fresh, o, elems
<1>6. Owned(o) = {brk + 2, brk + 3}
  BY <1>3, <1>4 DEF Owned
<1>7. Presets(fresh)
  <2>1. Owned(Str(t)) = {} /\ Owned(Str(u)) = {}
        /\ Str(t).type # "Module" /\ Str(u).type # "Module"
    BY DEF Owned, Str
  <2> QED
    BY <1>1, <1>5, <1>6, <2>1 DEF Presets
<1>8. /\ HostValues' = Put(HostValues, x, TextsAt(heap', brk + 1))
      /\ brk + 1 \in DOMAIN heap' /\ ObjectsHold(heap', Live(heap'))
  BY <1>2, <1>7, NamedPresetReads
<1>9. \A i \in 1 .. 3 : brk + i \in DOMAIN heap' => heap'[brk + i] = fresh[i]
  BY <1>1, <1>2, <1>7, PresetHeap
<1>10. heap'[brk + 1] = o
  BY <1>1, <1>8, <1>9
<1>11. brk + 2 \in DOMAIN heap' /\ brk + 3 \in DOMAIN heap'
  BY <1>5, <1>6, <1>8, <1>10 DEF ObjectsHold, Live, Null
<1>12. heap'[brk + 2] = Str(t) /\ heap'[brk + 3] = Str(u)
  BY <1>1, <1>9, <1>11
<1>13. StringAt(heap', elems[1]) = t /\ StringAt(heap', elems[2]) = u
  BY <1>4, <1>11, <1>12 DEF StringAt, Is, Str
<1>14. TextsAt(heap', brk + 1) = [i \in {1, 2} |-> StringAt(heap', elems[i])]
  BY <1>3, <1>4, <1>8, <1>10 DEF TextsAt, Is
<1>15. TextsAt(heap', brk + 1) = <<t, u>>
  BY <1>13, <1>14
<1> QED
  BY <1>8, <1>15

\* set_module, and the start of execute()
LEMMA OthersKeepValues ==
  ASSUME TypeOK, TypeOK', Accounted, Accounted', ScopeInv, SetModule \/ Execute
  PROVE  HostValues' = HostValues
<1>1. CASE Execute
  BY <1>1 DEF Execute, HostValues
<1>2. CASE SetModule
  <2>1. PICK m \in HostModules : Preset(<<Module(m)>>, scopes, Put(modules, m, brk + 1))
    BY <1>2 DEF SetModule
  <2>2. Presets(<<Module(m)>>)
    BY DEF Presets, Owned, Module
  <2>3. scopes' = scopes /\ outcome = "idle"
    BY <2>1, <2>2, PresetHeap
  <2>4. 1 \in DOMAIN scopes
    BY <2>3, IdleScope
  <2>5. \A y \in DOMAIN scopes[1].values : HostValues'[y] = HostValues[y]
    BY <2>1, <2>2, <2>4, PresetKeepsTexts
  <2>6. /\ HostValues = [y \in DOMAIN scopes[1].values |-> HostValues[y]]
        /\ HostValues' = [y \in DOMAIN scopes[1].values |-> HostValues'[y]]
    BY <2>3 DEF HostValues
  <2> QED
    BY <2>5, <2>6
<1> QED
  BY <1>1, <1>2

(***************************************************************************)
(* Whatever the host sets, as often and in whatever order, each call of    *)
(* set_string, set_list and set_module takes effect on its own name and on *)
(* nothing else: set_value replaces the value of a bound name, and the     *)
(* object freed with it is never one that another name or list reads.      *)
(***************************************************************************)
THEOREM LastPresetWinsCorrect == Spec => LastPresetWins
<1> DEFINE Inv == TypeOK /\ Accounted /\ IdleOwners /\ ScopeInv
<1>1. Init => Inv
  BY InitTypes, InitCounts, InitScopes
<1>2. Inv /\ [Next]_vars => Inv'
  BY NextKeepsTypes, NextCounts, NextKeepsScopes
<1>3. Inv /\ Inv' => TakesEffect
  BY PresetStringReads, PresetListReads, OthersKeepValues DEF TakesEffect
<1> QED
  BY <1>1, <1>2, <1>3, PTL DEF Spec, LastPresetWins

=============================================================================
