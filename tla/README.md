# Verification of chipy

chipy compiles a subset of Python 3 to a byte code (`src/compiler`) and runs it
in an interpreter (`src/interpreter`) that a C++ host embeds: the host presets
names and modules, calls `execute()` and gets a Boolean back; values travel
between host and program as documents.  This directory holds TLA+ modules that
model the compiler, the interpreter, its memory manager, the conversion from and
to documents and the reader of programs; TLC configurations that check them on
small instances; and theorems about all of them, for every program, document or
text, that TLAPS checks.

Paths below are relative to the repository.

## The system

| Part | Code | State it keeps | Operations |
| --- | --- | --- | --- |
| StringReader | `src/compiler/Compiler.cpp:13-64` | lines, line number | `get_line`, `eof` |
| Compiler | `src/compiler/Compiler.cpp:66-423` | the BitStream it writes | `parse_next`, `compile_code`, `compile_file` |
| Byte code | `include/chipy/NodeType.h`, both sides | none: a layout that three functions share | |
| Interpreter | `src/interpreter/Interpreter.cpp` | cursor of `m_data`, global scope, loaded modules, and on the C++ stack the activations of `execute_next` with their `loop_state`s and loop scopes | `execute`, `execute_next`, `skip_next`, `set_string`, `set_list`, `set_module`, `get_module` |
| Scope | `src/interpreter/Scope.cpp` | a map of names, a terminated flag, a parent | `set_value`, `get_value`, `has_value`, `terminate` |
| Values | `include/chipy/Value.h`, `List`, `Dictionary`, `Tuple` | their contents; integers are mutable (`IntVal::set`) | operators, casts, `append`, `insert`, `get`, `contains` |
| Iterators | `RangeIterator.h`, `List.cpp`, `Dictionary.cpp` | a position and a plain reference to the container | `next`, `iterate`, `items` |
| Builtins, modules | `Builtin.h`, `modules/rand.cpp`, `Module.h` | none, but for what a host's module keeps | `call`, `get_member` |
| Memory manager | `MemoryManager.cpp`, `Object.h` | a 1 MiB buffer, a position, a table of allocations | `malloc`, `free` |
| Document converter, writer | `Generator.cpp`, `Document.cpp` | a stack of values under construction | callbacks of `json::Document`, calls of `json::Writer` |

How they interact: the compiler's bytes are all that passes to the interpreter.
`execute_next` recurses on nodes; every activation gets the scope it runs in and
a reference to a `loop_state` that it may change.  Loops create a scope on the
C++ stack for each iteration.  Values are `shared_ptr`s; scopes, lists,
dictionaries, local variables and `m_loaded_modules` own them, iterators and
`items()` objects do not own their dictionary or list.

There is no concurrency and nothing is persisted.  What makes this code hard is
the *cursor*: the program is a stream, each node must be executed or skipped
exactly once, loops rewind, and whether a node rewinds the stream when it is
left depends on `loop_state`, an in-out parameter with five values that is
sometimes shared with the caller, sometimes a copy, sometimes a dummy.  Next to
it: which scope of the chain a name lives in and which one a `return` ends;
objects shared between names, and iterators that outlive their container; null
pointers, since `None` is one; 32-bit integers; an arena that never checks its
bound.

What each part owes:

* *Compiler, byte code*: writer, executor and skipper agree on the layout of
  every node type.
* *Interpreter*: a node consumes its own fields; jumps stay within their loop;
  a return is final; `execute()` ends and gives Python's answer or none.
* *Scope*: one binding per name; one scope per running iteration.
* *Values*: integers within `int32_t`; no operation looks through null
  unnoticed; integers are values, not cells.
* *Iterators*: the container is alive while one is used; `next` advances.
* *Modules, host*: one object per module; presets answer by their last value.
* *Memory manager*: live allocations are disjoint and inside the buffer; the table
  knows every object; the manager outlives the objects.
* *Converter and writer*: the value has the document's shape, and what is written
  is what was read.
* *StringReader*: the lexer sees the whole program, line by line.

`PROJECT.json` lists every hazard at its line and the property that covers it.

## Modules

| Module | Models | EXTENDS |
| --- | --- | --- |
| `Bytecode` | node types, fields, and two tables: per node type the steps of its case in `execute_next` (`Handler`) and in `skip_next` (`Skipper`) | |
| `Values` | objects, and the operators on them that change no state, each yielding a result: a new object, an existing pointer, or an exception | |
| `Interpreter` | the state machine: frames, scopes, objects, cursor, host | `Bytecode`, `Values` |
| `Compiler` | `parse_next` as a recursive function from pypa's trees to fields, and which trees there are (`IsTree`) | `Bytecode`, `Values` |
| `Python` | what Python 3 makes of the same trees: the reference the answers are compared with | |
| `Layout` | which programs are laid out the way these tables read them (`WellFormed`); not code, but what the compiler and the interpreter owe each other | `Bytecode` |
| `Chipy` | the two together: the programs that the interpreter runs are what the compiler makes of syntax trees | `Interpreter`, `Compiler`, `Layout` |
| `MCInterpreter` | the families of programs and the constants for TLC | `Chipy`, `Python` |
| `Allocator` | what any memory manager owes its objects: memory that nobody has or had | |
| `MemoryManager` | `malloc`, `free`, who holds each object, and the destruction of an `Interpreter`; implements `Allocator` | |
| `DocConverter` | `create_from_document`: a document reports itself, `DocConverter` builds the value | `Values` |
| `DocWriter` | `value_to_document`, composed with `DocConverter`: what was read is written | `DocConverter` |
| `MCDocWriter` | its constants for TLC | `DocWriter` |
| `StringReader` | the constructor's cutting of the text, `get_line`, `eof` | |
| `SequenceLemmas` | lemmas about sequences that several proofs use | TLAPS |
| `Interpreter_proofs` | type correctness; the numbering of objects implements `Allocator`; who owns what | `Interpreter`, TLAPS |
| `Loops_proofs` | jumps, names, scopes; what iterators refer to; presets | `Interpreter_proofs` |
| `Cursor_proofs` | the cursor, and that a return is final | `Loops_proofs`, `Layout` |
| `Compiler_proofs` | the compiler's output is laid out as the interpreter reads it; hence the cursor of every compiled program | `Cursor_proofs`, `Chipy` |
| `Memory_proofs` | the memory manager | `MemoryManager` |
| `DocConverter_proofs` | the converter and the writer | `DocWriter` |
| `Reader_proofs` | the reader | `StringReader` |

`MemoryManager` and `Interpreter` look at the same objects, one with their bytes
and owners, the other with what they contain.  Both are shown to implement
`Allocator`, each under its own mapping, and that is all that either needs of
the other: an address, or a number, that belongs to one object forever.

### The interpreter: state

| Variable | In the code |
| --- | --- |
| `prog`, `code`, `pos` | the program chosen, `m_data`, its cursor; the stream is a sequence of fields, not bytes |
| `stack` | the activations of `execute_next`: `node`, `start` (line 174), `ls` (the caller's `loop_state`), `body` (`for_loop_state`), the steps left (`todo`) and the local variables (`vals`, `rd`) |
| `scopes` | `m_global_scope` and the `body_scope`s, by `m_parent` |
| `heap` | the live objects by number; a pointer outside its domain is null or dangles |
| `brk` | `m_buffer_pos`, in objects |
| `modules` | `m_loaded_modules` |
| `outcome` | `"idle"` before `execute()`, `"running"`, then how it ended: `"true"`, `"false"`, an exception's message, or an undefined behaviour |

### The interpreter: steps

The C++ recursion is a stack of frames.  A step of the model is one entry of a
handler's table: it reads its field, or runs a child (`Enter`; the child's value
and `loop_state` come back in `Return`, which also rewinds the cursor as lines
797-798 do), or does what the handler does between two children (`Decide`,
`Choose`, `Iterate`, `Advance`, `Again`, `Augment`, ...).  `skip_next` keeps no
state but the cursor, so it is unfolded into its caller's `todo` (`Skip`,
`Drop`).  `Count` is the head of a counted loop.  Objects nobody owns any longer
vanish with the step that releases them (`Settle`), as with `shared_ptr`.

The program is sequential, so a state has one successor, except where the host
chooses what to preset.  Undefined behaviour (a null or a dangling pointer
dereferenced) ends the run with an outcome of its own, and is never an answer;
signed overflow wraps, as the builds do.

`code` carries a ghost: the compiler notes on every node how many fields it
spans.  No action reads it; `ConsumesItsNode` and `WellFormed` compare the
cursor, and the children, with it.

Assumed of the libraries: a BitStream returns fields as they were written;
pypa's operator enumerations have the numbering of the interpreter's (that is
how the code reads them back); `std::map` iterates in key order.

### The compiler

`parse_next` keeps no state but the stream that it appends to, so it is a
function: `Encode[n]` is what it appends for the tree `n`, and `ParseNext` is
its `switch`, one case per `AstType`, in terms of the code of the parts.  The
recursion ends because trees do: `Trees` is a set of trees with all their parts,
and `Height` a number for each that is greater than its parts'.
`TreesAreTrees` is what pypa's classes and grammar guarantee of them: a part is a
tree; the members of type `AstExpr` are not statements; a loop's body is a
suite; a dictionary has as many values as keys, a comparison as many operators
as comparators; names, operators and literals are what they are.  TLC evaluates
it for the trees of every run.  An `AstType` that `parse_next` does not know, and
a null member that it would dereference (a bare `return`), give no code
(`Refused`, `Written`).

### The memory manager

`m_buffer_pos` and `m_allocs` are the fields of the class.  `held` is the
program around it: for each live object, who has a `shared_ptr` to it (the
global scope, `m_loaded_modules`, the host's locals).  `Create` is `new (mem) T`:
`malloc` and a first holder.  `Share` and `Release` copy and drop pointers, and the last
one calls `operator delete`, which asks the manager.  `DeleteScope`,
`ReleaseModules` and `DestroyManager` are `~Interpreter` and the destruction of
its members, in the order that the declarations of `Interpreter.h:49-54`
prescribe.  Erasing an entry that is not in the table, or asking a manager
that is gone, is the phase `"undefined"`.  The hosts of the tests declare their
pointers after the interpreter (`test/python.cpp:108-116`), so `DeleteScope`
waits until the host has let go; this is an assumption on hosts, not a check of
the code.

### Documents

The document library is external.  `doc`, `open` and `root` say what it has
reported so far: the values, and the containers it is inside of.  The
converter's own state is `parse_stack` and the objects it made (`heap`).  Each
callback is an action (`HandleString`, ..., `HandleStart`, `HandleEnd`,
`GetResult`), with the key that it was called with: `""` for the root, a key of
the map, or `ElementKey`, whatever the library calls an element of an array, as
long as it is not empty.  Integers are narrowed from 64 to 32 bits.

`value_to_bdoc` recurses on the value.  Its activations are `walk`; `written` and
`nested` are what the calls of `json::Writer` amount to.  The code ends a list
with `end_map`; the model takes that for "end the innermost container", since the
library's writer is not in the repository.

### The reader

`code`, `m_code` and `m_line_pos` are the text, the lines (each by where it
begins and ends) and the number of lines returned.  `text` records what
`get_line` has returned so far, for the properties.  The lexer is external and
may call `get_line` whenever it likes, also past the end.

## Runs

| Run | Instance | Properties |
| --- | --- | --- |
| `programs` | 896 programs, 105,812 states | `CodeIsWellFormed`, `JumpsNeedLoops`, `ScopePerIteration`, `OneBinding`, `NoCycles`, `BorrowsAreLive`, `ConsumesItsNode`, `ReadsWhatWasWritten`, `AgreesWithPython`, `EndsAtTheEnd`, `ReturnIsFinal`, `Terminates` |
| `host` | every order of presets, up to six objects, before two programs, and 58 programs that fail; 72,645 states | `TypeOK`, `NeverWrong`, `AnswersFromPresets`, `OneModule`, `LastPresetWins`, `NumbersAreNotReused` |
| `memory` | objects of two sizes up to position 7; 54,604 states | `TypeOK`, `TableIsExact`, `ManagerOutlivesObjects`, `ImplementsAllocator` |
| `documents` | documents of up to five values; 471,012 states | `ConverterTypeOK`, `StackIsNesting`, `ValueIsDocument`, `ValidDocumentsConvert`, `RoundTrip`, `RefusesForCause` |
| `reader` | texts of up to eight characters; 5,374 states | `TypeOK`, `ReadsTheCode`, `LinesAreLines`, `EmptyLineIsTheEnd`, `LineNumberCounts` |

### Programs

`IntMin = -16`, `IntMax = 15` is the model's `int32_t`, small enough to
overflow in one addition and large enough that no supported program does.  The
arena holds 200 objects, more than any terminating program allocates; the one
program that never ends must exhaust it.  This stop (`Full`) is a bound of the
model: `MemoryManager::malloc` compares nothing with the size of its buffer.  So
`Terminates` does not count it as an end: a loop that allocates without end
violates the property just as one that does not.  Every program is an initial
state.

The 896 supported programs are: 49 pairs of body statements in a `for` over a
range and over a list, and four `while` bodies, each with two questions; 12
conditions alone, negated, in all pairs under `and` and `or` (with a third
operand to skip) and as branch conditions, for two values of x; and 11 kinds of
statement executed, in a branch not taken, after a break and after a return.
The host's programs are a membership test and a module import; the failing ones
raise, use what chipy does not support, overflow, or never end.

Three iterations are enough to distinguish the first, a middle and the last one,
and two nesting levels to have a loop state to protect; a body of two statements
has one to skip.  Between them the runs fire every action and every disjunct of
`Next`.

`CodeIsWellFormed` looks at the programs themselves, before they run: each node's
fields are those that its cases of `execute_next` and of `skip_next` read, on
every path through them, also on those that no run takes, and no `break` leaves a
`while`.

The reference `Python` evaluates syntax trees with an environment and knows
nothing of cursors, scopes or objects: `AgreesWithPython` is the statement that
the byte-code machine implements the language, on these programs.  `NeverWrong`
is what remains for the 58 programs of `host` that raise or use what chipy does
not support: no answer, or the right one.  It does not hold of every program: the
known wrong answers are left out of that run and have runs of their own, below.

`AnswersFromPresets` says how the membership program answers by what the global
scope holds in the end; `LastPresetWins` follows the host's calls and says that this
is what was set last: each call replaces the value of its own name, read through
the heap with the texts of a list's elements, and no other.

Fairness: `FairSpec` adds `WF_vars(Interpret)`.  `execute()` is a plain function
on its host's thread, so while a step is possible one is taken.  Nothing obliges
the host to call `execute()`, and no fairness is put on `Host`.

### Objects, documents, texts

Seven bytes after a global scope of two are room for five small objects, or for
two large ones and a small one: enough for neighbours on both sides of a freed
allocation.  Every set of holders, and every order of releases, occurs.

Five values are enough for a container in a container with a sibling before and
after it, and for three levels of nesting; two keys for a map whose order
matters; the integer 4 does not fit `IntMax = 3`, so narrowing is visible.

Eight characters, of which any may be a newline, give texts with up to nine
lines, empty ones anywhere, with and without a newline at the end.

`memory` and `documents` really stop (the interpreter is gone, the document is
written or refused), so deadlock is not checked there.

### Where the code differs from what it says

`compile_code` asks pypa for `python3only` (`Compiler.cpp:408`).  Five runs are
expected to end in a violation, each with one small program, and two with an
instance of the other modules:

| Run | Divergence |
| --- | --- |
| `sticky_continue` | after a conditional `continue`, the bodies of all later iterations are skipped: `for_loop_state` stays `Continue` |
| `return_in_loop` | `return` in a loop body ends the iteration only: it terminates the iteration's scope |
| `break_in_while` | `break` in a `while` rewinds to the body, which then runs again as the next statement |
| `shared_integer` | `+=` changes the object, and with it every name that shares it |
| `temporary_dict` | `{...}.items()` in a `for` iterates over a dictionary that has been freed |
| `arena_overrun` | nothing compares `m_buffer_pos` with the size of the buffer, and no bytes are given back |
| `empty_key` | a map with an empty key is a valid document, but the converter takes the key for the root's |

The passing families therefore contain no `continue`, no `return` in a loop, no
`break` directly in a `while`, and no `+=` on a name whose value is shared; the
passing `memory` run does not state `InsideBuffer`, and the keys of `documents`
are not empty.  Further differences are modelled (in `Values` and
`Interpreter`) but have no run: `skip_next` has no case for a `while` loop or an
import (`Interpreter.cpp:952`), so that one in a branch not taken makes
`execute()` throw; `==` of two Booleans is always false (`Value.h:219`);
chained comparisons compare with the previous Boolean (`Interpreter.cpp:582`);
iterating over a dictionary yields its values (`Dictionary.cpp:44`); `not 0` is
false (`Interpreter.cpp:340`); `1 < 'a'` is false instead of an error; a range is
used up by one loop; names first bound in a loop body vanish with it; builtins
cannot be shadowed; the `else` of a loop is dropped by the compiler.

## Proofs

Everything is proved from the assumptions declared beside the constants: the
bounds of the integers (`IntRange`), the library functions' ranges (`Numerals`,
`Randomness`), that programs are sequences of well-formed fields
(`ProgramsAreCode`; *not* that a compiler wrote them), natural bounds for the
arena and the presets, positive sizes of objects (`SizesArePositive`), integers in
documents (`NumbersAreIntegers`), a newline among the characters (`Bounds`), and,
of the compiler, that syntax trees are what pypa builds (`TreesAreTrees`).  So
the theorems about the interpreter hold for every byte code, also for one that
no compiler produced, except for the four of `Cursor_proofs`, which cannot: on a
byte code of the wrong shape the cursor is anywhere.  They have the hypothesis
`ProgramsWellFormed`, that every program is `WellFormed`; `Compiler_proofs` shows
that compiled programs are, but for one thing that is not a matter of layout: a
`break` that leaves a `while` (`NoBreakLeavesWhile`), with which the properties are
false (run `break_in_while`).

The interpreter:

* `TypeCorrect == Spec => []TypeOK` (`Interpreter_proofs`).  `TypeOK` is
  inductive.  The lemmas go bottom up: sequences and maps; every operator of
  `Values` yields a well-formed result (`IsResult`), so that allocation keeps
  `HeapOK`; `Collect` only removes objects; `SetValue` and `Bound` keep the scopes
  well formed; `Yield`, `Resume`, `Fail` and `Step` keep the types; then one lemma
  per action.
* `OneBindingCorrect == Spec => []OneBinding` (`Loops_proofs`).  With `TypeOK`
  inductive: `SetValue` writes to the one scope that has the name or else to the
  innermost, `Fresh` has no names, the other actions leave the scopes alone or
  drop the last one.
* `JumpsNeedLoopsCorrect == Spec => []JumpsNeedLoops` (`Loops_proofs`).  The
  property alone is not inductive: a body is entered with the loop's
  `for_loop_state`, so the invariant must add that no frame's `body` is `None`
  (`JumpsInv`).  The argument depends on how an action disturbs the stack: it
  keeps every frame's kin (`Local`), pushes a frame whose `ls` is a child's
  (`Enter`), or pops one and hands its `ls` to a caller that is itself within the
  loop (`Return`).

* `ScopePerIterationCorrect == Spec => []ScopePerIteration` (`Loops_proofs`).
  `ScopeInv` adds to the count of scopes what makes it inductive (`Order`): the
  steps `body` and `again` stand only at the front of an activation's steps, in
  that order, and every activation but the innermost waits for a child.  An
  activation in an iteration weighs one and the others nothing (`Weight`), the
  depth is the sum, and each action either keeps the weight of the top frame
  (`Steady`), adds one with a scope (`OpeningKeepsScopes`), or takes one with it
  (`AgainKeepsScopes`).
* `OnlyItemsDangleCorrect == Spec => []OnlyItemsDangle` and
  `BorrowsAreLiveCorrect == Spec => [](CallsNoItems => BorrowsAreLive)`
  (`Loops_proofs`).  An iterator refers to its container by a C++ reference, which
  counts for nothing.  That the container lives is due to the loop alone: it keeps
  the container's pointer first among its own, until the loop ends, and the
  iterator's behind it.  `BorrowInv` says so (`Tied`), and, for this to last, that a
  loop's iterator is known to nobody else: frames of other nodes, scopes, modules
  and containers have only `Loose` pointers, and no other node has a step that
  makes such an iterator (`Allowed`).  With `Accounted`, by which the pointers
  held are alive, the container is.  Nearly every action makes no loop iterator and
  hands out none (`Turns`); the exceptions are the start of a loop
  (`IterateKeeps`) and the return from a node, whose value is never a loop's
  iterator since a loop returns none (`ReturnedLoose`).  What `items()` yields is an
  ordinary value and escapes all of this: the run `temporary_dict` is such a case,
  and so the second theorem needs `CallsNoItems`, that the code does not contain the
  name.
* `LastPresetWinsCorrect == Spec => LastPresetWins` (`Loops_proofs`), from `Accounted`,
  `IdleOwners` and `ScopeInv`.  Before `execute()` the global scope is the only one, so
  `set_value` binds there whether or not the name is bound (`SetValueBinds`).  What
  goes out of use is freed, but everything that a name or a list still owns is
  alive before and after (`Accounted`) and unchanged, so it reads as it did
  (`KeptTexts`).
* `NumbersAreNotReusedCorrect == Spec => NumbersAreNotReused` (`Interpreter_proofs`):
  `Interpreter` implements `Allocator`, with `regions <- {{p} : p \in DOMAIN heap}`
  and `spent <- 1 .. brk`.  Given `TypeOK`, every action only `Grows` the store:
  what is new has a number above the old `brk`.
* `NoCyclesCorrect == Spec => []NoCycles`, `OneModuleCorrect == Spec => []OneModule`
  and `OwnedAreLiveCorrect == Spec => []OwnedAreLive` (`Interpreter_proofs`), from
  one invariant, `Accounted /\ IdleOwners`.  Its parts: everything owned is alive
  and nothing owns itself (`Whole`); a list or dictionary under construction is
  known to the frame that fills it and to nothing else (`Built`, `Private`); the
  Module objects are those of `m_loaded_modules` (`Listed`); and before `execute()`
  nothing else owns them (`IdleOwners`), so that `set_module` frees the one that it
  replaces (a pointer that the host itself keeps, as those of `test/python.cpp` do, is
  outside the model; a replaced module that it keeps alive is one that no import
  finds).  `NoCycles` alone is not inductive: appending an element closes a cycle
  if the element knows the list, and only `Private` says that it cannot.  What
  `Collect` keeps is first shown to be the least set that holds the roots and owns
  within itself (`ReachableSpans`, by well-founded induction on the objects left
  out).  Then each action either only hands pointers on (`Moves`), enters or leaves
  an activation, or fills a container (`Fills`).  `NoCycles` is also what makes
  reachability a faithful model of `shared_ptr`'s counts: the two differ only on
  cycles.

The interpreter's cursor, on well laid out programs (`Cursor_proofs`):

* `ReadsWhatWasWrittenCorrect`, `ConsumesItsNodeCorrect`, `EndsAtTheEndCorrect`.
  `WellFormed` says three things of a program: it is one node (or nothing); along
  each node, the handler's steps and the skipper's lead from the first field
  behind the node's type to its last (`LaidOut`); and no `break` leaves a `while`,
  which is the divergence of `break_in_while` and makes `ConsumesItsNode` false.
  It says nothing of values, names, scopes or runs.  The invariant (`CursorInv`)
  is that of each waiting activation the steps left over lead, field by field,
  from the start of its child to the end of its own node (`Link`), and those of
  the innermost one from the cursor to the end of its node (`Rests`).  The hard
  part is what a jump does.  Its node ends somewhere short of its end, and rewinds
  the cursor to its start; the caller skips it from there, so its own steps lead
  to its end again.  For this the invariant has to say which callers a jump can
  reach (`Sound`): an expression cannot be left by one, nor a `while` by `break`,
  and only statement lists, branches and loops wait for what can be.
* `ReturnIsFinalCorrect`.  `FinalInv` says that once the global scope is terminated
  there is no other scope, so no loop is in an iteration (by `ScopeInv`), every
  activation but the innermost waits for a statement or a branch, and the
  innermost one has only skips left; no step that binds a name is among those.

The compiler (`Compiler_proofs`):

* `CompiledIsLaidOut`: for every syntax tree, of every size and shape, the code is
  nothing or one node, and `LaidOut`.  There is no induction principle for trees to
  cite here, so the proof has its own.  Induction over the numbers follows from the
  strict subsets of a finite interval being well founded (`Induction`), and with it
  `Encode` is shown to satisfy its equation: the functions that satisfy it on all
  trees below a height exist for every height and agree there, so that taking
  for each tree the value of such a function satisfies it everywhere.  Then, by
  induction over the height: what is written for a tree is one node, or what its
  expression's is, or refused, and it is `Entire`: no node goes beyond the end, and
  each is, up to its own end, what is written for some tree.  So it is enough to
  look at the node of one tree, in any code: each case of `parse_next` is put beside
  the steps of its node type in `Handler` and `Skipper`: the parts lie one
  behind the other (`Lies`), each step leads over one of them (`Leads`), and a
  counted step over as many as its count says (`LineUp`).  That these cuts are the
  ones that `Layout` computes follows since a step determines where it stops.  A
  refused part refuses the whole, so code that is executed has no refused
  field (`Accepted`).
* `CodeIsWellFormedCorrect`, and `CompiledProgramsAreRead`, which puts the compiler
  and the interpreter together: of every compiled program the four theorems of
  `Cursor_proofs` hold.

The others:

* `Memory_proofs`: `MemoryTypeCorrect`, `TableIsExactCorrect`,
  `ManagerOutlivesObjectsCorrect`, `ImplementsAllocatorCorrect`, from one
  invariant, `MemoryInv`.  It adds to the properties that allocations lie
  `Apart` below the position, and what each phase of the destruction leaves over
  (`Leftovers`).  `ObjectsAreSeparated` says of the abstract allocator's view of it
  that live allocations share no address: its steps are the allocator's, and
  those keep what they find separate (`FreshIsSeparate`).
* `DocConverter_proofs`: `StackIsNestingCorrect`, `ValueIsDocumentCorrect` and
  `ValidDocumentsConvertCorrect` for documents of any size, under `NamedKeys` (no
  key of a map is empty, nor is an element's), which the run `empty_key` shows to
  be needed; `ConverterTypeCorrect` without it.  The invariant joins the
  properties with the document's being well formed (`DocOK`): its containers are
  what is open, and its root is the first of them.
* `RoundTripCorrect` and `RefusesForCauseCorrect` (`DocConverter_proofs`), under
  `NamedKeys` too, about the converter followed by the writer; that composition
  is a `ConverterSpec` (`WriterImplementsConverter`), so the theorems above hold in
  it.  The first half of the invariant (`WriterInv`) is that the document is a
  `Tree`: each value has one place in one container, and whatever holds the root
  and is closed under "child of" is all of it.  The second half says of the
  writer's state, while it writes, that the activations of `value_to_bdoc` are in
  different containers, those that `nested` says have been started and not ended
  (`Walking`), and that what is written is each value that was come to, with
  the children at the places passed so far (`Partial`).  Then the next child
  of the innermost container has not been written before (it has no other place)
  and comes where the document has it: under its key, or at the end of a list
  because positions are passed in order.  When no activation is left, what is
  written is closed under "child of", hence everything.
* `Reader_proofs`: `ReaderTypeCorrect`, `ReadsTheCodeCorrect`,
  `LinesAreLinesCorrect`, `EmptyLineIsTheEndCorrect`,
  `LineNumberCountsCorrect` for every text, from the
  invariant that the lines tile the text (`Tiled`): each begins where the one
  before it ends.  For the line number, the newlines of the text read are the
  lines returned, but for a last one without a newline.

Only model-checked: agreement with Python (`Eval` and `Exec` are recursive, and a
proof would need an invariant that relates a stack of activations to an
evaluation, for every program); `NeverWrong`, which compares with the same
reference, and `AnswersFromPresets`, which is about one compiled program;
termination (liveness); `BorrowsAreLive` of programs in which `items` occurs.

## Not modelled

* Bytes of the byte code: field widths and string encoding.
* A second `execute()` on one interpreter, and presets after the first.
  `EndsAtTheEnd` says that after an answer the cursor is past the last node, so
  that there is nothing left to run.
* A host's module that is called `rand`; the functions of host modules are those
  of the tests (a constant, and a doubling).
* `FloatVal` in programs and `duplicate()`: no node reaches them.
* `handle_binary`, whose body is empty: documents have no binary data here.
* A host's own pointers to values that it has set: `SetModule` and the others
  hand the only one over.  The hosts of `test/python.cpp` keep a local one for as
  long as the interpreter lives (lines 112 and 133), so there a module that is
  replaced would be freed later than in the model; `OneModule` and its theorem
  speak of what the interpreter and the program hold.
* A host that keeps a value beyond the life of its interpreter: nothing in the
  repository does.
* The enclave build's differences (no logging, `randint` is 0).
* pypa, BitStream and the json library: not part of the repository.  The tests
  and the build keep no state of their own.

## Plan

Done: the interpreter, its compiler and the reference; the memory manager and
the allocator that it and the interpreter implement; documents; the reader; the
theorems listed above, from the syntax tree to the end of `execute()`.  Left,
in order of importance:

1. `LoopControl`, an abstract specification of structured control flow (a stack of
   loops; break, next iteration, end), with `Interpreter` shown to implement it
   where no `continue` occurs, and its step lemma as a theorem.
2. `BorrowsAreLive` as a theorem also for the programs that call `items()` on what
   a name holds and do not bind the name anew in the loop.
3. A second `execute()` and presets between the two.
