--------------------------- MODULE MemoryManager ---------------------------
(***************************************************************************)
(* The memory manager of an Interpreter, from the interpreter's            *)
(* construction to the end of its destruction: the positions it hands out, *)
(* its table of allocations, and who holds the objects in them.            *)
(*                                                                         *)
(* An object is known by its address, counted from the start of m_buffer.  *)
(* An element of a container counts as held by whoever holds the container.*)
(* An object lives while a shared_ptr to it does; the last one deletes it, *)
(* and operator delete asks the object for its memory manager.  That may   *)
(* be too late: the host can hold objects for longer than the Interpreter  *)
(* lives, whose member m_mem is.                                           *)
(***************************************************************************)
EXTENDS Integers, FiniteSets

CONSTANTS
  PageSize,     \* the size of m_buffer
  Sizes,        \* the sizes of the classes of objects
  ScopeSize,    \* ... and of the global scope
  MaxPosition   \* bound: no object is made beyond this position

ASSUME SizesArePositive == Sizes \subseteq Nat \ {0} /\ ScopeSize \in Nat \ {0}

VARIABLES
  m_buffer_pos,   \* where the next object goes
  m_allocs,       \* the allocations: address |-> size
  held,           \* the live objects: address |-> who holds a shared_ptr to it
  phase           \* of the interpreter's life, or "undefined"

vars == <<m_buffer_pos, m_allocs, held, phase>>

(***************************************************************************)
(* Who holds objects: the global scope, m_loaded_modules, and the locals   *)
(* of the host.  Phases: "alive", then ~Interpreter, which deletes the     *)
(* global scope in its body and then destroys the members, the one         *)
(* declared last first, until the manager is gone.                         *)
(***************************************************************************)
Holders == { "scope", "modules", "host" }
Phases  == { "alive", "unscoped", "unloaded", "gone", "undefined" }

TheScope == 0   \* the address of the global scope, made by the constructor

Without(f, S) == [a \in DOMAIN f \ S |-> f[a]]

-----------------------------------------------------------------------------
(* MemoryManager::malloc and free, as called by Object's new and delete.   *)

\* (StayPut, a mutant of Moved, forgets to advance m_buffer_pos.)
StayPut(size) == m_buffer_pos
Moved(size)   == m_buffer_pos + size

\* malloc; emplace would keep an entry that is there.
Malloc(size) ==
  /\ m_buffer_pos' = Moved(size)
  /\ m_allocs' = [a \in DOMAIN m_allocs \cup {m_buffer_pos} |->
                    IF a \in DOMAIN m_allocs THEN m_allocs[a] ELSE size]

\* Mutant of Free: the entry stays in the table.
Forget(addresses, next) ==
  IF addresses \subseteq DOMAIN m_allocs /\ phase # "gone"
  THEN m_allocs' = m_allocs /\ phase' = next
  ELSE m_allocs' = m_allocs /\ phase' = "undefined"

\* free, for each of the addresses: erase(end()) is undefined, and so is
\* any use of the manager once it is gone.
Free(addresses, next) ==
  IF addresses \subseteq DOMAIN m_allocs /\ phase # "gone"
  THEN m_allocs' = Without(m_allocs, addresses) /\ phase' = next
  ELSE m_allocs' = m_allocs /\ phase' = "undefined"

-----------------------------------------------------------------------------
(* Pointers. *)

\* The objects that only h holds.
OnlyBy(h) == { a \in DOMAIN held : held[a] = {h} }

\* new (mem) T(mem, ...) in a shared_ptr
Create(size, h) ==
  /\ phase = "alive" /\ m_buffer_pos + size <= MaxPosition
  /\ Malloc(size)
  /\ held' = [a \in DOMAIN held \cup {m_buffer_pos} |->
                IF a = m_buffer_pos THEN {h} ELSE held[a]]
  /\ UNCHANGED phase

\* A copy of a shared_ptr: set_value, set_module, or a value the host keeps.
Share(a, h) ==
  /\ phase = "alive"
  /\ held' = [held EXCEPT ![a] = @ \cup {h}]
  /\ UNCHANGED <<m_buffer_pos, m_allocs, phase>>

\* Mutant of Release: the last shared_ptr leaves the object behind.
Abandon(a, h) ==
  /\ phase = "alive" /\ h \in held[a]
  /\ held' = [held EXCEPT ![a] = @ \ {h}]
  /\ UNCHANGED <<m_buffer_pos, m_allocs, phase>>

\* A name or a module is overwritten, or a local of the host goes away, also
\* after the interpreter's end.
Release(a, h) ==
  /\ phase = "alive" \/ (phase = "gone" /\ h = "host")
  /\ h \in held[a]
  /\ IF held[a] = {h}
     THEN held' = Without(held, {a}) /\ Free({a}, phase)
     ELSE held' = [held EXCEPT ![a] = @ \ {h}] /\ UNCHANGED <<m_allocs, phase>>
  /\ UNCHANGED m_buffer_pos

-----------------------------------------------------------------------------
(* The destruction of the Interpreter. *)

\* All that h holds is released, the scope itself freed, and the rest begins.
ReleaseAll(h, and, next) ==
  /\ held' = [a \in DOMAIN held \ OnlyBy(h) |-> held[a] \ {h}]
  /\ Free(OnlyBy(h) \cup and, next)
  /\ UNCHANGED m_buffer_pos

\* The hosts of the tests declare their pointers after the interpreter, so
\* these are gone when it is destroyed.
HostLetGo == \A a \in DOMAIN held : "host" \notin held[a]

\* ~Interpreter: delete m_global_scope
DeleteScope ==
  /\ phase = "alive" /\ HostLetGo
  /\ ReleaseAll("scope", {TheScope}, "unscoped")

\* ~unordered_map of m_loaded_modules, declared after m_mem
ReleaseModules == phase = "unscoped" /\ ReleaseAll("modules", {}, "unloaded")

\* Mutant of DestroyManager: m_mem is declared after m_loaded_modules.
DestroyManagerFirst ==
  /\ phase = "unscoped"
  /\ phase' = "gone"
  /\ UNCHANGED <<m_buffer_pos, m_allocs, held>>

\* ~MemoryManager: the table goes away (and the buffer, a plain pointer, is
\* never given back to the system).
DestroyManager ==
  /\ phase = "unloaded"
  /\ phase' = "gone"
  /\ UNCHANGED <<m_buffer_pos, m_allocs, held>>

-----------------------------------------------------------------------------
Init ==
  /\ m_buffer_pos = ScopeSize
  /\ m_allocs = [a \in {TheScope} |-> ScopeSize]
  /\ held = [a \in {} |-> {}]
  /\ phase = "alive"

Next ==
  \/ \E size \in Sizes, h \in Holders : Create(size, h)
  \/ \E a \in DOMAIN held, h \in Holders : Share(a, h) \/ Release(a, h)
  \/ DeleteScope \/ ReleaseModules \/ DestroyManager

Spec == Init /\ [][Next]_vars

-----------------------------------------------------------------------------
(* Properties. *)

Region(a) == a .. a + m_allocs[a] - 1

\* The types of the manager's state: a table of positive sizes, and objects
\* that somebody holds.
TypeOK ==
  /\ m_buffer_pos \in Nat
  /\ DOMAIN m_allocs \subseteq Nat
  /\ \A a \in DOMAIN m_allocs : m_allocs[a] \in Nat \ {0}
  /\ \A a \in DOMAIN held : held[a] \in SUBSET Holders /\ held[a] # {}
  /\ phase \in Phases

\* While the manager lives, its table lists exactly the live objects (and
\* the global scope until it is deleted): free() finds what it looks for,
\* and nothing is forgotten.
TableIsExact ==
  phase \in {"alive", "unscoped", "unloaded"} =>
    DOMAIN m_allocs = DOMAIN held \cup IF phase = "alive" THEN {TheScope} ELSE {}

\* No object outlives the manager that its operator delete will ask: the
\* interpreter's members are destroyed in an order that leaves none behind.
ManagerOutlivesObjects ==
  phase # "undefined" /\ (phase \in {"unloaded", "gone"} => DOMAIN held = {})

\* Live allocations are disjoint, and addresses are not used again.
Memory == INSTANCE Allocator WITH
  regions <- { Region(a) : a \in DOMAIN m_allocs \ {TheScope} },
  spent   <- 0 .. m_buffer_pos - 1

ImplementsAllocator == Memory!Spec

\* Nothing is written outside the buffer.  (malloc's commented-out lines
\* would have grown it.)
InsideBuffer == \A a \in DOMAIN m_allocs : a + m_allocs[a] <= PageSize

=============================================================================
