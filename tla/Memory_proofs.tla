--------------------------- MODULE Memory_proofs ---------------------------
(***************************************************************************)
(* What holds of the memory manager for all sizes and any number of        *)
(* objects.                                                                *)
(***************************************************************************)
EXTENDS MemoryManager, TLAPS

(***************************************************************************)
(* The invariant: every allocation ends at or before the next one's start  *)
(* or the position, and the table is exact, in each phase.                 *)
(***************************************************************************)
Apart ==
  \A a \in DOMAIN m_allocs :
    /\ a + m_allocs[a] <= m_buffer_pos
    /\ \A b \in DOMAIN m_allocs : a < b => a + m_allocs[a] <= b

\* What is left in each phase.
Leftovers ==
  /\ phase = "alive" => TheScope \notin DOMAIN held
  /\ phase \notin {"alive", "gone"} => \A a \in DOMAIN held : held[a] = {"modules"}
  /\ phase = "gone" => DOMAIN held = {}

MemoryInv == TypeOK /\ Apart /\ TableIsExact /\ ManagerOutlivesObjects /\ Leftovers

-----------------------------------------------------------------------------
(* malloc and free. *)

\* malloc keeps the table well formed, and its allocations apart.
LEMMA MallocKeeps ==
  ASSUME NEW size \in Nat \ {0}, TypeOK, Apart, Malloc(size)
  PROVE  /\ m_buffer_pos' \in Nat
         /\ DOMAIN m_allocs' = DOMAIN m_allocs \cup {m_buffer_pos}
         /\ m_buffer_pos \notin DOMAIN m_allocs
         /\ m_allocs'[m_buffer_pos] = size
         /\ \A a \in DOMAIN m_allocs : m_allocs'[a] = m_allocs[a]
         /\ \A a \in DOMAIN m_allocs' : m_allocs'[a] \in Nat \ {0}
         /\ Apart'
<1>1. m_buffer_pos' = m_buffer_pos + size /\ m_buffer_pos \in Nat
  BY DEF Malloc, Moved, TypeOK
<1>2. DOMAIN m_allocs' = DOMAIN m_allocs \cup {m_buffer_pos}
  BY DEF Malloc
<1>3. \A a \in DOMAIN m_allocs :
        a \in Nat /\ m_allocs[a] \in Nat \ {0} /\ a + m_allocs[a] <= m_buffer_pos
  BY DEF TypeOK, Apart
<1>4. m_buffer_pos \notin DOMAIN m_allocs
  BY <1>1, <1>3
<1>5. m_allocs'[m_buffer_pos] = size
  BY <1>4 DEF Malloc
<1>6. \A a \in DOMAIN m_allocs : m_allocs'[a] = m_allocs[a]
  BY <1>4 DEF Malloc
<1>7. Apart'
  <2> SUFFICES ASSUME NEW a \in DOMAIN m_allocs', NEW b \in DOMAIN m_allocs'
               PROVE  a + m_allocs'[a] <= m_buffer_pos' /\ (a < b => a + m_allocs'[a] <= b)
    BY DEF Apart
  <2>1. CASE a = m_buffer_pos
    <3>1. ~ (a < b)
      BY <2>1, <1>1, <1>2, <1>3
    <3> QED  BY <2>1, <3>1, <1>1, <1>5
  <2>2. CASE a \in DOMAIN m_allocs /\ b = m_buffer_pos
    BY <2>2, <1>1, <1>3, <1>6
  <2>3. CASE a \in DOMAIN m_allocs /\ b \in DOMAIN m_allocs
    BY <2>3, <1>1, <1>3, <1>6 DEF Apart
  <2> QED  BY <2>1, <2>2, <2>3, <1>2
<1> QED
  BY <1>1, <1>2, <1>3, <1>4, <1>5, <1>6, <1>7

\* free takes exactly the given entries away when they are there and the
\* manager is.
LEMMA FreeKeeps ==
  ASSUME NEW S, NEW next, TypeOK, Apart, S \subseteq DOMAIN m_allocs, phase # "gone",
         Free(S, next), m_buffer_pos' = m_buffer_pos
  PROVE  /\ DOMAIN m_allocs' = DOMAIN m_allocs \ S
         /\ \A a \in DOMAIN m_allocs' : m_allocs'[a] = m_allocs[a]
         /\ \A a \in DOMAIN m_allocs' : m_allocs'[a] \in Nat \ {0}
         /\ phase' = next
         /\ Apart'
<1>1. m_allocs' = [a \in DOMAIN m_allocs \ S |-> m_allocs[a]] /\ phase' = next
  BY DEF Free, Without
<1>2. \A a \in DOMAIN m_allocs : m_allocs[a] \in Nat \ {0}
  BY DEF TypeOK
<1> QED
  BY <1>1, <1>2 DEF Apart

-----------------------------------------------------------------------------
(* The steps. *)

USE SizesArePositive

LEMMA InitInv == Init => MemoryInv
BY DEF Init, MemoryInv, TypeOK, Apart, TableIsExact, ManagerOutlivesObjects,
       Leftovers, TheScope, Holders, Phases

LEMMA CreateKeeps ==
  ASSUME MemoryInv, NEW size \in Sizes, NEW h \in Holders, Create(size, h)
  PROVE  MemoryInv'
<1>1. size \in Nat \ {0} /\ TypeOK /\ Apart /\ Malloc(size) /\ phase = "alive" /\ phase' = phase
  BY DEF Create, MemoryInv
<1>2. /\ m_buffer_pos' \in Nat
      /\ DOMAIN m_allocs' = DOMAIN m_allocs \cup {m_buffer_pos}
      /\ m_buffer_pos \notin DOMAIN m_allocs
      /\ \A a \in DOMAIN m_allocs' : m_allocs'[a] \in Nat \ {0}
      /\ Apart'
  BY <1>1, MallocKeeps
<1>3. DOMAIN m_allocs = DOMAIN held \cup {TheScope}
  BY <1>1 DEF MemoryInv, TableIsExact
<1>4. /\ DOMAIN held' = DOMAIN held \cup {m_buffer_pos}
      /\ held'[m_buffer_pos] = {h}
      /\ \A a \in DOMAIN held : held'[a] = held[a]
  BY <1>2, <1>3 DEF Create
<1>5. TypeOK'
  BY <1>1, <1>2, <1>4 DEF TypeOK, MemoryInv
<1>6. TableIsExact'
  BY <1>1, <1>2, <1>3, <1>4 DEF TableIsExact
<1>7. ManagerOutlivesObjects' /\ Leftovers'
  <2>1. TheScope \notin DOMAIN held'
    BY <1>1, <1>2, <1>3, <1>4 DEF MemoryInv, Leftovers
  <2> QED  BY <1>1, <2>1 DEF ManagerOutlivesObjects, Leftovers
<1> QED
  BY <1>2, <1>5, <1>6, <1>7 DEF MemoryInv

LEMMA ShareKeeps ==
  ASSUME MemoryInv, NEW a \in DOMAIN held, NEW h \in Holders, Share(a, h)
  PROVE  MemoryInv'
<1>1. /\ DOMAIN held' = DOMAIN held
      /\ \A b \in DOMAIN held : held'[b] = IF b = a THEN held[a] \cup {h} ELSE held[b]
      /\ phase = "alive" /\ UNCHANGED <<m_buffer_pos, m_allocs, phase>>
  BY DEF Share
<1> QED
  BY <1>1 DEF MemoryInv, TypeOK, Apart, TableIsExact, ManagerOutlivesObjects, Leftovers

LEMMA ReleaseKeeps ==
  ASSUME MemoryInv, NEW a \in DOMAIN held, NEW h \in Holders, Release(a, h)
  PROVE  MemoryInv'
<1>1. phase = "alive" /\ m_buffer_pos' = m_buffer_pos
  BY DEF Release, MemoryInv, Leftovers
<1>2. TypeOK /\ Apart /\ TheScope \notin DOMAIN held /\ DOMAIN m_allocs = DOMAIN held \cup {TheScope}
  BY <1>1 DEF MemoryInv, Leftovers, TableIsExact
<1>3. CASE held[a] = {h}
  <2>1. held' = [b \in DOMAIN held \ {a} |-> held[b]] /\ Free({a}, phase)
    BY <1>3 DEF Release, Without
  <2>2. /\ DOMAIN m_allocs' = DOMAIN m_allocs \ {a}
        /\ \A b \in DOMAIN m_allocs' : m_allocs'[b] \in Nat \ {0}
        /\ phase' = phase /\ Apart'
    BY <1>1, <1>2, <2>1, FreeKeeps
  <2> QED
    BY <1>1, <1>2, <2>1, <2>2
       DEF MemoryInv, TypeOK, TableIsExact, ManagerOutlivesObjects, Leftovers
<1>4. CASE held[a] # {h}
  <2>1. /\ DOMAIN held' = DOMAIN held
        /\ \A b \in DOMAIN held : held'[b] = IF b = a THEN held[a] \ {h} ELSE held[b]
        /\ UNCHANGED <<m_buffer_pos, m_allocs, phase>>
    BY <1>1, <1>4 DEF Release
  <2>2. h \in held[a] /\ held[a] \ {h} # {}
    BY <1>4 DEF Release
  <2> QED
    BY <1>1, <2>1, <2>2
       DEF MemoryInv, TypeOK, Apart, TableIsExact, ManagerOutlivesObjects, Leftovers
<1> QED
  BY <1>3, <1>4

\* In the destructor's body the host holds nothing, so what the scope leaves
\* behind belongs to modules.
LEMMA DeleteScopeKeeps ==
  ASSUME MemoryInv, DeleteScope
  PROVE  MemoryInv'
<1> DEFINE S == OnlyBy("scope") \cup {TheScope}
<1>1. /\ phase = "alive" /\ m_buffer_pos' = m_buffer_pos
      /\ \A a \in DOMAIN held : "host" \notin held[a]
      /\ held' = [a \in DOMAIN held \ OnlyBy("scope") |-> held[a] \ {"scope"}]
      /\ Free(S, "unscoped")
  BY DEF DeleteScope, ReleaseAll, HostLetGo
<1>2. TypeOK /\ Apart /\ TheScope \notin DOMAIN held /\ DOMAIN m_allocs = DOMAIN held \cup {TheScope}
  BY <1>1 DEF MemoryInv, Leftovers, TableIsExact
<1>3. S \subseteq DOMAIN m_allocs
  BY <1>2 DEF OnlyBy
<1>4. /\ DOMAIN m_allocs' = DOMAIN m_allocs \ S
      /\ \A b \in DOMAIN m_allocs' : m_allocs'[b] \in Nat \ {0}
      /\ phase' = "unscoped" /\ Apart'
  BY <1>1, <1>2, <1>3, FreeKeeps
<1>5. \A a \in DOMAIN held' : held'[a] = {"modules"}
  <2> TAKE a \in DOMAIN held'
  <2>1. a \in DOMAIN held /\ held[a] # {"scope"} /\ held'[a] = held[a] \ {"scope"}
    BY <1>1 DEF OnlyBy
  <2>2. held[a] \subseteq {"scope", "modules"} /\ held[a] # {}
    BY <1>1, <1>2, <2>1 DEF TypeOK, Holders
  <2> QED  BY <2>1, <2>2
<1>6. DOMAIN m_allocs' = DOMAIN held'
  BY <1>1, <1>2, <1>4
<1> QED
  BY <1>1, <1>2, <1>4, <1>5, <1>6
     DEF MemoryInv, TypeOK, TableIsExact, ManagerOutlivesObjects, Leftovers, Holders, Phases

LEMMA ReleaseModulesKeeps ==
  ASSUME MemoryInv, ReleaseModules
  PROVE  MemoryInv'
<1>1. /\ phase = "unscoped" /\ m_buffer_pos' = m_buffer_pos
      /\ held' = [a \in DOMAIN held \ OnlyBy("modules") |-> held[a] \ {"modules"}]
      /\ Free(OnlyBy("modules") \cup {}, "unloaded")
  BY DEF ReleaseModules, ReleaseAll
<1>2. TypeOK /\ Apart /\ DOMAIN m_allocs = DOMAIN held
  BY <1>1 DEF MemoryInv, TableIsExact
<1>3. OnlyBy("modules") = DOMAIN held
  BY <1>1 DEF MemoryInv, Leftovers, OnlyBy
<1>4. DOMAIN held' = {}
  BY <1>1, <1>3
<1>5. Free(DOMAIN m_allocs, "unloaded") /\ phase # "gone"
  <2>1. OnlyBy("modules") \cup {} = DOMAIN m_allocs
    BY <1>2, <1>3
  <2> QED  BY <1>1, <2>1
<1>6. DOMAIN m_allocs' = DOMAIN m_allocs \ DOMAIN m_allocs /\ phase' = "unloaded" /\ Apart'
  BY <1>1, <1>2, <1>5, FreeKeeps
<1> QED
  BY <1>1, <1>2, <1>4, <1>6
     DEF MemoryInv, TypeOK, TableIsExact, ManagerOutlivesObjects, Leftovers, Phases

LEMMA DestroyManagerKeeps ==
  ASSUME MemoryInv, DestroyManager
  PROVE  MemoryInv'
BY DEF DestroyManager, MemoryInv, TypeOK, Apart, TableIsExact, ManagerOutlivesObjects,
       Leftovers, Phases

LEMMA StepKeeps == MemoryInv /\ [Next]_vars => MemoryInv'
<1> SUFFICES ASSUME MemoryInv, [Next]_vars PROVE MemoryInv'
  OBVIOUS
<1>1. CASE UNCHANGED vars
  BY <1>1 DEF vars, MemoryInv, TypeOK, Apart, TableIsExact, ManagerOutlivesObjects, Leftovers
<1>2. CASE Next
  BY <1>2, CreateKeeps, ShareKeeps, ReleaseKeeps, DeleteScopeKeeps, ReleaseModulesKeeps,
     DestroyManagerKeeps DEF Next
<1> QED
  BY <1>1, <1>2

\* Every state of the memory manager satisfies the invariant.
LEMMA InvCorrect == Spec => []MemoryInv
BY InitInv, StepKeeps, PTL DEF Spec

-----------------------------------------------------------------------------
(* The results. *)

\* The manager's types, for all sizes.
THEOREM MemoryTypeCorrect == Spec => []TypeOK
<1>1. MemoryInv => TypeOK
  BY DEF MemoryInv
<1> QED
  BY <1>1, InvCorrect, PTL

\* The table lists exactly the live objects, so that free() never erases end().
THEOREM TableIsExactCorrect == Spec => []TableIsExact
<1>1. MemoryInv => TableIsExact
  BY DEF MemoryInv
<1> QED
  BY <1>1, InvCorrect, PTL

\* No object is deleted after the manager it would ask.
THEOREM ManagerOutlivesObjectsCorrect == Spec => []ManagerOutlivesObjects
<1>1. MemoryInv => ManagerOutlivesObjects
  BY DEF MemoryInv
<1> QED
  BY <1>1, InvCorrect, PTL

-----------------------------------------------------------------------------
(* The memory manager implements the abstract allocator. *)

LEMMA RegionOf ==
  ASSUME TypeOK, Apart, NEW a \in DOMAIN m_allocs
  PROVE  Region(a) # {} /\ Region(a) \subseteq 0 .. m_buffer_pos - 1
<1>1. a \in Nat /\ m_allocs[a] \in Nat \ {0} /\ a + m_allocs[a] <= m_buffer_pos /\ m_buffer_pos \in Nat
  BY DEF TypeOK, Apart
<1>2. a \in Region(a)
  BY <1>1 DEF Region
<1> QED
  BY <1>1, <1>2 DEF Region

\* Only malloc makes a region, and it lies beyond everything before it.
LEMMA RefinesStep ==
  ASSUME MemoryInv, MemoryInv', [Next]_vars
  PROVE  [Memory!Next]_<<{ Region(a) : a \in DOMAIN m_allocs \ {TheScope} }, 0 .. m_buffer_pos - 1>>
<1> DEFINE R == { Region(a) : a \in DOMAIN m_allocs \ {TheScope} }
           S == 0 .. m_buffer_pos - 1
<1>1. ASSUME m_buffer_pos' = m_buffer_pos, DOMAIN m_allocs' \subseteq DOMAIN m_allocs,
             \A a \in DOMAIN m_allocs' : m_allocs'[a] = m_allocs[a]
      PROVE  Memory!Next
  <2>1. S' = S
    BY <1>1
  <2>2. R' \subseteq R
    BY <1>1 DEF Region
  <2> QED  BY <2>1, <2>2 DEF Memory!Next, Memory!Disjoint
<1>2. ASSUME NEW size \in Sizes, Malloc(size)
      PROVE  Memory!Next
  <2>1. /\ TypeOK /\ Apart /\ TypeOK' /\ Apart'
        /\ size \in Nat \ {0}
        /\ m_buffer_pos \in Nat /\ m_buffer_pos' = m_buffer_pos + size
    BY <1>2 DEF MemoryInv, TypeOK, Malloc, Moved
  <2>2. /\ DOMAIN m_allocs' = DOMAIN m_allocs \cup {m_buffer_pos}
        /\ m_buffer_pos \notin DOMAIN m_allocs
        /\ m_allocs'[m_buffer_pos] = size
        /\ \A a \in DOMAIN m_allocs : m_allocs'[a] = m_allocs[a]
    BY <1>2, <2>1, MallocKeeps
  <2> DEFINE new == m_buffer_pos .. m_buffer_pos + size - 1
  <2>3. R' \subseteq R \cup {new}
    BY <2>2 DEF Region
  <2>4. S \subseteq S' /\ new # {} /\ new \subseteq S' \ S
    <3>1. m_buffer_pos \in new
      BY <2>1
    <3> QED  BY <3>1, <2>1
  <2> HIDE DEF new
  <2> QED  BY <2>3, <2>4 DEF Memory!Next, Memory!Disjoint
<1>3. ASSUME NEW T, NEW next, T \subseteq DOMAIN m_allocs, phase # "gone",
             Free(T, next), m_buffer_pos' = m_buffer_pos
      PROVE  Memory!Next
  BY <1>1, <1>3, FreeKeeps DEF MemoryInv
<1>4. ASSUME m_buffer_pos' = m_buffer_pos, m_allocs' = m_allocs
      PROVE  Memory!Next
  BY <1>1, <1>4
<1>5. ASSUME NEW size \in Sizes, NEW h \in Holders, Create(size, h)
      PROVE  Memory!Next
  BY <1>2, <1>5 DEF Create
<1>6. ASSUME NEW a \in DOMAIN held, NEW h \in Holders, Release(a, h)
      PROVE  Memory!Next
  <2>1. phase = "alive" /\ m_buffer_pos' = m_buffer_pos /\ a \in DOMAIN m_allocs
    BY <1>6 DEF Release, MemoryInv, Leftovers, TableIsExact
  <2>2. Free({a}, phase) \/ m_allocs' = m_allocs
    BY <1>6 DEF Release
  <2>3. CASE Free({a}, phase)
    <3>1. {a} \subseteq DOMAIN m_allocs /\ phase # "gone"
      BY <2>1
    <3> QED  BY <2>1, <2>3, <3>1, <1>3
  <2>4. CASE m_allocs' = m_allocs
    BY <2>1, <2>4, <1>4
  <2> QED  BY <2>2, <2>3, <2>4
<1>7. CASE DeleteScope
  <2>1. /\ phase = "alive" /\ m_buffer_pos' = m_buffer_pos
        /\ Free(OnlyBy("scope") \cup {TheScope}, "unscoped")
    BY <1>7 DEF DeleteScope, ReleaseAll
  <2>2. OnlyBy("scope") \cup {TheScope} \subseteq DOMAIN m_allocs
    BY <2>1 DEF OnlyBy, MemoryInv, TableIsExact
  <2> QED  BY <2>1, <2>2, <1>3
<1>8. CASE ReleaseModules
  <2>1. /\ phase = "unscoped" /\ m_buffer_pos' = m_buffer_pos
        /\ Free(OnlyBy("modules") \cup {}, "unloaded")
    BY <1>8 DEF ReleaseModules, ReleaseAll
  <2>2. OnlyBy("modules") \cup {} \subseteq DOMAIN m_allocs
    BY <2>1 DEF OnlyBy, MemoryInv, TableIsExact
  <2> QED  BY <2>1, <2>2, <1>3
<1>9. CASE DestroyManager \/ UNCHANGED vars \/ \E a \in DOMAIN held, h \in Holders : Share(a, h)
  BY <1>9, <1>4 DEF DestroyManager, vars, Share
<1> QED
  BY <1>5, <1>6, <1>7, <1>8, <1>9 DEF Next

\* Every behaviour of malloc, free and the objects' lives is one of the
\* abstract allocator: each new object gets addresses that no object, live
\* or dead, ever had.
THEOREM ImplementsAllocatorCorrect == Spec => ImplementsAllocator
<1>1. Init => Memory!Init
  BY DEF Init, Memory!Init, TheScope
<1>2. MemoryInv /\ MemoryInv' /\ [Next]_vars
        => [Memory!Next]_<<{ Region(a) : a \in DOMAIN m_allocs \ {TheScope} }, 0 .. m_buffer_pos - 1>>
  BY RefinesStep
<1> QED
  BY <1>1, <1>2, InvCorrect, PTL DEF Spec, ImplementsAllocator, Memory!Spec

\* Fresh memory is all it takes to keep live allocations apart.
LEMMA FreshIsSeparate ==
  ASSUME NEW R, NEW S, NEW Q, NEW T, Memory!Disjoint(R), \A r \in R : r \subseteq S, S \subseteq T,
         \A r \in Q \ R : r # {} /\ r \subseteq T \ S, Memory!Disjoint(Q \ R)
  PROVE  Memory!Disjoint(Q) /\ \A r \in Q : r \subseteq T
BY DEF Memory!Disjoint

\* So no two live objects overlap in the buffer, and none lies beyond the
\* position up to which malloc has handed out its bytes.
THEOREM ObjectsAreSeparated == Spec => []Memory!Separated
<1> DEFINE R == { Region(a) : a \in DOMAIN m_allocs \ {TheScope} }
           S == 0 .. m_buffer_pos - 1
<1>1. Memory!Init => Memory!Separated
  BY DEF Memory!Init, Memory!Separated, Memory!Disjoint
<1>2. Memory!Separated /\ [Memory!Next]_<<R, S>> => Memory!Separated'
  <2> SUFFICES ASSUME Memory!Separated, [Memory!Next]_<<R, S>>
               PROVE  Memory!Separated'
    OBVIOUS
  <2>1. Memory!Disjoint(R) /\ \A r \in R : r \subseteq S
    BY DEF Memory!Separated
  <2>2. CASE Memory!Next
    <3>1. /\ S \subseteq S' /\ \A r \in R' \ R : r # {} /\ r \subseteq S' \ S
          /\ Memory!Disjoint(R' \ R)
      BY <2>2 DEF Memory!Next
    <3> HIDE DEF R, S
    <3>2. Memory!Disjoint(R') /\ \A r \in R' : r \subseteq S'
      BY <2>1, <3>1, FreshIsSeparate
    <3> QED
      BY <3>2 DEF Memory!Separated, R, S
  <2>3. CASE R' = R /\ S' = S
    <3>1. Memory!Disjoint(R') /\ \A r \in R' : r \subseteq S'
      BY <2>1, <2>3
    <3> QED
      BY <3>1 DEF Memory!Separated
  <2> QED
    BY <2>2, <2>3
<1>3. Memory!Spec => []Memory!Separated
  BY <1>1, <1>2, PTL DEF Memory!Spec
<1> QED
  BY <1>3, ImplementsAllocatorCorrect, PTL DEF ImplementsAllocator

=============================================================================
