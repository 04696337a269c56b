------------------------------- MODULE Chipy -------------------------------
(***************************************************************************)
(* The compiler and the interpreter together: the programs that the        *)
(* interpreter runs are what Compiler makes of syntax trees.               *)
(***************************************************************************)
EXTENDS Interpreter, Compiler, Layout

CONSTANT Modules   \* the syntax trees of the programs, a sequence

ASSUME ModulesAreTrees == Modules \in Seq(Trees)

CompileAll(trees) ==
  LET encode == Encode IN [i \in DOMAIN trees |-> Written(encode[trees[i]])]

ASSUME ProgramsAreCompiled == Programs = CompileAll(Modules)

\* What Compiler.cpp writes is laid out the way that Interpreter.cpp reads it:
\* each node holds, on every path through its cases of execute_next and of
\* skip_next, the fields and the children that the case expects.
CodeIsWellFormed == outcome = "idle" => WellFormed(code)

=============================================================================
