---------------------------- MODULE MCDocWriter ----------------------------
(* DocWriter with small constants: two keys, one value of each kind.       *)
EXTENDS DocWriter

MCIntMin == -4
MCBefore(x, y) == (x = "" /\ y # "") \/ (x = "a" /\ y = "b")

\* Values has more constants than documents need.
MCConcat(x, y)  == x
MCToStr(i)      == "0"
MCNumeral       == [x \in {"0"} |-> 0]
MCRandInt(a, b) == a

=============================================================================
