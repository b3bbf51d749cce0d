---------------------------- MODULE MCExecution ----------------------------
(***************************************************************************)
(* Small instances of Execution: three signals of one bar, two of them on  *)
(* the same symbol.                                                        *)
(***************************************************************************)
EXTENDS Execution, TLC

CONSTANTS d1, d2, d3, s1, s2

\* One signal.
OneSymbol == d1 :> s1
OneBar == d1 :> 1

\* Two strategies signal on s1 in the same bar; one of s2.
SameBarSymbol == (d1 :> s1) @@ (d2 :> s1)
SameBar == (d1 :> 1) @@ (d2 :> 1)
TwoSymbols == (d1 :> s1) @@ (d3 :> s2)
OneBarEach == (d1 :> 1) @@ (d3 :> 1)

\* Trade ids of the two symbols that never meet.
DisjointIds == [s \in Symbols |-> IF s = s1 THEN 0 ELSE 100]
=============================================================================
