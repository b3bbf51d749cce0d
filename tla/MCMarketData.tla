---------------------------- MODULE MCMarketData ----------------------------
(* MarketData for TLC: the windows asked for. *)
EXTENDS MarketData

\* The runtime's window, a start alone, and a start with an end.
MCWindows == {Unbounded, [start |-> 2, end |-> None], [start |-> 1, end |-> 3]}

\* The runtime asks for no window.
MCRuntime == {Unbounded}
=============================================================================
