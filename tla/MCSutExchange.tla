--------------------------- MODULE MCSutExchange ---------------------------
(* SutExchange with one server and interchangeable clients as model values.  *)
EXTENDS SutExchange, TLC
CONSTANTS server, c1, c2

Symmetry == Permutations(Clients)
=============================================================================
