-------------------------------- MODULE Maps --------------------------------
(***************************************************************************)
(* Finite maps as functions: the dicts and JSON objects of the program.    *)
(***************************************************************************)

CONSTANT None  \* None of the program, null of its files

\* g, overridden and extended by f.
Over(f, g) == [x \in DOMAIN f \cup DOMAIN g |-> IF x \in DOMAIN f THEN f[x] ELSE g[x]]

\* f with the value v at x.
With(f, x, v) == [y \in DOMAIN f \cup {x} |-> IF y = x THEN v ELSE f[y]]
=============================================================================
