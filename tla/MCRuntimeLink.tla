--------------------------- MODULE MCRuntimeLink ---------------------------
(* The hold on the runtime process: two callers, three processes. *)
EXTENDS RuntimeLink

CONSTANTS c1, c2

MCCallers == {c1, c2}
============================================================================
