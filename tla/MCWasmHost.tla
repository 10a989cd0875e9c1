----------------------------- MODULE MCWasmHost -----------------------------
(* A model-checking instance of WasmHost: pages of a few bytes. *)
EXTENDS WasmHost

Good == [matches |-> TRUE, parses |-> TRUE, imports |-> Imports, pages |-> 1, data |-> 4, start |-> TRUE]

\* One module for each check to refuse, and three that run.
MCModules ==
    {Good, [Good EXCEPT !.pages = 0], [Good EXCEPT !.pages = 2, !.imports = Imports \ {"now_ms"}],
     [Good EXCEPT !.matches = FALSE], [Good EXCEPT !.parses = FALSE], [Good EXCEPT !.imports = {"other"}],
     [Good EXCEPT !.pages = 3], [Good EXCEPT !.data = 99], [Good EXCEPT !.start = FALSE]}

MCHeaderLen == [n \in Lens |-> IF n < 2 THEN 1 ELSE 2]
MCClock == {-1, 0, 1, 2}

=============================================================================
