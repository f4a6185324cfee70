--------------------------- MODULE MCGlobalSetup ---------------------------
(* Global setups for TLC: a root, one within it, and one beside it. *)
EXTENDS GlobalSetup

MCRoots == {<<"a">>, <<"a", "b">>, <<"c">>}

=============================================================================
