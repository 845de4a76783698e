----------------------------- MODULE MCEffects -----------------------------
(***************************************************************************)
(* Instances of Effects for TLC: three nodes and every program of at most  *)
(* three uses over them and two io names of the library, one that may be   *)
(* mapped and that is_parallel_safe_builtin refuses (read_file), and one   *)
(* that may not and that it does not know (query of std.sqlite); and two   *)
(* nodes over query and a foreign io node, which it does not know either.  *)
(***************************************************************************)
EXTENDS Effects

CONSTANTS read_file, query, log

MCLibrary  == {read_file, query}
MCForeign  == {}
MCBoundary == {read_file, query}
MCMappable == {read_file}
MCDenied   == {read_file}

MCUnlistedLibrary  == {query}
MCUnlistedForeign  == {log}
MCUnlistedBoundary == {query, log}
=============================================================================
