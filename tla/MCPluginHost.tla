---------------------------- MODULE MCPluginHost ----------------------------
(* A small instance of PluginHost: two plugins whose executables share a type, *)
(* declare a built-in one after another type, or declare none.                 *)
EXTENDS PluginHost, TLC

MCBinaries == {<<"t", "u">>, <<"t", "builtin">>, <<>>}

MCSymmetry == Permutations(Plugins) \cup Permutations(Workers) \cup Permutations(Procs)
=============================================================================
