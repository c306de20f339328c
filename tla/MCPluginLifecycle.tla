-------------------------- MODULE MCPluginLifecycle --------------------------
(***************************************************************************)
(* Small instances of PluginLifecycle.  Plugin b requires a.  In the       *)
(* larger instance a takes c as an option and c takes b, a cycle when all  *)
(* three are loaded, and c asks for a newer b than there is.               *)
(***************************************************************************)
EXTENDS PluginLifecycle

CONSTANTS a, b, c, t1, t2

TwoPlugins == {a, b}
ThreePlugins == {a, b, c}
Pair == {<<b, a>>}
Options == {<<a, c>>, <<c, b>>}
OldB == {<<c, b>>}
NoPairs == {}

OneTask == {t1}
TwoTasks == {t1, t2}

AllCalls == Operations
Activations == {"load", "activate", "deactivate"}
Shutdowns == {"load", "activate", "shutdown"}

NothingFails == {}
InitializeFails == {"initialize"}
BothFail == {"initialize", "cleanup"}
=============================================================================
