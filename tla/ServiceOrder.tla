---------------------------- MODULE ServiceOrder ----------------------------
(***************************************************************************)
(* What the plugin manager promises the rest of the program: one plugin    *)
(* goes up or down at a time, up when everything it requires is up and     *)
(* down when nothing that is up requires it.                               *)
(***************************************************************************)

CONSTANTS Plugins, Requires

VARIABLE up

Init == up = {}

Start(p) ==
    /\ p \notin up
    /\ \A q \in Plugins : <<p, q>> \in Requires => q \in up
    /\ up' = up \cup {p}

Stop(p) ==
    /\ p \in up
    /\ \A q \in up : <<q, p>> \notin Requires
    /\ up' = up \ {p}

Next == \E p \in Plugins : Start(p) \/ Stop(p)

Spec == Init /\ [][Next]_up

\* Everything a plugin that is up requires is up.
Closed == \A p \in up, q \in Plugins : <<p, q>> \in Requires => q \in up
=============================================================================
