------------------------ MODULE MCStaticCoordinator ------------------------
(* Instances of StaticCoordinator for TLC: one channel for task X, one for *)
(* Y, and nothing wired for Z.                                             *)
EXTENDS StaticCoordinator

MCTasks      == {"X", "Y", "Z"}
MCFrontPools == [u \in {"X", "Y"} |-> IF u = "X" THEN <<"F0">> ELSE <<"F1">>]
MCOnePool    == [u \in {"X"} |-> <<"F0">>]
MCBackOf     == [f \in {"F0", "F1"} |-> IF f = "F0" THEN "BX0" ELSE "BY0"]

=============================================================================
