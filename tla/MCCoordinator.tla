--------------------------- MODULE MCCoordinator ---------------------------
(* Instances of Coordinator for TLC: two front segments, a pool X, a pool  *)
(* Y, and a task Z the planner built nothing for.                          *)
EXTENDS CoordinatorPromise

MCTasks      == {"X", "Y", "Z"}
MCTwoTasks   == {"X", "Y"}
MCFrontQueue == <<"F0", "F1">>
MCOneFront   == <<"F0">>
MCBackQueue  == [u \in MCTasks |-> CASE u = "X" -> <<"BX0">>
                                     [] u = "Y" -> <<"BY0">>
                                     [] OTHER   -> <<>>]
MCPlainQueue == [u \in MCTwoTasks |-> IF u = "X" THEN <<"BX0">> ELSE <<"BY0">>]

MCOneTask    == {"X"}
MCPairQueue  == [u \in MCOneTask |-> <<"BX0", "BX1">>]

=============================================================================
