------------------------- MODULE MCCommandPipeline -------------------------
(* Instances of CommandPipeline for TLC. *)
EXTENDS CommandPipeline, TLC

CONSTANTS c1, c2

AllWork == [c \in Commands |-> "work"]
WorkThenRestart == (c1 :> "work") @@ (c2 :> "restart")
WorkThenShutdown == (c1 :> "work") @@ (c2 :> "shutdown")
=============================================================================
