--------------------------- MODULE MCModelGateway ---------------------------
(***************************************************************************)
(* A small instance of ModelGateway: two connections, whose handlers race  *)
(* with each other, with their client and with the stage's owner.  For     *)
(* safety each may carry anything (a plain answer is what a streamed       *)
(* request gets with an error status), so they may be exchanged; for       *)
(* liveness one is answered, and the other one never counted.              *)
(***************************************************************************)
EXTENDS ModelGateway, TLC

CONSTANTS c1, c2

AnyAsks == [c \in Conns |-> Kinds \ {"plain"}]
LiveAsks == [c \in Conns |-> IF c = c1 THEN Inference ELSE {"bad", "probe"}]
Interchangeable == Permutations(Conns)
=============================================================================
