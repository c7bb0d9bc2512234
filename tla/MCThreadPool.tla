---------------------------- MODULE MCThreadPool ----------------------------
EXTENDS ThreadPoolProperties

(* A matrix product, whose chunks are stolen, before or after a node whose *)
(* rows are divided.                                                       *)
MCGraph == [n \in 0 .. NNodes - 1 |-> IF n % 2 = 0 THEN "mul_mat" ELSE "map"]
=============================================================================
