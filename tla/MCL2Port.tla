------------------------------ MODULE MCL2Port ------------------------------
(* A reset that meets a line fetch.                                          *)
EXTENDS L2Port

FillLoads == {[pushes |-> {}, reqs |-> {}, fills |-> TRUE, resets |-> 1]}
=============================================================================
