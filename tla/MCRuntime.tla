------------------------------ MODULE MCRuntime ------------------------------
(***************************************************************************)
(* Machines and arguments for model checking Runtime.                      *)
(***************************************************************************)
EXTENDS Runtime

(* No platform; platforms without a GPU, alone, first and between others;  *)
(* a single GPU; ties for the best within a platform and across platforms; *)
(* three platforms that differ in their number of GPUs.                    *)
Machines ==
  {<<>>,
   << <<>> >>,
   << <<1>> >>,
   << <<>>, <<2, 2>> >>,
   << <<2, 1>>, <<>>, <<2>> >>,
   << <<1>>, <<3, 3>>, <<3, 2>> >>}

(* Every device of the largest machine, one that is too many, and "best".  *)
AnyRequest == -1..5

=============================================================================
