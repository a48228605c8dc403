--------------------------- MODULE MCCapacityPlan ---------------------------
(* Two bytes to a megabyte, so that fractions of one occur; no gpu, one, two *)
(* of which either has more room, and two that are equal; reserves above     *)
(* what is free; budgets that do not divide it, and one that is negative.    *)
EXTENDS CapacityPlan

Gpu(ordinal, free) == [ordinal |-> ordinal, free |-> free]
MCGpus ==
  {<<>>, <<Gpu(3, 7)>>, <<Gpu(-1, 4)>>, <<Gpu(1, 4), Gpu(0, 9)>>,
   <<Gpu(-1, 9), Gpu(-1, 1)>>, <<Gpu(2, 6), Gpu(1, 6)>>}
MCRam == {0, 5, 8}
MCBudget == {-1, 1, 2}
MCCount == {0, 1, 3}
MCLadders ==
  {<<"cuda", "npu", "cpu">>, <<"cuda">>, <<"rocm", "cuda", "remote">>, <<"cpu", "cuda">>}
=============================================================================
