--------------------------- MODULE MCCreateModal ---------------------------
(* Two submissions that may race for one row, two additions of one medium or *)
(* two ratings of it, or that go their own ways; or an addition and then a   *)
(* rating of what was added.                                                 *)
EXTENDS CreateModal, TLC
=============================================================================
