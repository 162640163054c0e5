--------------------------- MODULE MCSiameseCodec ---------------------------
(* Two sums; every other row leaves out the second. *)
EXTENDS SiameseCodec, TLC

MCRowSums == (0 :> {<<0, 0>>, <<0, 1>>}) @@ (1 :> {<<0, 0>>})
=============================================================================
