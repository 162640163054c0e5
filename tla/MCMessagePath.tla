--------------------------- MODULE MCMessagePath ---------------------------
(* Values of the constants of MessagePath for model checking.               *)
EXTENDS MessagePath

(* One short message of every type that does not split.                     *)
MCShorts == {<<"unreliable", 3>>, <<"unordered", 3>>, <<"control", 3>>}

(* Short messages of exactly TONK_MAX_UNRELIABLE_BYTES as well.             *)
MCFullShorts == MCShorts \cup {<<"unreliable", MaxUnreliable>>}
=============================================================================
