------------------------------ MODULE MCArchiver ------------------------------
(* All files of up to seven bytes, of three values, for the round trip through  *)
(* every combination of the stages.                                          *)
EXTENDS Archiver

AllShort == UNION {[1..n -> {0, 2, 3}] : n \in 0..7}

\* Files without anything that repeats.
Plain == {<<1>>, <<1, 0>>}
Some == {<<>>, <<1>>, <<0, 1, 2, 3, 0, 1>>, <<1, 1, 1>>}
=============================================================================
