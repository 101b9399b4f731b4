----------------------------- MODULE MCMessages -----------------------------
(* Bytes and lengths small enough to enumerate, two bytes to a length, and *)
(* strings whose bytes could be types and lengths.                         *)
EXTENDS Messages

MCText == {<< >>, <<0, 9>>, <<1, 0, 12, 1, 0>>}
=============================================================================
