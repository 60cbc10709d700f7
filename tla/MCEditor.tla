------------------------------ MODULE MCEditor ------------------------------
(* A buffer of five characters and a page of two rows of three columns, where a tab    *)
(* takes a row.  The files are an empty or new one, one without and one with carriage  *)
(* returns, and one that is too long for the buffer.                                   *)
EXTENDS Editor

MCFiles == {<<>>, <<"a", NL, "a">>, <<"a", CR, TAB, CR, NL>>, <<"a", "a", NL, "a", NL, "a", "a">>}
=============================================================================
