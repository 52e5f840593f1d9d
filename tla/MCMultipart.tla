---------------------------- MODULE MCMultipart ----------------------------
(***************************************************************************)
(* The data of a part for model checking: none, a unit of text, and lines   *)
(* that look like a header.                                                 *)
(***************************************************************************)
EXTENDS Multipart

MCDataOf == {<<>>, <<"x">>, <<"h", "N">>}
===========================================================================
