---------------------------- MODULE MCScadaTail ----------------------------
(* One followed file, two lines worth forwarding and one kind of partial line. *)
EXTENDS ScadaTail

CONSTANTS a, b

MCTexts == {a, b}
\* A line's head can read as a shorter line; its tail says nothing.
MCClassified == {<<a, "whole">>, <<a, "head">>, <<b, "whole">>}
============================================================================
