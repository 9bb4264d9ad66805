---------------------------- MODULE MCOglMerge ----------------------------
(* Trees with a directory in a directory in the root.                      *)
EXTENDS OglMerge

MCSlots == {<<1>>, <<1, 1>>, <<1, 2>>, <<1, 1, 1>>}
=============================================================================
