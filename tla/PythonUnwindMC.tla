--------------------------- MODULE PythonUnwindMC ---------------------------
(* Two frames with any contents, for the walk alone. *)
EXTENDS PythonUnwind

MCMemories == [Frames -> Fields]
=============================================================================
