------------------------------ MODULE MCPatches ------------------------------
(* A loop around two literal characters and an expression, in two variants. *)
EXTENDS Patches

RawSlice(type, start, stop) == [type |-> type, start |-> start, stop |-> stop]

MCRawSlices ==
    <<RawSlice("tag", 0, 1), RawSlice("literal", 1, 3), RawSlice("templated", 3, 4),
      RawSlice("tag", 4, 5)>>
=============================================================================
