----------------------------- MODULE MCDfuTool -----------------------------
(* A chip of eight blocks: two small sectors of two blocks, the first of   *)
(* them the bootloader's, and a large sector of four.  The image fills the *)
(* small sector and half of the large one.  Other hosts write the first    *)
(* block of the bootloader and one in the middle of the large sector.      *)
EXTENDS DfuTool
MCValues == {0, 5}
MCData   == {"a", "b"}
MCImage  == <<"a", "b", "a", "b">>
=============================================================================
