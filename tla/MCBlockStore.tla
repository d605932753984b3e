---------------------------- MODULE MCBlockStore ----------------------------
(* Instances of BlockStore for TLC.  Three blocks of two cells reach every *)
(* alignment of a write or a truncation: inside a block, on a boundary,    *)
(* over one or over two boundaries.                                        *)
EXTENDS BlockStore

MCCell == {0, 1, 2}
MCData == {<<1>>, <<2, 1>>, <<1, 2, 2, 1>>}

AllSizes == 0..MaxFileSize
=============================================================================
