--------------------------- MODULE MCGASNetMemory ---------------------------
(* A global memory of two nodes with three strides of two bytes each, and   *)
(* one thread of another node.  The sizes ask for nothing, for a stride,    *)
(* for more than one stride, and for half of the memory.                    *)
EXTENDS GASNetMemory

Sizes == {0, 2, 3, 6}

=============================================================================
