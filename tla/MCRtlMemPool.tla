--------------------------- MODULE MCRtlMemPool ---------------------------
EXTENDS RtlMemPool

Small == [base |-> 40, bytes |-> 48]
Large == [base |-> 1, bytes |-> 98]
Full == [base |-> 1, bytes |-> 136]

TwoChunks == {Small, Large}
LargestChunk == {Full}
=============================================================================
