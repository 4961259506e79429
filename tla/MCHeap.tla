------------------------------- MODULE MCHeap -------------------------------
(* Model-checking instance of Heap: the real 32-byte header; MCHeap.cfg   *)
(* gives a 248-byte arena, so that a request can split a block, take a    *)
(* block whole, or fail, and up to five blocks coexist.                    *)
EXTENDS Heap

\* 9 rounds up to 16 and splits; 40 splits the first block and exactly
\* fills a 40-byte remainder; 216 is the whole initial block of the
\* 248-byte arena (and too large for a 192-byte one); 0 is rejected.
MCRequests == {0, 9, 40, 216}

\* 3 * 8 = 24 bytes.
MCCallocArgs == {<<3, 8>>}

\* 8: its header would lie before heap_start; 40: its header offset 8 is
\* never the start of a block, so its tag is garbage.
MCWildPointers == {8, 40}
=============================================================================
