------------------------ MODULE MC_StorageLifecycle ------------------------
(* Two resolver workers and the code's two GC workers; two goroutines call *)
(* Close, so the calls interleave as well as follow each other.            *)
EXTENDS StorageLifecycle
CONSTANTS k1, k2
MCClosers == {k1, k2}
MCOneCloser == {k1}
=============================================================================
