------------------------- MODULE MCConnectionPool -------------------------
(* ConnectionPool with a pool smaller than the threads, as by default, with *)
(* one that is larger, and with one connection and one thread.              *)
EXTENDS ConnectionPool

MCSizings ==
    {[pool |-> 2, threads |-> 3], [pool |-> 3, threads |-> 1], [pool |-> 1, threads |-> 1]}

=============================================================================
