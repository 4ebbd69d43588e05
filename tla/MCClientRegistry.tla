--------------------------- MODULE MCClientRegistry ---------------------------
(* Two clients, one of which filters one event out; two goroutines that *)
(* register, unregister and emit, and the one that closes the registry.        *)
EXTENDS ClientRegistry

CONSTANTS c1, c2, p1, p2

MCEvents == 1..2
MCWanted == [c \in Clients |-> IF c = c1 THEN MCEvents ELSE {1}]

=============================================================================
