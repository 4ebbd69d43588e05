---------------------------- MODULE MCMemoryWriter ----------------------------
(* Two sessions and four entries: one fills the limit, and the last is larger *)
(* than it; three seconds, of which the last two are the next day.             *)
EXTENDS MemoryWriter

CONSTANTS s1, s2, a1, a2

MCSizeOf == <<1, 2, 1, 3>>

=============================================================================
