---------------------------- MODULE MCRemoteSync ----------------------------
(* One token, two policies and one expiration, so that a policy and an     *)
(* expiration of different versions can meet; the periodic and one pushed  *)
(* sync besides the first one.                                             *)
EXTENDS RemoteSync

CONSTANTS t1, p, q, e, s1, i, j

=============================================================================
