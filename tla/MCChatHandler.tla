----------------------------- MODULE MCChatHandler -----------------------------
(***************************************************************************)
(* Two requests on a budget that fits one prompt at a time, with a retry   *)
(* and a fallback each, and one whose policy has neither budget nor        *)
(* retries.                                                                *)
(***************************************************************************)
EXTENDS ChatHandler

CONSTANTS r1, r2, r3, a, b

AsksFor == [r \in Requests |-> a]
Prompts == [r \in Requests |-> 1]
Retrying(n) == [limit |-> n, retries |-> 1, fallbacks |-> <<b>>]
Plain == [limit |-> 0, retries |-> 0, fallbacks |-> <<>>]
Resolved == [r \in Requests |-> IF r = r3 THEN Plain ELSE Retrying(1)]

\* Fallbacks without retries.
FallbackOnly ==
  [r \in Requests |-> [limit |-> 0, retries |-> 0, fallbacks |-> <<b>>]]
=============================================================================
