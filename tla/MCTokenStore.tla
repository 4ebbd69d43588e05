----------------------------- MODULE MCTokenStore -----------------------------
(***************************************************************************)
(* Instances of TokenStore.  MCTokenStore.cfg has one writer, a watcher    *)
(* and a lookup: two tokens and two commits leave the watcher a version  *)
(* behind twice.  MCTokenStoreStale.cfg has two writers whose reloads      *)
(* overlap.                                                                *)
(***************************************************************************)
EXTENDS TokenStore
CONSTANTS t1, t2, p1, p2, w1, w2, l1

MCOneToken == {t1}
MCTokens == {t1, t2}
MCPolicies == {p1, p2}
MCOnePolicy == {p1}
MCExpiries == {0}
MCNoExpiries == {}
MCOneWriter == {w1}
MCTwoWriters == {w1, w2}
MCReaders == {l1}
=============================================================================
