---------------------------- MODULE MCSyncClient ----------------------------
(* Model-checking instance of SyncClient: two SyncHandles, each opened for *)
(* either of two peers (so an insert can meet an occupied entry and        *)
(* complete_all can cover two peers).                                      *)
EXTENDS SyncClient, TLC

CONSTANTS h1, h2, p1, p2

\* the handles play the same role
SymHandles == Permutations(Handles)
====
