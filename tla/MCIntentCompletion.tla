------------------------- MODULE MCIntentCompletion -------------------------
(* The instances of MCIntentDispatcher, with callers awaiting complete().  *)
EXTENDS MCIntentDispatcher, IntentCompletion
=============================================================================
