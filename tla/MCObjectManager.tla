-------------------------- MODULE MCObjectManager --------------------------
(* Two threads, three objects, two sizes.                                  *)
EXTENDS ObjectManager
=============================================================================
