----------------------------- MODULE MCWriteBack -----------------------------
(* Model-checking module for WriteBack.                                    *)
EXTENDS WriteBack
=============================================================================
