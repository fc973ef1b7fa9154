--------------------------- MODULE MCCancelToken ---------------------------
(* CancelToken on the tasks and cancel() calls its configuration names.    *)
EXTENDS CancelToken
=============================================================================
