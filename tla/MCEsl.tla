------------------------------- MODULE MCEsl -------------------------------
(***************************************************************************)
(* The callers of the event socket, one of each kind of context.           *)
(***************************************************************************)
EXTENDS Esl

MCCallers == {"poller", "admin", "reconciler", "renderer"}
MCFewCallers == MCCallers \ {"reconciler"}
MCDeadlined == {"poller"}
MCCancelled == {"admin"}
MCRenderer == "renderer"
MCEvents == {"hangup"}

=============================================================================
