-------------------------- MODULE DisconnectCallers --------------------------
(***************************************************************************)
(* The callers of disconnectSession that the models of one pod tell apart. *)
(***************************************************************************)

\* All but "api" (the API, the queue, removeSession, shutdown) pass
\* preserveStatus; "idle" is the idle cleanup and the QR gateway, "mismatch"
\* failSessionWithPhoneMismatch.
Closer == {"api", "idle", "mismatch"}
Preserve == {"idle", "mismatch"}
=============================================================================
