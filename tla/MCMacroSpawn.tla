---------------------------- MODULE MCMacroSpawn ----------------------------
EXTENDS MacroSpawn

(* Renderings of guest errors: an ordinary exception, and an exception
   whose rendering is the termination string itself. *)
MCGuestErrors == {"boom"}
MCGuestErrorsWithSentinel == {"boom", "terminated"}
=============================================================================
