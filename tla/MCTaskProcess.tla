--------------------------- MODULE MCTaskProcess ---------------------------
(* Environments for TaskProcess: none, one or several quirks. *)
EXTENDS TaskProcess

AnyQuirks   == SUBSET QuirkKinds
NoQuirk     == {{}}
HelperStays == {{"helper_stays"}}
=============================================================================
