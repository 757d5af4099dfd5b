---------------------------- MODULE MCDerivedStore ----------------------------
(* One file with a note, on which re-enrich is run. *)
EXTENDS DerivedStore

MCFiles == {"f"}
MCTexts == {"t"}
MCNotes == {"n", "m"}
=============================================================================
