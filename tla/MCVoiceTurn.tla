----------------------------- MODULE MCVoiceTurn ------------------------------
(* Small instances of VoiceTurn: 12 messages and 1200 runes become two      *)
(* messages and one or two lines, eight channel slots become one.           *)
EXTENDS VoiceTurn
=============================================================================
