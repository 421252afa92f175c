--------------------------- MODULE MCSpeechWorker ---------------------------
(* Small instances of SpeechWorker.                                        *)
EXTENDS SpeechWorker
=============================================================================
