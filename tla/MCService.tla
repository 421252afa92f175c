------------------------------- MODULE MCService -------------------------------
(* Model values for Service.                                               *)
EXTENDS Service
=============================================================================
