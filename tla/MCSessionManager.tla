-------------------------- MODULE MCSessionManager --------------------------
(* SessionManager on a small instance: the sets are model values given by  *)
(* the configuration.                                                      *)
EXTENDS SessionManager
=============================================================================
