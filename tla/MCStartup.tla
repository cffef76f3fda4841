----------------------------- MODULE MCStartup -----------------------------
(* Two replicas that start together.                                        *)
EXTENDS Startup
=============================================================================
