----------------------------- MODULE MCStartup ------------------------------
(***************************************************************************)
(* Two threads of one JVM, with every class path.                          *)
(***************************************************************************)
EXTENDS Startup

CONSTANTS t1, t2

Two == {t1, t2}
=============================================================================
