------------------------------ MODULE MCLogger ------------------------------
(***************************************************************************)
(* Two threads, the console and one other logger.                          *)
(***************************************************************************)
EXTENDS Logger

CONSTANTS t1, t2, console, file, v1
=============================================================================
