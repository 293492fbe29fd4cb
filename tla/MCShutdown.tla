------------------------------ MODULE MCShutdown ------------------------------
(* The instances of MCLedger with a process that stops.                    *)
EXTENDS MCLedger, Shutdown
=============================================================================
