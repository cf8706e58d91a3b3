------------------------------ MODULE MCConsole ------------------------------
(* Small instances of Console.                                                *)
EXTENDS Console

=============================================================================
