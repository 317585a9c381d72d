------------------------------ MODULE MCDurable ------------------------------
(***************************************************************************)
(* One order, executed in one trade, and two processes.                    *)
(***************************************************************************)
EXTENDS DurableExecution

OneOrder == {Id}
==============================================================================
