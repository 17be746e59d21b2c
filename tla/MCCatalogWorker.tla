-------------------------- MODULE MCCatalogWorker --------------------------
(* One slot is asked twice, the others once.                                 *)
EXTENDS CatalogWorker, TLC

MCGenerations == [s \in 1..Slots |-> IF s = 1 THEN 2 ELSE 1]
=============================================================================
