-------------------------- MODULE MCPrototypeSystem --------------------------
(* PrototypeSystem for TLC.                                                *)
EXTENDS PrototypeSystem, TLC

(* deploy_AraApp_Request: it writes both files and runs nothing.           *)
MCMessages ==
    {[kind |-> "ara", id |-> i, converted |-> TRUE, run |-> FALSE] : i \in Ids}

Symmetry == Permutations(Handlers) \cup Permutations(Ids)
=============================================================================
