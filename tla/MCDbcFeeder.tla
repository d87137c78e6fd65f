----------------------------- MODULE MCDbcFeeder -----------------------------
(* Instances of DbcFeeder for TLC: the bounds are given in the .cfg files. *)
EXTENDS DbcFeeder

=============================================================================
