-------------------------- MODULE MCPrototypeStore --------------------------
(* PrototypeStore for TLC.                                                 *)
EXTENDS PrototypeStore

CONSTANTS p, q

Message(kind, i) == [kind |-> kind, id |-> i, converted |-> TRUE, run |-> FALSE]

(* One prototype is deployed and run, started, stopped and edited; another *)
(* is deployed beside it; one deployment comes without converted code.     *)
MCMessages ==
    {Message(kind, p) : kind \in {"list", "start", "stop", "set"}}
      \cup {[Message("deploy", p) EXCEPT !.run = TRUE], Message("ara", q),
            [Message("deploy", q) EXCEPT !.converted = FALSE]}
=============================================================================
