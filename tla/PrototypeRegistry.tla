-------------------------- MODULE PrototypeRegistry --------------------------
(***************************************************************************)
(* What the prototype commands promise a client, whatever happens inside   *)
(* dk-manager: one list of deployed prototypes.  A prototype enters it     *)
(* once, atomically and at the end; a client is told "success" only for a  *)
(* prototype that is in it.  Nothing removes a single entry.               *)
(*                                                                         *)
(* Two things break the promise.  A kill of dk-manager (where MayCrash)    *)
(* may lose the whole list.  A deployment whose read or write of the list  *)
(* fails unnoticed makes its own prototype faulty: the list may be empty   *)
(* afterwards or hold that prototype alone, and the client is told         *)
(* "success" all the same.  A deployment that is not faulty never takes    *)
(* an entry from the list, nor is it told "success" for nothing.           *)
(***************************************************************************)
EXTENDS Sequences, Functions

CONSTANTS Ids, MayCrash

VARIABLES
    registry, \* the deployed prototypes, in the order of their deployment
    acked,    \* the prototypes some client was told are deployed
    faulty    \* the prototypes with a deployment that failed unnoticed

Init == registry = <<>> /\ acked = {} /\ faulty = {}

Register(i) ==
    /\ i \notin Range(registry)
    /\ registry' = Append(registry, i)
    /\ UNCHANGED <<acked, faulty>>

Acknowledge(i) ==
    /\ i \in Range(registry) \cup faulty
    /\ acked' = acked \cup {i}
    /\ UNCHANGED <<registry, faulty>>

(* The read of the list fails, or the list is lost in the write.           *)
Fault(i) ==
    /\ faulty' = faulty \cup {i}
    /\ registry' \in {registry, <<>>}
    /\ UNCHANGED acked

(* The list is rewritten by a deployment that could not read it.           *)
RegisterAlone(i) ==
    /\ i \in faulty
    /\ registry' = <<i>>
    /\ UNCHANGED <<acked, faulty>>

Crash ==
    /\ MayCrash
    /\ registry' = <<>>
    /\ UNCHANGED <<acked, faulty>>

Next == \/ Crash
        \/ \E i \in Ids : \/ Register(i) \/ Acknowledge(i)
                          \/ Fault(i) \/ RegisterAlone(i)

Spec == Init /\ [][Next]_<<registry, acked, faulty>>
=============================================================================
