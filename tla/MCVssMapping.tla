----------------------------- MODULE MCVssMapping -----------------------------
(* VssMapping for TLC: two APIs, two CAN signals, one dbc on two CAN      *)
(* channels.                                                               *)
EXTENDS VssMapping, TLC

CONSTANTS seat, seatBelt, sig, sig2, dbc0, dbc1, h1, h2, h3

MCVss == {seat, seatBelt}
MCSignals == {sig, sig2}
MCFeeds == {dbc0, dbc1}
MCFrameOf == [s \in MCSignals |-> MCSignals] \* one frame

(* No name occurs in another, or seat occurs in seatBelt.                  *)
Apart2 == {<<n, n>> : n \in MCVss \cup MCSignals}
Nested == Apart2 \cup {<<seat, seatBelt>>}

Create(v, s, f) == [vss |-> v, signal |-> s, feed |-> f, deleted |-> FALSE]
Delete(v) == [vss |-> v, signal |-> NoSignal, feed |-> dbc0, deleted |-> TRUE]

(* The payloads: create or update one API or both, delete one while the    *)
(* other is created, and delete and create one again.                      *)
AllMappings ==
    {<<Create(seat, sig, dbc0)>>,
     <<Create(seatBelt, NoSignal, dbc0)>>,
     <<Create(seat, sig2, dbc1), Create(seatBelt, sig, dbc0)>>,
     <<Delete(seat), Create(seatBelt, sig2, dbc1)>>,
     <<Delete(seat), Create(seat, sig, dbc0)>>}
FewMappings ==
    {<<Create(seat, sig, dbc0)>>,
     <<Delete(seat), Create(seatBelt, sig2, dbc1)>>}
NestedMappings == {<<Create(seat, NoSignal, dbc0)>>,
                   <<Create(seatBelt, NoSignal, dbc0)>>, <<Delete(seat)>>}
MCApiLists == {{seatBelt}}

Symmetry == Permutations(Handlers)
=============================================================================
