---------------------------- MODULE MCConnection ----------------------------
(***************************************************************************)
(* Instances of Connection for TLC: messages of a short and of a long      *)
(* payload and one that is not valid, through buffers that hold less than  *)
(* a message.                                                              *)
(***************************************************************************)
EXTENDS Connection

CONSTANTS w1, w2, short, long, longer, invalid

OneWriter == {w1}
TwoWriters == {w1, w2}
AllMessages == {short, long, longer, invalid}
TwoMessages == {short, long}

AllSizes == [m \in AllMessages |-> CASE m = short -> 1
                                     [] m = long -> 2
                                     [] m = longer -> 3
                                     [] m = invalid -> 0]
TwoSizes == [m \in TwoMessages |-> IF m = short THEN 1 ELSE 2]
=============================================================================
