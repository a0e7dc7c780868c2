---------------------------- MODULE MCKeyExchange ----------------------------
(* A small instance of KeyExchange for TLC.                                 *)
EXTENDS KeyExchange, TLC

CONSTANTS g, s1, s2

KeyFiles == <<s1, s2, g>>

\* One server is started twice, and everyone reads the files twice.
TwiceOneServer == [p \in Process |-> IF p = s2 THEN 2 ELSE 1]
ReadTwice      == [p \in Process |-> 2]
=============================================================================
