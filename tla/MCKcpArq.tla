------------------------------ MODULE MCKcpArq ------------------------------
(* Instances of KcpArq for TLC: the two ends are model values, and in the  *)
(* one-way runs only A's program sends.                                    *)
EXTENDS KcpArq

OneWay == {A}
=============================================================================
