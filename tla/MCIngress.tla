------------------------------ MODULE MCIngress ------------------------------
(* A connection and the UDP socket over a channel of one.                    *)
EXTENDS Ingress, TLC

CONSTANTS c1

MCScript == c1 :> <<"line", "blank", "line", "part">> @@ Udp :> <<"line">>
==============================================================================
