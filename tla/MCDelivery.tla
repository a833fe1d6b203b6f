----------------------------- MODULE MCDelivery -----------------------------
(* Model checking Delivery: one message from a to b, or two. *)
EXTENDS Delivery, TLC

CONSTANTS a, b

MCFrom == [m \in Msg |-> a]
MCTo == [m \in Msg |-> b]
=============================================================================
