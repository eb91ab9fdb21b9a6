-------------------------- MODULE MCWebhookIngress --------------------------
(* Two orders for the last units of a variant, from two channels.          *)
EXTENDS WebhookIngress

CONSTANTS s1, s2, o1, o2

TwoSessions == {s1, s2}
TwoOrders == {o1, o2}

Contended == [o \in Orders |-> IF o = o1 THEN 2 ELSE 1]

BothCodes == [o \in Orders |-> IF o = o1 THEN "mock-bazar" ELSE "mock-marketplace"]
=============================================================================
