----------------------------- MODULE MCWebhook -----------------------------
(* Webhook on small instances: well-formed events and, in the larger one, a *)
(* body of every other kind.                                                *)
EXTENDS Webhook

CONSTANTS e1, e2, e3, e4, e5, e6

EveryBody == [e \in Keys |-> CASE e \in {e1, e2} -> "event"
                               [] e = e3 -> "oversize"
                               [] e = e4 -> "malformed"
                               [] e = e5 -> "misshapen"
                               [] e = e6 -> "undecodable"]
=============================================================================
