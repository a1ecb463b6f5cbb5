--------------------------- MODULE MCWebhookQueue --------------------------
(***************************************************************************)
(* WebhookQueue on small instances.                                        *)
(***************************************************************************)
EXTENDS WebhookQueue

OneDelay == <<1>>
=============================================================================
