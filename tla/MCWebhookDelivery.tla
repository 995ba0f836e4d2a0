--------------------------- MODULE MCWebhookDelivery ---------------------------
EXTENDS WebhookDelivery
==============================================================================
