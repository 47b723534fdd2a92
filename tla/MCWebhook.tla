----------------------------- MODULE MCWebhook ------------------------------
(* Persona on each kind of store; Plaid and Stripe, in memory, over Redis  *)
(* sessions.  Stripe is where one inquiry fails and then succeeds.         *)
EXTENDS Webhook

MCDeployments ==
  [method : {"government-id-liveness"}, shared : {"memory", "redis"}, events : {1}]
    \cup [method : {"plaid-bank-link"}, shared : {"redis"}, events : {1}]
    \cup [method : {"paid-billing-card"}, shared : {"redis"}, events : {MaxEvents}]
=============================================================================
