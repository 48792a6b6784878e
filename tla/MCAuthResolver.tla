--------------------------- MODULE MCAuthResolver ---------------------------
(* Small instances of AuthResolver for TLC. *)
EXTENDS AuthResolver, TLC

CONSTANTS anthropic, google

\* anthropic has a subscription, google has two keys.
Subscriptions == <<anthropic>>
Keys == <<[provider |-> google, key |-> 0], [provider |-> google, key |-> 1]>>
=============================================================================
