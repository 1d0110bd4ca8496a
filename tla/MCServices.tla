----------------------------- MODULE MCServices -----------------------------
(* Values for the TLC run of Services. *)
EXTENDS Services

\* Channels of the delivery service, and senders of the notification service.
MCChain == <<"telegram", "sms">>
MCSenders == <<"telegram", "sms", "webhook">>

\* Models of the fallback chain, cheapest first.
MCFallbacks == <<"flash", "pro">>

=============================================================================
