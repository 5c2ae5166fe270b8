---------------------------- MODULE MCOutboxRelay ----------------------------
(* Instances of OutboxRelay for TLC: one tenant, event types by one name.  *)
EXTENDS OutboxRelay

Acme == <<"acme">>
OneTenant == {Acme}
OneEvent == {<<"paid">>}
TwoEvents == {<<"paid">>, <<"sent">>}
=============================================================================
