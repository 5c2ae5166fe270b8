---------------------------- MODULE MCEventQueue ----------------------------
(* Instances of EventQueue for TLC.                                        *)
EXTENDS EventQueue

(* "acme" sending "eu_paid" and "acme_eu" sending "paid" share a queue.     *)
CollidingTenants == {<<"acme">>, <<"acme", "eu">>}
CollidingEvents == {<<"paid">>, <<"eu", "paid">>}
=============================================================================
