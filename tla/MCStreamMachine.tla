-------------------------- MODULE MCStreamMachine --------------------------
EXTENDS StreamMachine
(* Token authentication, a stream that may be created, with and without    *)
(* tags; a device that authenticates with a certificate, and one that then *)
(* has no callback to make a token of it; no recovery.                     *)
App(a, dev, tags, create, recover) ==
    [auth |-> a, convert |-> TRUE, device |-> dev, tags |-> tags, create |-> create, recover |-> recover]
MCSetups == {App("token", FALSE, TRUE, TRUE, TRUE), App("token", TRUE, FALSE, FALSE, FALSE),
             App("cert", FALSE, FALSE, FALSE, TRUE), App("none", FALSE, FALSE, TRUE, TRUE),
             [App("cert", FALSE, FALSE, FALSE, TRUE) EXCEPT !.convert = FALSE]}
=============================================================================
