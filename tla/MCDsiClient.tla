---------------------------- MODULE MCDsiClient ----------------------------
(* An instance of DsiClient: one network with a key and one without.  The   *)
(* card is new, or comes with a key that is right or no longer is, and with *)
(* any kind of server.                                                      *)
EXTENDS DsiClient

MCFiles ==
    {Absent} \cup
    [ssid : {"home"}, key : [of : {"home"}, right : BOOLEAN], launcher : {0}, border : {1}, backend : Backend]
=============================================================================
