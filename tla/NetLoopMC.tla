----------------------------- MODULE NetLoopMC ------------------------------
(* NetLoop with two devices: rotated, not rotated and retried for ever, and *)
(* one of them without an Ethernet address; and with netretry=once.         *)
EXTENDS NetLoop

Setting(retry, rotate, ip, none) ==
  [netretry |-> retry, ethrotate |-> rotate, ipaddr |-> ip, noMac |-> none]
MCEnvs == {Setting("twice", TRUE, FALSE, {}), Setting("yes", FALSE, TRUE, {}),
           Setting("twice", TRUE, TRUE, {2})}
OnceEnvs == {Setting("once", TRUE, TRUE, {})}
=============================================================================
