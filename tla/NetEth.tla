------------------------------- MODULE NetEth -------------------------------
(* net/eth.c: the ring of Ethernet devices.  The driver's init() of a       *)
(* device may fail; `up` is the set of those that succeed at this moment.   *)
EXTENDS Integers, FiniteSetsExt

CONSTANT NDevs    \* registered devices

ASSUME NDevsAssumption == NDevs \in Nat \ {0}

Devices == 1 .. NDevs
NONE == 0

(* eth_current, the devices in ETH_STATE_ACTIVE, the static first_failed    *)
(* and NetRestartWrap.                                                      *)
Eth == [cur : Devices, active : SUBSET Devices, first_failed : 0 .. NDevs,
        NetRestartWrap : BOOLEAN]

Ahead(d, k) == ((d - 1 + k) % NDevs) + 1

eth_halt(e) == [e EXCEPT !.active = @ \ {e.cur}]

eth_try_another(e, ethrotate, first_restart) ==
  LET failed == IF first_restart THEN e.cur ELSE e.first_failed
      next   == Ahead(e.cur, 1)
  IN IF ~ethrotate THEN e
     ELSE [e EXCEPT !.cur = next, !.first_failed = failed,
                    !.NetRestartWrap = @ \/ failed = next]

(* eth_init() goes on to the next device while init() fails, at most once   *)
(* round; it stays where it is when the devices are not rotated.            *)
Usable(e, ethrotate, up) ==
  {k \in (IF ethrotate THEN 0 .. NDevs - 1 ELSE {0}) : Ahead(e.cur, k) \in up}

eth_init(e, ethrotate, up) ==
  LET ks     == Usable(e, ethrotate, up)
      k      == IF ks # {} THEN Min(ks) ELSE IF ethrotate THEN NDevs ELSE 0
      dev    == Ahead(e.cur, k)
      passed == {Ahead(e.cur, j) : j \in 1 .. k}
  IN [e EXCEPT !.cur = dev,
               !.active = IF ks = {} THEN @ ELSE @ \cup {dev},
               !.NetRestartWrap = @ \/ e.first_failed \in passed]

(* eth_set_current(): "ethact" names the device.                            *)
eth_set_current(e, ethact) == [e EXCEPT !.cur = ethact]
=============================================================================
