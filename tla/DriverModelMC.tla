--------------------------- MODULE DriverModelMC ---------------------------
(* The root, a bus with two ports, and a chip behind one of them.           *)
EXTENDS DriverModel

CONSTANTS root, bus, porta, portb, chip

MCDevices == {root, bus, porta, portb, chip}

MCParent ==
    [d \in MCDevices |-> CASE d = root -> Nobody
                           [] d = bus -> root
                           [] d \in {porta, portb} -> bus
                           [] d = chip -> porta]

MCNodes ==
    [d \in MCDevices |-> CASE d = root -> <<bus>>
                           [] d = bus -> <<porta, portb>>
                           [] d = porta -> <<chip>>
                           [] OTHER -> <<>>]

MCUclass ==
    [d \in MCDevices |-> CASE d = root -> "root"
                           [] d \in {bus, chip} -> "misc"
                           [] OTHER -> "port"]

(* portb has an alias for number 0, which porta takes when it is first; so  *)
(* has chip, which cannot be probed before bus, of the same uclass.         *)
MCReqSeq == [d \in MCDevices |-> IF d \in {portb, chip} THEN 0 ELSE -1]
=============================================================================
