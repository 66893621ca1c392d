SPECIFICATION DmSpec
CONSTANTS
    root = root
    bus = bus
    porta = porta
    portb = portb
    chip = chip
    Nobody = Nobody
    Root = root
    Devices <- MCDevices
    Parent <- MCParent
    Nodes <- MCNodes
    Uclass <- MCUclass
    ReqSeq <- MCReqSeq
    Scanning = {bus}
    DM_MAX_SEQ = 5
    MaxFaults = 1
INVARIANT ParentActive
