---------------------------- MODULE DriverModel ----------------------------
(***************************************************************************)
(* The driver model core, drivers/core: binding, probing, removing and     *)
(* unbinding the devices of a device tree, when any hook of a driver or a  *)
(* uclass, and any allocation, may fail.                                   *)
(*                                                                         *)
(* The core is sequential, and its functions call each other up and down   *)
(* the tree.  A function is an operator from the state it is called in to  *)
(* the set of its outcomes: a state, and whether the call failed.  One     *)
(* call from outside is one step.                                          *)
(***************************************************************************)
EXTENDS Integers, FiniteSets, SequencesExt

CONSTANTS
    Devices,        \* the nodes of the device tree
    Root,           \* gd->dm_root
    Nobody,         \* no device
    Parent,         \* device |-> its parent; of Root: Nobody
    Nodes,          \* device |-> its subnodes in the order of the device tree
    Uclass,         \* device |-> its uclass
    Scanning,       \* the devices whose uclass's post_bind scans the subnodes
    ReqSeq,         \* device |-> the sequence number of its alias, or -1
    DM_MAX_SEQ,
    MaxFaults       \* bound: failures of hooks and allocations

Uclasses == {Uclass[d] : d \in Devices}

ASSUME TreeAssumption ==
    /\ Root \in Devices /\ Nobody \notin Devices
    /\ Parent \in [Devices -> Devices \cup {Nobody}]
    /\ \A d \in Devices : Parent[d] = Nobody <=> d = Root
    /\ \A d \in Devices : ToSet(Nodes[d]) = {c \in Devices : Parent[c] = d}
    /\ Scanning \subseteq Devices
    /\ ReqSeq \in [Devices -> Int]
    /\ \A d \in Devices : ReqSeq[d] >= -1
    /\ MaxFaults \in Nat

VARIABLES
    dm,     \* the state of the core
    last    \* history: the last call from outside and what it returned

dmVars == <<dm, last>>

-----------------------------------------------------------------------------
(* Outcomes *)

Ok(s) == {[s |-> s, err |-> FALSE]}
Fail(s) == {[s |-> s, err |-> TRUE]}

(* A hook, or an allocation: it succeeds or it fails.                       *)
Hook(s) ==
    Ok(s) \cup IF s.faults < MaxFaults THEN Fail([s EXCEPT !.faults = @ + 1]) ELSE {}

(* What Good(s) and Bad(s) make of the outcomes of a call.                  *)
After(outcomes, Good(_), Bad(_)) ==
    UNION {IF o.err THEN Bad(o.s) ELSE Good(o.s) : o \in outcomes}

-----------------------------------------------------------------------------
(* The lists *)

(* The devices of a list that is walked, in a state.                        *)
uclass_find_device(s, u, index) ==
    IF index \in DOMAIN s.dev_head[u] THEN s.dev_head[u][index] ELSE Nobody

First(list, Wanted(_)) ==
    LET found == SelectSeq(list, Wanted) IN IF found = <<>> THEN Nobody ELSE found[1]

uclass_find_device_by_seq(s, u, n, find_req_seq) ==
    IF n = -1 THEN Nobody
    ELSE First(s.dev_head[u], LAMBDA d : (IF find_req_seq THEN ReqSeq[d] ELSE s.seq[d]) = n)

(* Mutated: the requested number, whether it is free or not.                *)
ResolveSeqUnchecked(s, d) ==
    IF ReqSeq[d] # -1 THEN ReqSeq[d]
    ELSE CHOOSE n \in 0 .. DM_MAX_SEQ :
            /\ uclass_find_device_by_seq(s, Uclass[d], n, FALSE) = Nobody
            /\ \A m \in 0 .. n - 1 : uclass_find_device_by_seq(s, Uclass[d], m, FALSE) # Nobody

(* The requested number if it is free, else the first free one.             *)
uclass_resolve_seq(s, d) ==
    LET free(n) == uclass_find_device_by_seq(s, Uclass[d], n, FALSE) = Nobody
    IN  IF ReqSeq[d] # -1 /\ free(ReqSeq[d])
        THEN ReqSeq[d]
        ELSE CHOOSE n \in 0 .. DM_MAX_SEQ :
                /\ n = DM_MAX_SEQ \/ free(n)
                /\ \A m \in 0 .. n - 1 : ~free(m)

(* Mutated: d stays on its uclass's list.                                   *)
FreeDeviceListed(s, d) ==
    [s EXCEPT !.bound = @ \ {d}, !.child_head[Parent[d]] = Remove(@, d)]

(* d leaves the list of its uclass and of its parent and is freed.          *)
FreeDevice(s, d) ==
    [s EXCEPT !.bound = @ \ {d},
              !.dev_head[Uclass[d]] = Remove(@, d),
              !.child_head[Parent[d]] = Remove(@, d)]

-----------------------------------------------------------------------------
(* Binding *)

RECURSIVE device_bind(_, _), dm_scan_fdt_node(_, _)

(* All subnodes are tried; the first error is reported.                     *)
dm_scan_fdt_node(s, nodes) ==
    IF nodes = <<>> THEN Ok(s)
    ELSE After(device_bind(s, nodes[1]),
               LAMBDA t : dm_scan_fdt_node(t, Tail(nodes)),
               LAMBDA t : {[o EXCEPT !.err = TRUE] : o \in dm_scan_fdt_node(t, Tail(nodes))})

(* An allocation fails: nothing happened.  post_bind() fails: the device is *)
(* taken off the lists and freed - its children, which the hook has bound,  *)
(* are not.  So it is when bind() or the parent's child_post_bind() fails,  *)
(* but the uclass's pre_unbind(), called first, may fail as well: then the  *)
(* device is freed and its uclass's list still holds it.                    *)
device_bind(s, d) ==
    LET linked(t) == [t EXCEPT !.bound = @ \cup {d},
                               !.dev_head[Uclass[d]] = Append(@, d),
                               !.child_head[Parent[d]] = Append(@, d),
                               !.child_head[d] = <<>>]
        gone(t) == [FreeDevice(t, d) EXCEPT
                      !.orphans = @ \cup {c \in t.bound : Parent[c] = d}]
        freed(t) == Fail(gone(t))
        listed(t) == Fail([gone(t) EXCEPT !.dev_head[Uclass[d]] = t.dev_head[Uclass[d]],
                                          !.dangling = @ \cup {d}])
        unbound(t) == After(Hook(t), freed, listed)
        post_bind(t) == IF d \in Scanning THEN dm_scan_fdt_node(t, Nodes[d]) ELSE Ok(t)
    IN  After(Hook(s),
              LAMBDA t : After(post_bind(linked(t)),
                               LAMBDA t2 : After(Hook(t2), Ok, unbound),
                               freed),
              Fail)

-----------------------------------------------------------------------------
(* Probing *)

(* Mutated: the uclass's data are not freed.                                *)
DeviceFreeHalf(s, d) == [s EXCEPT !.priv = @ \ {d}, !.seq[d] = -1]

(* device_free(), and the sequence number given back.                       *)
device_free(s, d) ==
    [s EXCEPT !.priv = @ \ {d}, !.uclass_priv = @ \ {d}, !.seq[d] = -1]

RECURSIVE device_probe(_, _)

(* Mutated: the parent is not probed.                                       *)
ProbeWithoutParent(s, d) ==
    LET undone(t) == Fail(device_free(t, d))
        ready(t) == [t EXCEPT !.priv = @ \cup {d}, !.uclass_priv = @ \cup {d},
                              !.seq[d] = uclass_resolve_seq(t, d),
                              !.running = @ \cup {d}, !.active = @ \cup {d}]
    IN  IF d \in s.active THEN Ok(s) ELSE After(Hook(s), LAMBDA t : Ok(ready(t)), undone)

(* Allocations; the parent; the number; the hooks before probe(), and       *)
(* probe() itself, which starts the hardware; post_probe().  When this last *)
(* one fails, the device is not active any more when device_remove() is     *)
(* called, which then does nothing: the hardware goes on.                   *)
device_probe(s, d) ==
    LET undone(t) == Fail(device_free(t, d))
        allocated(t) == [t EXCEPT !.priv = @ \cup {d}, !.uclass_priv = @ \cup {d}]
        numbered(t) == [t EXCEPT !.seq[d] = uclass_resolve_seq(t, d)]
        started(t) == [t EXCEPT !.running = @ \cup {d}, !.active = @ \cup {d}]
        unprobed(t) == undone([t EXCEPT !.active = @ \ {d}, !.unremoved = @ \cup {d}])
        parent(t) == IF d = Root THEN Ok(t) ELSE device_probe(t, Parent[d])
        probed(t) == After(Hook(started(t)), Ok, unprobed)
        prepared(t) == After(Hook(numbered(t)), probed, undone)
    IN  IF d \in s.active THEN Ok(s)
        ELSE After(Hook(s), LAMBDA t : After(parent(allocated(t)), prepared, undone), undone)

-----------------------------------------------------------------------------
(* Removing and unbinding *)

RECURSIVE device_remove(_, _), device_chld_remove(_, _)

(* The children in the order they were bound, up to the first error.        *)
device_chld_remove(s, children) ==
    IF children = <<>> THEN Ok(s)
    ELSE After(device_remove(s, children[1]),
               LAMBDA t : device_chld_remove(t, Tail(children)),
               Fail)

(* pre_remove(); the uclass's data and the number are given up; the         *)
(* children; remove(), which stops the hardware; child_post_remove(), whose *)
(* error is returned although the device is gone.  When the children or     *)
(* remove() fail, post_probe() is called again, and it is the result of     *)
(* that call that is returned.                                              *)
device_remove(s, d) ==
    LET given_up(t) == [t EXCEPT !.uclass_priv = @ \ {d}, !.seq[d] = -1]
        children(t) == device_chld_remove(t, t.child_head[d])
        stopped(t) == [device_free(t, d) EXCEPT !.running = @ \ {d}, !.active = @ \ {d},
                                                !.stuck = @ \ {d}, !.unremoved = @ \ {d}]
        err(t) == Hook([t EXCEPT !.stuck = @ \cup {d}])
        removed(t) == IF d = Root THEN Ok(stopped(t)) ELSE Hook(stopped(t))
    IN  IF d \notin s.active THEN Ok(s)
        ELSE After(Hook(s),
                   LAMBDA t : After(children(given_up(t)),
                                    LAMBDA t2 : After(Hook(t2), removed, err),
                                    err),
                   Fail)

RECURSIVE device_unbind(_, _), device_chld_unbind(_, _)

(* All children are tried; the first error is reported.                     *)
device_chld_unbind(s, children) ==
    IF children = <<>> THEN Ok(s)
    ELSE After(device_unbind(s, children[1]),
               LAMBDA t : device_chld_unbind(t, Tail(children)),
               LAMBDA t : {[o EXCEPT !.err = TRUE] : o \in device_chld_unbind(t, Tail(children))})

(* Mutated: the device is freed although a child could not be unbound.      *)
UnbindOverChildren(s, d) ==
    LET freed(t) == Ok(FreeDevice(t, d))
    IN  IF d \in s.active THEN Fail(s)
        ELSE After(device_chld_unbind(s, s.child_head[d]), freed, freed)

(* unbind(), the children, pre_unbind().                                    *)
device_unbind(s, d) ==
    LET children(t) == device_chld_unbind(t, t.child_head[d])
        unbound(t) == Ok(FreeDevice(t, d))
    IN  IF d \in s.active THEN Fail(s)
        ELSE After(Hook(s),
                   LAMBDA t : After(children(t), LAMBDA t2 : After(Hook(t2), unbound, Fail), Fail),
                   Fail)

-----------------------------------------------------------------------------
(* Calls from outside *)

RECURSIVE Ancestors(_)
Ancestors(d) == IF d = Root THEN {} ELSE {Parent[d]} \cup Ancestors(Parent[d])

(* d's parent, its parent, and so on, are there: the core may follow the    *)
(* pointers.                                                                *)
Attached(s, d) == d \in s.bound /\ Ancestors(d) \subseteq s.bound

(* No list of the uclasses of ds holds a device that was freed.  What a     *)
(* call does that walks or changes such a list is undefined, and not        *)
(* modelled.                                                                *)
Intact(s, ds) == \A d \in ds, e \in s.dangling : Uclass[d] # Uclass[e]

Lineage(d) == {d} \cup Ancestors(d)
Subtree(d) == {c \in Devices : d \in Lineage(c)}

Returns(op, d, n, outcomes) ==
    \E o \in outcomes :
       /\ dm' = o.s
       /\ last' = [op |-> op, dev |-> d, n |-> n, err |-> o.err, active |-> d \in dm.active]

(* A node is bound that is not: dm_scan_fdt() or lists_bind_fdt().          *)
Bind(d) ==
    /\ d \notin dm.bound /\ Attached(dm, Parent[d])
    /\ \A c \in dm.bound : d \notin Ancestors(c)
    /\ Intact(dm, Subtree(d))
    /\ Returns("bind", d, -1, device_bind(dm, d))

(* uclass_get_device(), and uclass_first_device() and uclass_next_device(): *)
(* the device at a place of the uclass's list is probed.                    *)
Get(u, index) ==
    LET d == uclass_find_device(dm, u, index)
    IN  /\ d # Nobody /\ Attached(dm, d) /\ Intact(dm, Lineage(d))
        /\ Returns("get", d, -1, device_probe(dm, d))

(* Mutated: a device that requests the number is preferred.                 *)
GetByRequest(u, n) ==
    LET wants == uclass_find_device_by_seq(dm, u, n, TRUE)
        d == IF wants # Nobody THEN wants ELSE uclass_find_device_by_seq(dm, u, n, FALSE)
    IN  /\ d # Nobody /\ Attached(dm, d) /\ Intact(dm, Lineage(d))
        /\ Returns("get_by_seq", d, n, device_probe(dm, d))

(* uclass_get_device_by_seq(): the device that has the number, else one     *)
(* that requests it.                                                        *)
GetBySeq(u, n) ==
    LET has == uclass_find_device_by_seq(dm, u, n, FALSE)
        d == IF has # Nobody THEN has ELSE uclass_find_device_by_seq(dm, u, n, TRUE)
    IN  /\ d # Nobody /\ Attached(dm, d) /\ Intact(dm, Lineage(d))
        /\ Returns("get_by_seq", d, n, device_probe(dm, d))

RemoveDevice(d) ==
    /\ Attached(dm, d)
    /\ Returns("remove", d, -1, device_remove(dm, d))

Unbind(d) ==
    /\ d # Root /\ Attached(dm, d) /\ Intact(dm, Subtree(d))
    /\ Returns("unbind", d, -1, device_unbind(dm, d))

(* After dm_init(): the root device is bound and probed.                    *)
DmInit ==
    /\ dm = [bound |-> {Root}, active |-> {Root}, running |-> {Root},
             priv |-> {Root}, uclass_priv |-> {Root},
             seq |-> [d \in Devices |-> IF d = Root THEN 0 ELSE -1],
             dev_head |-> [u \in Uclasses |-> IF u = Uclass[Root] THEN <<Root>> ELSE <<>>],
             child_head |-> [d \in Devices |-> <<>>],
             stuck |-> {}, unremoved |-> {}, orphans |-> {}, dangling |-> {},
             faults |-> 0]
    /\ last = [op |-> "init", dev |-> Root, n |-> -1, err |-> FALSE, active |-> FALSE]

DmNext ==
    \/ \E d \in Devices : Bind(d) \/ RemoveDevice(d) \/ Unbind(d)
    \/ \E u \in Uclasses, i \in 1 .. Cardinality(Devices) : Get(u, i)
    \/ \E u \in Uclasses, n \in 0 .. Cardinality(Devices) : GetBySeq(u, n)

DmSpec == DmInit /\ [][DmNext]_dmVars

-----------------------------------------------------------------------------
(* The types of the core's state, and the lists of the devices: a device is *)
(* on its uclass's list exactly while it exists, and once - unless          *)
(* device_bind() of one failed in a hook, and pre_unbind() of it failed as  *)
(* well: then the list still holds a freed device, and nothing is said of   *)
(* it.  Unbinding a device never does that.                                 *)
DmTypeOK ==
    /\ dm.active \subseteq dm.bound /\ dm.bound \subseteq Devices
    /\ dm.seq \in [Devices -> -1 .. DM_MAX_SEQ]
    /\ dm.faults \in 0 .. MaxFaults
    /\ \A u \in Uclasses \ {Uclass[d] : d \in dm.dangling} :
          /\ ToSet(dm.dev_head[u]) = {d \in dm.bound : Uclass[d] = u}
          /\ IsInjective(dm.dev_head[u])

(* A device is reached only through devices that exist: the parent of a     *)
(* bound device is bound and has it on its list - unless device_bind() of   *)
(* that parent failed after its post_bind() had bound the child: the error  *)
(* path frees the parent alone.  Unbinding never does that.                 *)
TreeIntact ==
    /\ \A p \in dm.bound : ToSet(dm.child_head[p]) = {c \in dm.bound : Parent[c] = p}
    /\ {c \in dm.bound \ {Root} : Parent[c] \notin dm.bound} = dm.orphans

(* "It is not permitted to have an active child device with a non-active    *)
(* parent" (doc/driver-model/README.txt, of the removal of a device).       *)
ParentActive == \A c \in dm.active \ {Root} : Parent[c] \in dm.active

(* An active device has an active parent, a number, its data and running    *)
(* hardware - unless device_remove() of it failed half way: then it stays   *)
(* active without number and uclass data, and its parent may have been      *)
(* removed over it, because device_remove() returned what post_probe() did. *)
ActiveIsUsable ==
    \A d \in dm.active \ dm.stuck :
       /\ d # Root => Parent[d] \in dm.active
       /\ d \in dm.running \cap dm.priv \cap dm.uclass_priv
       /\ dm.seq[d] >= 0

(* A device that is not active holds no number and no data, and its         *)
(* hardware does not run - unless post_probe() failed, and device_remove(), *)
(* called to undo the probe, found the device inactive already.             *)
InactiveIsReleased ==
    \A d \in Devices \ dm.active :
       /\ d \notin dm.priv \cup dm.uclass_priv
       /\ dm.seq[d] = -1
       /\ d \in dm.running => d \in dm.unremoved

(* Two devices of a uclass never have the same number, in whatever order    *)
(* they are probed, removed, and fail to be: uclass_resolve_seq().          *)
SeqUnique ==
    \A d, e \in dm.active :
       d # e /\ Uclass[d] = Uclass[e] /\ dm.seq[d] # -1 => dm.seq[d] # dm.seq[e]

(* uclass_get_device_by_seq(n) returns an active device, and it has number  *)
(* n - or it requests n and has it not, for one of two reasons.  It was     *)
(* active before, and no device has n: it got another number when n was in  *)
(* use, or has lost its number since device_remove() of it failed half way. *)
(* Or an ancestor of the same uclass has n, which the call has probed.      *)
BySeqGetsSeq ==
    LET d == last.dev
        Has(e) == Uclass[e] = Uclass[d] /\ dm.seq[e] = last.n
    IN  last.op = "get_by_seq" /\ ~last.err =>
           /\ d \in dm.active
           /\ \/ Has(d)
              \/ /\ ReqSeq[d] = last.n
                 /\ \/ /\ last.active /\ ~\E e \in dm.bound : Has(e)
                       /\ dm.seq[d] # -1 \/ d \in dm.stuck
                    \/ ~last.active /\ \E a \in Ancestors(d) : Has(a)
=============================================================================
