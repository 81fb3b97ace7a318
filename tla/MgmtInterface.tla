--------------------------- MODULE MgmtInterface ---------------------------
(***************************************************************************)
(* The iDRAC itself in NetBox: a management interface of the device with   *)
(* its MAC, its address, and the device's out-of-band address.  The sync   *)
(* finds the interface by MAC or by the name "iDRAC", moves or creates the *)
(* address there and drops an interface it had made in vain                *)
(* (idrac/sync.py, _sync_idrac_management).                                *)
(*                                                                         *)
(* The statements of the sync are steps of their own: they run in a        *)
(* transaction that sees what others commit meanwhile (READ COMMITTED),    *)
(* and humans enter cables and addresses at any time.                      *)
(***************************************************************************)
EXTENDS Integers, FiniteSets, FiniteSetsExt

CONSTANTS
    IDrac,          \* the interface name "iDRAC"
    Admin,          \* names administrators give a management interface
    Macs, Addrs,
    Masks,          \* prefix lengths networks have
    Host,           \* /32, what an address without a mask gets
    MaxIps,         \* bound on the address records of the device
    None,
    MaxChanges,     \* bound on what humans change
    MaxFaults       \* bound on incomplete answers and failing syncs

Names == {IDrac} \cup Admin
Ids == 1..MaxIps
Prefixes == Masks \cup {Host}

ASSUME MgmtAssumption ==
    /\ IDrac \notin Admin /\ Host \notin Masks
    /\ None \notin Names \cup Macs \cup Addrs \cup Prefixes \cup Ids
    /\ None \notin [macs : SUBSET Macs, primary : Macs \cup {None},
                    cable : BOOLEAN, mgmt : BOOLEAN]
    /\ None \notin [addr : Addrs, prefix : Prefixes, on : Names]
    /\ MaxIps \in Nat /\ MaxChanges \in Nat /\ MaxFaults \in Nat

VARIABLES
    idrac,      \* the controller: its MAC (None: it tells none), address, mask
    db,         \* the device as committed: interfaces, addresses, oob_ip
    view,       \* the device as the running sync sees it
    pc,         \* the statement the sync is at; "idle" or "done" between syncs
    net,        \* what the iDRAC answered to this sync
    at,         \* the interface this sync matched
    found,      \* the address record it found, or None
    drop,       \* whether it will drop the "iDRAC" interface
    late,       \* what humans entered since it last looked
    changes, faults

vars == <<idrac, db, view, pc, net, at, found, drop, late, changes, faults>>

Iface == [macs : SUBSET Macs, primary : Macs \cup {None}, cable : BOOLEAN, mgmt : BOOLEAN]
Ip == [addr : Addrs, prefix : Prefixes, on : Names]
Device == [ifc : [Names -> Iface \cup {None}], ips : [Ids -> Ip \cup {None}],
           oob : Ids \cup {None}]
Net == [mac : Macs \cup {None}, addr : Addrs, prefix : Prefixes]

Present(d) == {n \in Names : d.ifc[n] # None}
Recorded(d) == {i \in Ids : d.ips[i] # None}

\* The records of one address with its prefix on interfaces of the device.
Copies(d, a, p) == {i \in Recorded(d) : d.ips[i].addr = a /\ d.ips[i].prefix = p}

Carries(d, n) == d.ifc[n].cable \/ \E i \in Recorded(d) : d.ips[i].on = n

\* By primary MAC, else an interface that has the MAC and no primary.
Matches(d, mac) ==
    LET holders == {n \in Present(d) : mac \in d.ifc[n].macs}
        own == {n \in holders : d.ifc[n].primary = mac}
    IN  IF own # {} THEN own ELSE {n \in holders : d.ifc[n].primary = None}

NewIface == [macs |-> {}, primary |-> None, cable |-> FALSE, mgmt |-> TRUE]

\* Mutant: an interface has one MAC, as for the ports of an adapter.
LinkedAlone(d, n, mac) ==
    LET old == IF d.ifc[n] = None THEN NewIface ELSE d.ifc[n]
        own == IF mac = None THEN old ELSE [old EXCEPT !.macs = {mac}, !.primary = mac]
    IN  [d EXCEPT !.ifc[n] = [own EXCEPT !.mgmt = TRUE]]

\* The matched interface, made if need be, with the MAC as its primary.
Linked(d, n, mac) ==
    LET old == IF d.ifc[n] = None THEN NewIface ELSE d.ifc[n]
        own == IF mac = None THEN old
               ELSE [old EXCEPT !.macs = @ \cup {mac}, !.primary = mac]
    IN  [d EXCEPT !.ifc[n] = [own EXCEPT !.mgmt = TRUE]]

WithIp(d, i, a, p, n) == [d EXCEPT !.ips[i] = [addr |-> a, prefix |-> p, on |-> n]]

\* Mutant: its addresses are left without interface.
WithoutOnly(d, n) == [d EXCEPT !.ifc[n] = None]

\* Deleting an interface takes its addresses with it, and oob_ip with them.
Without(d, n) ==
    LET gone == {i \in Recorded(d) : d.ips[i].on = n}
    IN  [d EXCEPT !.ifc[n] = None,
                  !.ips = [i \in Ids |-> IF i \in gone THEN None ELSE d.ips[i]],
                  !.oob = IF @ \in gone THEN None ELSE @]

Resting == pc \in {"idle", "done"}
Free == Ids \ (Recorded(db) \cup Recorded(view))

-----------------------------------------------------------------------------
Empty == [ifc |-> [n \in Names |-> None], ips |-> [i \in Ids |-> None], oob |-> None]

Init ==
    /\ idrac \in [mac : Macs \cup {None}, addr : Addrs, prefix : Masks]
    /\ db = Empty /\ view = Empty
    /\ pc = "idle" /\ net = idrac
    /\ at = IDrac /\ found = None /\ drop = FALSE /\ late = {}
    /\ changes = 0 /\ faults = 0

ByHuman ==
    /\ changes < MaxChanges /\ changes' = changes + 1
    /\ UNCHANGED <<net, at, found, drop, faults>>

\* The board is replaced, or the address changed.
Reconfigure ==
    /\ Resting /\ ByHuman /\ pc' = "idle"
    /\ idrac' \in [mac : Macs \cup {None}, addr : Addrs, prefix : Masks] \ {idrac}
    /\ UNCHANGED <<db, view, late>>

\* Before a sync: an interface is entered, or an address record deleted.
EnterIface(n, macs) ==
    /\ Resting /\ ByHuman /\ pc' = "idle"
    /\ db.ifc[n] = None
    /\ \E primary \in macs \cup {None} :
          db' = [db EXCEPT !.ifc[n] = [macs |-> macs, primary |-> primary,
                                       cable |-> FALSE, mgmt |-> FALSE]]
    /\ view' = db' /\ UNCHANGED <<idrac, late>>

DeleteIp(i) ==
    /\ Resting /\ ByHuman /\ pc' = "idle"
    /\ i \in Recorded(db)
    /\ db' = [db EXCEPT !.ips[i] = None, !.oob = IF @ = i THEN None ELSE @]
    /\ view' = db' /\ UNCHANGED <<idrac, late>>

\* At any time: a cable or an address on an interface others can see.
Calm == IF pc = "done" THEN "idle" ELSE pc

EnterCable(n) ==
    /\ ByHuman /\ pc' = Calm
    /\ n \in Present(db) /\ ~db.ifc[n].cable
    /\ db' = [db EXCEPT !.ifc[n].cable = TRUE]
    /\ view' = [view EXCEPT !.ifc[n].cable = TRUE]
    /\ late' = late \cup {n}
    /\ UNCHANGED idrac

EnterIp(n, a, p) ==
    /\ ByHuman /\ pc' = Calm
    /\ n \in Present(db) /\ Free # {}
    /\ db' = WithIp(db, Min(Free), a, p, n)
    /\ view' = WithIp(view, Min(Free), a, p, n)
    /\ late' = late \cup {Min(Free)}
    /\ UNCHANGED idrac

\* An answer without an address ends this part of the sync at once; one
\* without MAC or mask is used as it is.
Begin ==
    /\ Resting
    /\ \E mac \in {idrac.mac, None}, p \in {idrac.prefix, Host} :
          /\ net' = [mac |-> mac, addr |-> idrac.addr, prefix |-> p]
          /\ IF net' = idrac THEN UNCHANGED faults
             ELSE faults < MaxFaults /\ faults' = faults + 1
    /\ pc' = "match" /\ late' = {}
    /\ UNCHANGED <<idrac, db, view, at, found, drop, changes>>

Match ==
    /\ pc = "match"
    /\ at' \in IF Matches(view, net.mac) = {} THEN {IDrac} ELSE Matches(view, net.mac)
    /\ view' = Linked(view, at', net.mac)
    /\ pc' = "find"
    /\ UNCHANGED <<idrac, db, net, found, drop, late, changes, faults>>

\* Mutant: only the matched interface is searched.
FindHere ==
    /\ pc = "find"
    /\ LET C == {i \in Copies(view, net.addr, net.prefix) : view.ips[i].on = at}
       IN  found' = IF C = {} THEN None ELSE Min(C)
    /\ pc' = "assign" /\ late' = {}
    /\ UNCHANGED <<idrac, db, view, net, at, drop, changes, faults>>

\* The oldest record of the address on any interface of the device.
Find ==
    /\ pc = "find"
    /\ LET C == Copies(view, net.addr, net.prefix)
       IN  found' = IF C = {} THEN None ELSE Min(C)
    /\ pc' = "assign" /\ late' = {}
    /\ UNCHANGED <<idrac, db, view, net, at, drop, changes, faults>>

\* Mutant: the record is made anew every time.
AssignAnew ==
    /\ pc = "assign" /\ Free # {}
    /\ LET d == WithIp(view, Min(Free), net.addr, net.prefix, at)
       IN  view' = [d EXCEPT !.oob = Min(Free),
                             !.ips = [i \in Ids |-> IF i = found THEN None ELSE d.ips[i]]]
    /\ pc' = "check"
    /\ UNCHANGED <<idrac, db, net, at, found, drop, late, changes, faults>>

\* It is moved to the matched interface, or a record made there; it becomes
\* the device's out-of-band address.
Assign ==
    /\ pc = "assign"
    /\ found = None => Free # {}
    /\ LET i == IF found = None THEN Min(Free) ELSE found
           d == IF found = None THEN WithIp(view, i, net.addr, net.prefix, at)
                ELSE [view EXCEPT !.ips[i].on = at]
       IN  view' = [d EXCEPT !.oob = i]
    /\ pc' = "check"
    /\ UNCHANGED <<idrac, db, net, at, found, drop, late, changes, faults>>

\* Mutant: the leftover is dropped unasked.
CheckNothing ==
    /\ pc = "check"
    /\ drop' = (at # IDrac /\ view.ifc[IDrac] # None)
    /\ pc' = "commit" /\ late' = {}
    /\ UNCHANGED <<idrac, db, view, net, at, found, changes, faults>>

\* Mutant: the leftover is never dropped.
CheckNever ==
    /\ pc = "check" /\ drop' = FALSE
    /\ pc' = "commit" /\ late' = {}
    /\ UNCHANGED <<idrac, db, view, net, at, found, changes, faults>>

\* Is there an "iDRAC" interface besides the matched one, without data?
Check ==
    /\ pc = "check"
    /\ drop' = (at # IDrac /\ view.ifc[IDrac] # None /\ ~Carries(view, IDrac))
    /\ pc' = "commit" /\ late' = {}
    /\ UNCHANGED <<idrac, db, view, net, at, found, changes, faults>>

Commit ==
    /\ pc = "commit"
    /\ db' = IF drop THEN Without(view, IDrac) ELSE view
    /\ view' = db' /\ pc' = "done"
    /\ UNCHANGED <<idrac, net, at, found, drop, late, changes, faults>>

\* Whatever raises, here or elsewhere in the transaction, undoes all of it.
Abort ==
    /\ ~Resting /\ faults < MaxFaults /\ faults' = faults + 1
    /\ view' = db /\ pc' = "idle"
    /\ UNCHANGED <<idrac, db, net, at, found, drop, late, changes>>

SyncStep == Begin \/ Match \/ Find \/ Assign \/ Check \/ Commit

Next ==
    \/ SyncStep \/ Abort
    \/ Reconfigure
    \/ \E n \in Names, macs \in SUBSET Macs : EnterIface(n, macs)
    \/ \E i \in Ids : DeleteIp(i)
    \/ \E n \in Names : EnterCable(n)
    \/ \E n \in Names, a \in Addrs, p \in Prefixes : EnterIp(n, a, p)

Spec == Init /\ [][Next]_vars

\* The server is synced again and again, and a sync that began goes on.
FairSpec == Spec /\ WF_vars(SyncStep)

-----------------------------------------------------------------------------
\* Types, and the references of the database: an address is on an interface of
\* the device, oob_ip is one of its addresses, a primary MAC one of its MACs.
DeviceOK(d) ==
    /\ d \in Device
    /\ \A i \in Recorded(d) : d.ips[i].on \in Present(d)
    /\ d.oob # None => d.oob \in Recorded(d)
    /\ \A n \in Present(d) : d.ifc[n].primary # None => d.ifc[n].primary \in d.ifc[n].macs

TypeOK ==
    /\ idrac \in Net /\ net \in Net
    /\ DeviceOK(db) /\ DeviceOK(view)
    /\ pc \in {"idle", "match", "find", "assign", "check", "commit", "done"}
    /\ at \in Names /\ found \in Ids \cup {None} /\ drop \in BOOLEAN
    /\ late \in SUBSET (Names \cup Ids)
    /\ changes \in 0..MaxChanges /\ faults \in 0..MaxFaults

Committing == pc = "commit" /\ pc' = "done"

\* A sync takes no cable and no address from the device, whoever works on it
\* meanwhile -- save what was put on the "iDRAC" interface between the question
\* whether it carries any and its deletion (sync.py 789-797).
Kept(d, e) ==
    /\ \A i \in Recorded(d) \ late : i \in Recorded(e) /\ e.ips[i].addr = d.ips[i].addr
                                     /\ e.ips[i].prefix = d.ips[i].prefix
    /\ \A n \in Present(d) : d.ifc[n].cable /\ n \notin late =>
          n \in Present(e) /\ e.ifc[n].cable
SyncKeepsData == [][Committing => Kept(db, db')]_vars

\* Administrators' interfaces are neither deleted nor robbed of their MACs,
\* and no address stays behind on an interface the sync left (docstring of
\* _sync_idrac_management): the only address records a sync changes are
\* those of the address the iDRAC reports.
SyncKeepsOthers ==
    [][Committing =>
          /\ \A n \in Present(db) \cap Admin :
                n \in Present(db') /\ db.ifc[n].macs \subseteq db'.ifc[n].macs
          /\ \A i \in Recorded(db) \cap Recorded(db') :
                db'.ips[i] # db.ips[i] => db.ips[i].addr = net.addr]_vars

\* A sync does not record an address with its prefix a second time, unless
\* somebody else records it after the sync searched (sync.py 748-768).
NoSecondCopy ==
    [][pc = "assign" /\ pc' = "check" =>
          \A a \in Addrs, p \in Prefixes :
             Cardinality(Copies(view', a, p)) > 1 =>
                Cardinality(Copies(view', a, p)) = Cardinality(Copies(view, a, p))
                \/ Copies(view, a, p) \cap late # {}]_vars

\* After a sync that was told everything, the out-of-band address is the one
\* the iDRAC reports, on the interface with its MAC, and there is no "iDRAC"
\* interface besides that one unless it carries data (sync.py 770-797).
OneManagementInterface ==
    pc = "done" /\ net = idrac =>
        /\ db.oob # None
        /\ LET ip == db.ips[db.oob]
           IN  /\ ip.addr = idrac.addr /\ ip.prefix = idrac.prefix
               /\ idrac.mac # None => db.ifc[ip.on].primary = idrac.mac
               /\ ip.on # IDrac /\ db.ifc[IDrac] # None => Carries(db, IDrac)

\* Once iDRAC and humans leave things alone, so do the syncs -- unless two
\* interfaces are recorded with its MAC.
Claimants == {n \in Present(db) : net.mac \in db.ifc[n].macs
                                   /\ db.ifc[n].primary \in {net.mac, None}}
Quiesces == <>[][db' = db \/ Cardinality(Claimants) > 1]_vars

\* A device a sync with this answer has nothing to do on: one interface it can
\* mean, with the MAC, the oldest record of the address there and out of band,
\* and no empty "iDRAC" interface.
Settled(d, answer) ==
    LET meant == Matches(d, answer.mac)
        copies == Copies(d, answer.addr, answer.prefix)
    IN  \E n \in Present(d) :
           /\ meant = {n} \/ (meant = {} /\ n = IDrac)
           /\ d.ifc[n].primary = answer.mac \/ answer.mac = None
           /\ d.ifc[n].mgmt
           /\ copies # {} /\ d.oob = Min(copies) /\ d.ips[d.oob].on = n
           /\ n # IDrac /\ d.ifc[IDrac] # None => Carries(d, IDrac)

\* Every completed sync leaves such a device, unless two interfaces claim the
\* MAC or somebody recorded the address a second time (sync.py 715-791) ...
DoneSettles ==
    pc = "done" /\ (\A m, n \in Claimants : m = n)
                /\ (\A i, j \in Copies(db, net.addr, net.prefix) : i = j)
        => Settled(db, net)

\* ... and a sync of such a device changes nothing: not the names, not the
\* MACs, not the addresses, whatever humans do to it meanwhile, but for what
\* they put on a leftover "iDRAC" interface at the last moment.
SettledStays == [][Committing /\ Settled(db, net) /\ late = {} => db' = db]_vars

-----------------------------------------------------------------------------
(* What these rest on (MgmtInterfaceProofs).                               *)

\* The sync sees what is committed, with its own changes: new interfaces and
\* addresses, more MACs, and the reported address on another interface.
Sees ==
    /\ \A n \in Present(db) : /\ n \in Present(view)
                              /\ view.ifc[n].cable = db.ifc[n].cable
                              /\ db.ifc[n].macs \subseteq view.ifc[n].macs
    /\ \A i \in Recorded(db) : /\ i \in Recorded(view)
                               /\ view.ips[i].addr = db.ips[i].addr
                               /\ view.ips[i].prefix = db.ips[i].prefix
                               /\ view.ips[i] # db.ips[i] => db.ips[i].addr = net.addr

\* The matched interface has the reported MAC; once assigned it has the
\* out-of-band address, the reported one.
MatchedOK ==
    /\ at \in Present(view)
    /\ net.mac # None => view.ifc[at].primary = net.mac

AssignedOK ==
    /\ MatchedOK
    /\ view.oob # None
    /\ view.ips[view.oob] = [addr |-> net.addr, prefix |-> net.prefix, on |-> at]

\* What is on a leftover interface that is to be dropped has come since.
LeftoverOK ==
    IF drop THEN /\ at # IDrac
                 /\ view.ifc[IDrac].cable => IDrac \in late
                 /\ \A i \in Recorded(view) : view.ips[i].on = IDrac => i \in late
    ELSE at # IDrac /\ view.ifc[IDrac] # None => Carries(view, IDrac)

SyncInv ==
    /\ Sees
    /\ Resting => view = db
    /\ pc = "find" => MatchedOK
    /\ pc = "assign" =>
          /\ MatchedOK
          /\ IF found = None THEN Copies(view, net.addr, net.prefix) \subseteq late
             ELSE found \in Copies(view, net.addr, net.prefix)
    /\ pc = "check" => AssignedOK
    /\ pc = "commit" => AssignedOK /\ LeftoverOK /\ (drop => view.ifc[IDrac] # None)
    /\ pc = "done" => AssignedOK /\ (at # IDrac /\ view.ifc[IDrac] # None => Carries(view, IDrac))

\* The matched interface is marked as one for management; an iDRAC that tells
\* no MAC has the one named "iDRAC".
MeantInv ==
    pc \in {"find", "assign", "check", "commit", "done"} =>
        view.ifc[at].mgmt /\ (net.mac = None => at = IDrac)

\* Whom a sync with this answer would mean, when it would leave that interface
\* and the addresses of the device as they are.
Calls(d, answer, n) ==
    LET meant == Matches(d, answer.mac)
        copies == Copies(d, answer.addr, answer.prefix)
    IN  /\ n \in Present(d)
        /\ meant = {n} \/ (meant = {} /\ n = IDrac)
        /\ d.ifc[n].primary = answer.mac \/ answer.mac = None
        /\ d.ifc[n].mgmt
        /\ d.oob \in copies /\ (\A c \in copies : d.oob <= c) /\ d.ips[d.oob].on = n

\* Such a sync has changed nothing yet, and found what is there.
SettledInv ==
    ~Resting => \A n \in Names :
        Calls(db, net, n) => /\ view = db
                             /\ pc # "match" => at = n
                             /\ pc = "assign" => found = db.oob

-----------------------------------------------------------------------------
(* What the repository's own texts claim, stated as they claim it.         *)

\* CHANGELOG 0.3.5: the iDRAC address is no longer recorded twice on a device.
RecordedOnce ==
    [][pc = "assign" /\ pc' = "check" =>
          \A a \in Addrs :
             LET Of(d) == {i \in Recorded(d) : d.ips[i].addr = a}
             IN  Cardinality(Of(view')) > 1 =>
                    Cardinality(Of(view')) = Cardinality(Of(view)) \/ Of(view) \cap late # {}]_vars
=============================================================================
