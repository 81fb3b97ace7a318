------------------------- MODULE MgmtInterfaceProofs -------------------------
(* Proofs about MgmtInterface: for any MACs, addresses, names and bounds,   *)
(* what a sync leaves of the device and what it makes of it, and that it    *)
(* settles it.                                                              *)
EXTENDS MgmtInterface, FiniteSetTheorems, WellFoundedInduction, TLAPS

-----------------------------------------------------------------------------
(* Identifiers, and the assumptions one by one.                            *)

LEMMA Distinct ==
    /\ None \notin Names /\ None \notin Macs /\ None \notin Addrs
    /\ None \notin Prefixes /\ None \notin Ids /\ None \notin Iface /\ None \notin Ip
    /\ IDrac \in Names /\ IDrac \notin Admin
BY MgmtAssumption DEF Names, Iface, Ip

LEMMA Bounds == MaxIps \in Nat /\ MaxChanges \in Nat /\ MaxFaults \in Nat
BY MgmtAssumption

\* A set of numbers has a least one.
LEMMA LeastIn ==
    ASSUME NEW S \in SUBSET Nat, S # {}
    PROVE  Min(S) \in S
<1> DEFINE R == {ss \in Nat \X Nat : ss[1] < ss[2]}
<1>1. OpToRel(<, Nat) = R
  BY Zenon DEF OpToRel
<1>2. IsWellFoundedOn(R, Nat)
  BY <1>1, NatLessThanWellFounded, Zenon
<1>3. PICK x \in S : \A y \in S : <<y, x>> \notin R
  <2> HIDE DEF R
  <2> QED BY <1>2, WFMin
<1>4. ASSUME NEW y \in S PROVE x <= y
  <2>1. x \in Nat /\ y \in Nat /\ <<y, x>> \notin R
    BY <1>3
  <2>2. <<y, x>> \in Nat \X Nat /\ <<y, x>>[1] = y /\ <<y, x>>[2] = x
    BY <2>1
  <2>3. ~(y < x)
    BY <2>1, <2>2
  <2> QED BY <2>1, <2>3
<1> QED BY <1>4 DEF Min

LEMMA LeastId ==
    ASSUME NEW S \in SUBSET Ids, S # {}
    PROVE  Min(S) \in S
<1>1. S \in SUBSET Nat
  BY Bounds DEF Ids
<1> QED BY <1>1, LeastIn

-----------------------------------------------------------------------------
(* The operators on devices.                                               *)

LEMMA DeviceFields ==
    ASSUME NEW d, DeviceOK(d)
    PROVE  /\ d = [ifc |-> d.ifc, ips |-> d.ips, oob |-> d.oob]
           /\ d.ifc \in [Names -> Iface \cup {None}]
           /\ d.ips \in [Ids -> Ip \cup {None}] /\ d.oob \in Ids \cup {None}
BY DEF DeviceOK, Device

LEMMA IfaceReplaced ==
    ASSUME NEW d, DeviceOK(d), NEW n \in Names, NEW new \in Iface
    PROVE  LET e == [d EXCEPT !.ifc[n] = new]
           IN  /\ e \in Device /\ e.ips = d.ips /\ e.oob = d.oob
               /\ e.ifc[n] = new /\ \A m \in Names \ {n} : e.ifc[m] = d.ifc[m]
BY DEF DeviceOK, Device

LEMMA LinkedOK ==
    ASSUME NEW d, DeviceOK(d), NEW n \in Names, NEW mac \in Macs \cup {None},
           NEW e, e = Linked(d, n, mac)
    PROVE  /\ DeviceOK(e)
           /\ e.ips = d.ips /\ e.oob = d.oob
           /\ \A m \in Names \ {n} : e.ifc[m] = d.ifc[m]
           /\ n \in Present(e)
           /\ n \in Present(d) => /\ e.ifc[n].cable = d.ifc[n].cable
                                  /\ d.ifc[n].macs \subseteq e.ifc[n].macs
           /\ mac # None => e.ifc[n].primary = mac
<1> DEFINE old == IF d.ifc[n] = None THEN NewIface ELSE d.ifc[n]
           own == IF mac = None THEN old
                  ELSE [old EXCEPT !.macs = @ \cup {mac}, !.primary = mac]
           new == [own EXCEPT !.mgmt = TRUE]
<1>1. e = [d EXCEPT !.ifc[n] = new]
  BY DEF Linked
<1>2. old \in Iface /\ (old.primary # None => old.primary \in old.macs)
  BY Distinct DEF DeviceOK, Device, Present, NewIface, Iface
<1>3. own \in Iface /\ (own.primary # None => own.primary \in own.macs)
      /\ own.cable = old.cable /\ old.macs \subseteq own.macs
      /\ (mac # None => own.primary = mac)
  <2> HIDE DEF old
  <2>1. CASE mac = None
    BY <1>2, <2>1
  <2>2. CASE mac # None
    <3>1. own = [old EXCEPT !.macs = @ \cup {mac}, !.primary = mac]
      BY <2>2
    <3> QED BY <1>2, <2>2, <3>1 DEF Iface
  <2> QED BY <2>1, <2>2
<1>4. new \in Iface /\ (new.primary # None => new.primary \in new.macs)
      /\ new.cable = old.cable /\ old.macs \subseteq new.macs
      /\ (mac # None => new.primary = mac)
  <2> HIDE DEF old, own
  <2> QED BY <1>3 DEF Iface
<1> HIDE DEF own, new
<1>5. /\ e \in Device /\ e.ips = d.ips /\ e.oob = d.oob
      /\ e.ifc[n] = new /\ \A m \in Names \ {n} : e.ifc[m] = d.ifc[m]
  BY <1>1, <1>4 DEF DeviceOK, Device
<1>6. Present(e) = Present(d) \cup {n}
  BY <1>4, <1>5, Distinct DEF Present
<1>7. Recorded(e) = Recorded(d)
  BY <1>5 DEF Recorded
<1>8. DeviceOK(e)
  BY <1>4, <1>5, <1>6, <1>7 DEF DeviceOK, Present
<1> QED BY <1>4, <1>5, <1>6, <1>8 DEF Present

LEMMA WithIpOK ==
    ASSUME NEW d, DeviceOK(d), NEW i \in Ids, NEW a \in Addrs, NEW p \in Prefixes,
           NEW n \in Present(d), NEW e, e = WithIp(d, i, a, p, n)
    PROVE  /\ DeviceOK(e)
           /\ e.ifc = d.ifc /\ e.oob = d.oob
           /\ e.ips[i] = [addr |-> a, prefix |-> p, on |-> n]
           /\ \A k \in Ids \ {i} : e.ips[k] = d.ips[k]
           /\ Recorded(e) = Recorded(d) \cup {i}
<1>1. n \in Names
  BY DEF Present
<1>2. [addr |-> a, prefix |-> p, on |-> n] \in Ip
  BY <1>1 DEF Ip
<1>3. /\ e \in Device /\ e.ifc = d.ifc /\ e.oob = d.oob
      /\ e.ips[i] = [addr |-> a, prefix |-> p, on |-> n]
      /\ \A k \in Ids \ {i} : e.ips[k] = d.ips[k]
  BY <1>2 DEF DeviceOK, Device, WithIp
<1>4. Recorded(e) = Recorded(d) \cup {i} /\ Present(e) = Present(d)
  BY <1>2, <1>3, Distinct DEF Recorded, Present
<1>5. DeviceOK(e)
  <2>1. \A k \in Recorded(e) : e.ips[k].on \in Present(e)
    BY <1>3, <1>4 DEF DeviceOK, Recorded
  <2>2. \A m \in Present(e) : e.ifc[m].primary # None => e.ifc[m].primary \in e.ifc[m].macs
    BY <1>3, <1>4 DEF DeviceOK
  <2> QED BY <1>3, <1>4, <2>1, <2>2 DEF DeviceOK
<1> QED BY <1>3, <1>4, <1>5

MovedTo(d, i, n) == [d EXCEPT !.ips[i].on = n]

LEMMA MovedOK ==
    ASSUME NEW d, DeviceOK(d), NEW i \in Recorded(d), NEW n \in Present(d),
           NEW e, e = MovedTo(d, i, n)
    PROVE  /\ DeviceOK(e)
           /\ e.ifc = d.ifc /\ e.oob = d.oob
           /\ e.ips[i] = [addr |-> d.ips[i].addr, prefix |-> d.ips[i].prefix, on |-> n]
           /\ \A k \in Ids \ {i} : e.ips[k] = d.ips[k]
           /\ Recorded(e) = Recorded(d)
<1>1. n \in Names /\ i \in Ids /\ d.ips[i] \in Ip
  BY DEF Present, Recorded, DeviceOK, Device
<1> DEFINE new == [addr |-> d.ips[i].addr, prefix |-> d.ips[i].prefix, on |-> n]
<1>2. new \in Ip /\ [d.ips[i] EXCEPT !.on = n] = new
  BY <1>1 DEF Ip
<1>3. e = [d EXCEPT !.ips[i] = new]
  BY <1>2 DEF MovedTo
<1> HIDE DEF new
<1>4. /\ e \in Device /\ e.ifc = d.ifc /\ e.oob = d.oob /\ e.ips[i] = new
      /\ \A k \in Ids \ {i} : e.ips[k] = d.ips[k]
  BY <1>1, <1>2, <1>3 DEF DeviceOK, Device
<1>5. Recorded(e) = Recorded(d) /\ Present(e) = Present(d)
  BY <1>1, <1>2, <1>4, Distinct DEF Recorded, Present
<1>6. new.on = n
  BY DEF new
<1>7. DeviceOK(e)
  <2>1. \A k \in Recorded(e) : e.ips[k].on \in Present(e)
    BY <1>4, <1>5, <1>6 DEF DeviceOK, Recorded
  <2>2. \A m \in Present(e) : e.ifc[m].primary # None => e.ifc[m].primary \in e.ifc[m].macs
    BY <1>4, <1>5 DEF DeviceOK
  <2> QED BY <1>4, <1>5, <2>1, <2>2 DEF DeviceOK
<1> QED BY <1>4, <1>5, <1>7 DEF new

OutOfBand(d, i) == [d EXCEPT !.oob = i]

LEMMA OutOfBandOK ==
    ASSUME NEW d, DeviceOK(d), NEW i \in Recorded(d), NEW e, e = OutOfBand(d, i)
    PROVE  /\ DeviceOK(e)
           /\ e.ifc = d.ifc /\ e.ips = d.ips /\ e.oob = i
<1>1. i \in Ids
  BY DEF Recorded
<1>2. e \in Device /\ e.ifc = d.ifc /\ e.ips = d.ips /\ e.oob = i
  BY <1>1 DEF OutOfBand, DeviceOK, Device
<1>3. Recorded(e) = Recorded(d) /\ Present(e) = Present(d)
  BY <1>2 DEF Recorded, Present
<1> QED BY <1>2, <1>3 DEF DeviceOK

Cabled(d, n) == [d EXCEPT !.ifc[n].cable = TRUE]

LEMMA CabledOK ==
    ASSUME NEW d, DeviceOK(d), NEW n \in Present(d), NEW e, e = Cabled(d, n)
    PROVE  /\ DeviceOK(e)
           /\ e.ips = d.ips /\ e.oob = d.oob
           /\ e.ifc[n].cable /\ e.ifc[n].macs = d.ifc[n].macs
           /\ e.ifc[n].primary = d.ifc[n].primary
           /\ \A m \in Names \ {n} : e.ifc[m] = d.ifc[m]
           /\ Present(e) = Present(d)
<1>1. n \in Names /\ d.ifc[n] \in Iface
  BY DEF Present, DeviceOK, Device
<1> DEFINE new == [d.ifc[n] EXCEPT !.cable = TRUE]
<1>2. /\ new \in Iface /\ new.cable = TRUE /\ new.macs = d.ifc[n].macs
      /\ new.primary = d.ifc[n].primary
  BY <1>1 DEF Iface
<1>3. e = [d EXCEPT !.ifc[n] = new]
  BY DEF Cabled
<1> HIDE DEF new
<1>4. /\ e \in Device /\ e.ips = d.ips /\ e.oob = d.oob /\ e.ifc[n] = new
      /\ \A m \in Names \ {n} : e.ifc[m] = d.ifc[m]
  <2> DEFINE f == [d EXCEPT !.ifc[n] = new]
  <2>1. /\ f \in Device /\ f.ips = d.ips /\ f.oob = d.oob /\ f.ifc[n] = new
        /\ \A m \in Names \ {n} : f.ifc[m] = d.ifc[m]
    BY <1>1, <1>2, IfaceReplaced
  <2>2. e = f
    BY <1>3
  <2> HIDE DEF f
  <2> QED BY <2>1, <2>2, Zenon
<1>5. Recorded(e) = Recorded(d) /\ Present(e) = Present(d)
  BY <1>1, <1>2, <1>4, Distinct DEF Recorded, Present
<1>6. DeviceOK(e)
  <2>1. \A m \in Present(e) : e.ifc[m].primary # None => e.ifc[m].primary \in e.ifc[m].macs
    BY <1>2, <1>4, <1>5 DEF DeviceOK, Present
  <2> QED BY <1>4, <1>5, <2>1 DEF DeviceOK
<1> QED BY <1>2, <1>4, <1>5, <1>6

LEMMA WithoutOK ==
    ASSUME NEW d, DeviceOK(d), NEW n \in Names, NEW e, e = Without(d, n)
    PROVE  /\ DeviceOK(e)
           /\ e.ifc[n] = None /\ \A m \in Names \ {n} : e.ifc[m] = d.ifc[m]
           /\ \A i \in Recorded(d) : d.ips[i].on # n => e.ips[i] = d.ips[i]
           /\ Recorded(e) = {i \in Recorded(d) : d.ips[i].on # n}
           /\ d.oob # None /\ d.ips[d.oob].on # n => e.oob = d.oob
<1> DEFINE gone == {i \in Recorded(d) : d.ips[i].on = n}
<1>1. e = [d EXCEPT !.ifc[n] = None,
                    !.ips = [i \in Ids |-> IF i \in gone THEN None ELSE d.ips[i]],
                    !.oob = IF d.oob \in gone THEN None ELSE d.oob]
  BY DEF Without
<1>2. gone \subseteq Ids
  BY DEF Recorded
<1>3. [i \in Ids |-> IF i \in gone THEN None ELSE d.ips[i]] \in [Ids -> Ip \cup {None}]
  BY DEF DeviceOK, Device
<1> HIDE DEF gone
<1>4. /\ e \in Device
      /\ e.ifc[n] = None /\ \A m \in Names \ {n} : e.ifc[m] = d.ifc[m]
      /\ e.ips = [i \in Ids |-> IF i \in gone THEN None ELSE d.ips[i]]
      /\ e.oob = IF d.oob \in gone THEN None ELSE d.oob
  <2>1. e = [ifc |-> [d.ifc EXCEPT ![n] = None],
             ips |-> [i \in Ids |-> IF i \in gone THEN None ELSE d.ips[i]],
             oob |-> IF d.oob \in gone THEN None ELSE d.oob]
    BY <1>1, DeviceFields
  <2>2. [d.ifc EXCEPT ![n] = None] \in [Names -> Iface \cup {None}]
    BY DeviceFields
  <2> QED BY <1>3, <2>1, <2>2, DeviceFields DEF Device
<1>5. Recorded(e) = {i \in Recorded(d) : d.ips[i].on # n}
  BY <1>4 DEF Recorded, gone
<1>6. \A i \in Recorded(d) : d.ips[i].on # n => e.ips[i] = d.ips[i]
  BY <1>4 DEF Recorded, gone
<1>7. Present(e) = Present(d) \ {n}
  BY <1>4 DEF Present
<1>8. e.oob # None => e.oob \in Recorded(e)
  BY <1>4, <1>5, Distinct DEF DeviceOK, gone
<1>9. DeviceOK(e)
  <2>1. \A i \in Recorded(e) : e.ips[i].on \in Present(e)
    BY <1>5, <1>6, <1>7 DEF DeviceOK
  <2>2. \A m \in Present(e) : e.ifc[m].primary # None => e.ifc[m].primary \in e.ifc[m].macs
    BY <1>4, <1>7 DEF DeviceOK, Present
  <2> QED BY <1>4, <1>8, <2>1, <2>2 DEF DeviceOK
<1>10. d.oob # None /\ d.ips[d.oob].on # n => e.oob = d.oob
  BY <1>4 DEF gone
<1> QED BY <1>4, <1>5, <1>6, <1>9, <1>10
-----------------------------------------------------------------------------
(* Inv is inductive.                                                       *)

Inv == TypeOK /\ SyncInv

LEMMA EmptyOK == DeviceOK(Empty)
<1>1. Empty \in Device
  BY DEF Empty, Device
<1>2. Present(Empty) = {} /\ Recorded(Empty) = {}
  BY DEF Empty, Present, Recorded
<1> QED BY <1>1, <1>2 DEF DeviceOK, Empty

LEMMA InitInv == Init => Inv
<1> SUFFICES ASSUME Init PROVE Inv
  OBVIOUS
<1>1. TypeOK
  <2>1. idrac \in Net /\ net \in Net
    BY DEF Init, Net, Prefixes
  <2>2. DeviceOK(db) /\ DeviceOK(view)
    BY EmptyOK DEF Init
  <2>3. changes \in 0..MaxChanges /\ faults \in 0..MaxFaults
    BY Bounds DEF Init
  <2> QED BY <2>1, <2>2, <2>3, Distinct DEF Init, TypeOK
<1>2. Present(db) = {} /\ Recorded(db) = {}
  BY DEF Init, Empty, Present, Recorded
<1> QED BY <1>1, <1>2 DEF Init, Inv, SyncInv, Sees, Resting

\* Between syncs any change of the device preserves Inv.
LEMMA RestingInv ==
    ASSUME Inv, ByHuman, pc' = "idle", late' = late, idrac' \in Net,
           DeviceOK(db'), view' = db'
    PROVE  Inv'
<1>1. TypeOK'
  BY Bounds DEF Inv, TypeOK, ByHuman
<1>2. Sees'
  BY <1>1 DEF TypeOK, Sees
<1> QED BY <1>1, <1>2 DEF Inv, SyncInv, Resting

LEMMA ReconfigureInv == Inv /\ Reconfigure => Inv'
<1> SUFFICES ASSUME Inv, Reconfigure PROVE Inv'
  OBVIOUS
<1>1. DeviceOK(db') /\ view' = db'
  BY DEF Reconfigure, Inv, TypeOK, SyncInv
<1>2. idrac' \in Net
  BY DEF Reconfigure, Net, Prefixes
<1> QED BY <1>1, <1>2, RestingInv DEF Reconfigure

LEMMA EnterIfaceInv ==
    ASSUME Inv, NEW n \in Names, NEW macs \in SUBSET Macs, EnterIface(n, macs)
    PROVE  Inv'
<1>1. PICK primary \in macs \cup {None} :
         db' = [db EXCEPT !.ifc[n] = [macs |-> macs, primary |-> primary,
                                      cable |-> FALSE, mgmt |-> FALSE]]
  BY DEF EnterIface
<1> DEFINE new == [macs |-> macs, primary |-> primary, cable |-> FALSE, mgmt |-> FALSE]
<1>2. new \in Iface /\ (new.primary # None => new.primary \in new.macs)
  BY DEF Iface
<1>3. DeviceOK(db)
  BY DEF Inv, TypeOK
<1> HIDE DEF new
<1>4. /\ db' \in Device /\ db'.ips = db.ips /\ db'.oob = db.oob
      /\ db'.ifc[n] = new /\ \A m \in Names \ {n} : db'.ifc[m] = db.ifc[m]
  <2> DEFINE f == [db EXCEPT !.ifc[n] = new]
  <2>1. /\ f \in Device /\ f.ips = db.ips /\ f.oob = db.oob /\ f.ifc[n] = new
        /\ \A m \in Names \ {n} : f.ifc[m] = db.ifc[m]
    BY <1>2, <1>3, IfaceReplaced
  <2>2. db' = f
    BY <1>1 DEF new
  <2> HIDE DEF f
  <2> QED BY <2>1, <2>2, Zenon
<1>5. Present(db') = Present(db) \cup {n} /\ Recorded(db') = Recorded(db)
  BY <1>2, <1>4, Distinct DEF Present, Recorded
<1>6. DeviceOK(db')
  BY <1>2, <1>3, <1>4, <1>5 DEF DeviceOK, Present
<1>7. idrac' \in Net
  BY DEF EnterIface, Inv, TypeOK
<1> QED BY <1>6, <1>7, RestingInv DEF EnterIface

LEMMA DeleteIpInv ==
    ASSUME Inv, NEW i \in Ids, DeleteIp(i)
    PROVE  Inv'
<1>1. DeviceOK(db) /\ i \in Recorded(db)
  BY DEF Inv, TypeOK, DeleteIp
<1>2. db' = [db EXCEPT !.ips[i] = None, !.oob = IF db.oob = i THEN None ELSE db.oob]
  BY DEF DeleteIp
<1>3. /\ db' \in Device /\ db'.ifc = db.ifc
      /\ db'.ips[i] = None /\ \A k \in Ids \ {i} : db'.ips[k] = db.ips[k]
      /\ db'.oob = IF db.oob = i THEN None ELSE db.oob
  BY <1>1, <1>2 DEF DeviceOK, Device
<1>4. Present(db') = Present(db) /\ Recorded(db') = Recorded(db) \ {i}
  BY <1>3 DEF Present, Recorded
<1>5. DeviceOK(db')
  <2>1. \A k \in Recorded(db') : db'.ips[k].on \in Present(db')
    BY <1>1, <1>3, <1>4 DEF DeviceOK, Recorded
  <2>2. \A m \in Present(db') : db'.ifc[m].primary # None => db'.ifc[m].primary \in db'.ifc[m].macs
    BY <1>1, <1>3, <1>4 DEF DeviceOK
  <2>3. db'.oob # None => db'.oob \in Recorded(db')
    BY <1>1, <1>3, <1>4 DEF DeviceOK
  <2> QED BY <1>3, <2>1, <2>2, <2>3 DEF DeviceOK
<1>6. idrac' \in Net
  BY DEF DeleteIp, Inv, TypeOK
<1> QED BY <1>5, <1>6, RestingInv DEF DeleteIp

LEMMA EnterCableInv ==
    ASSUME Inv, NEW n \in Names, EnterCable(n)
    PROVE  Inv'
<1>1. DeviceOK(db) /\ DeviceOK(view) /\ Sees /\ (Resting => view = db)
  BY DEF Inv, TypeOK, SyncInv
<1>2. n \in Present(db) /\ n \in Present(view)
  BY <1>1 DEF EnterCable, Sees
<1>12. db' = Cabled(db, n) /\ view' = Cabled(view, n)
  BY DEF EnterCable, Cabled
<1>3. /\ DeviceOK(db') /\ db'.ips = db.ips /\ db'.oob = db.oob
      /\ db'.ifc[n].cable /\ db'.ifc[n].macs = db.ifc[n].macs
      /\ \A m \in Names \ {n} : db'.ifc[m] = db.ifc[m]
      /\ Present(db') = Present(db)
  BY <1>1, <1>2, <1>12, CabledOK
<1>4. /\ DeviceOK(view') /\ view'.ips = view.ips /\ view'.oob = view.oob
      /\ view'.ifc[n].cable /\ view'.ifc[n].macs = view.ifc[n].macs
      /\ view'.ifc[n].primary = view.ifc[n].primary
      /\ \A m \in Names \ {n} : view'.ifc[m] = view.ifc[m]
      /\ Present(view') = Present(view)
  BY <1>1, <1>2, <1>12, CabledOK
<1>5. /\ UNCHANGED <<idrac, net, at, found, drop, faults>> /\ late' = late \cup {n}
      /\ pc' = (IF pc = "done" THEN "idle" ELSE pc) /\ changes' = changes + 1
      /\ changes < MaxChanges
  BY DEF EnterCable, ByHuman, Calm
<1>6. TypeOK'
  BY <1>3, <1>4, <1>5, Bounds DEF Inv, TypeOK
<1>7. Sees'
  <2>3. n \in Names /\ db'.ifc[n] \in Iface /\ view'.ifc[n] \in Iface
    BY <1>2, <1>3, <1>4, DeviceFields DEF Present
  <2>4. view'.ifc[n].cable = db'.ifc[n].cable
    BY <1>3, <1>4, <2>3 DEF Iface
  <2>1. \A m \in Present(db') : /\ m \in Present(view')
                                /\ view'.ifc[m].cable = db'.ifc[m].cable
                                /\ db'.ifc[m].macs \subseteq view'.ifc[m].macs
    BY <1>1, <1>3, <1>4, <2>4 DEF Sees, Present
  <2>2. Recorded(db') = Recorded(db) /\ Recorded(view') = Recorded(view)
    BY <1>3, <1>4 DEF Recorded
  <2> QED BY <1>1, <1>3, <1>4, <1>5, <2>1, <2>2 DEF Sees
<1>8. Resting' => view' = db'
  BY <1>1, <1>5 DEF EnterCable, Resting
<1>9. MatchedOK => MatchedOK'
  BY <1>4, <1>5 DEF MatchedOK, Present
<1>10. AssignedOK => AssignedOK'
  BY <1>4, <1>5, <1>9 DEF AssignedOK
<1>11. Recorded(view') = Recorded(view) /\ view'.ips = view.ips
  BY <1>4 DEF Recorded
<1>13. \A a, p : Copies(view', a, p) = Copies(view, a, p)
  BY <1>11 DEF Copies
<1>14. LeftoverOK => LeftoverOK'
  <2>1. CASE drop
    BY <1>4, <1>5, <1>11, <2>1, Distinct DEF LeftoverOK
  <2>2. CASE ~drop
    <3>1. view'.ifc[IDrac] # None => view.ifc[IDrac] # None
      BY <1>4, Distinct DEF Present
    <3>2. Carries(view, IDrac) => Carries(view', IDrac)
      BY <1>4, <1>11, Distinct DEF Carries
    <3> QED BY <1>5, <2>2, <3>1, <3>2 DEF LeftoverOK
  <2> QED BY <2>1, <2>2
<1>17. drop /\ view.ifc[IDrac] # None => view'.ifc[IDrac] # None
  BY <1>4, Distinct DEF Present
<1>16. SyncInv'
  <2>1. pc' = "find" => MatchedOK'
    BY <1>5, <1>9 DEF Inv, SyncInv
  <2>2. pc' = "assign" =>
          /\ MatchedOK'
          /\ IF found' = None THEN Copies(view', net'.addr, net'.prefix) \subseteq late'
             ELSE found' \in Copies(view', net'.addr, net'.prefix)
    BY <1>5, <1>9, <1>13 DEF Inv, SyncInv
  <2>3. pc' = "check" => AssignedOK'
    BY <1>5, <1>10 DEF Inv, SyncInv
  <2>4. pc' = "commit" => AssignedOK' /\ LeftoverOK' /\ (drop' => view'.ifc[IDrac] # None)
    BY <1>5, <1>10, <1>14, <1>17 DEF Inv, SyncInv
  <2>5. pc' # "done"
    BY <1>5
  <2> QED BY <1>7, <1>8, <2>1, <2>2, <2>3, <2>4, <2>5 DEF SyncInv
<1> QED BY <1>6, <1>16 DEF Inv

LEMMA EnterIpInv ==
    ASSUME Inv, NEW n \in Names, NEW a \in Addrs, NEW p \in Prefixes, EnterIp(n, a, p)
    PROVE  Inv'
<1> DEFINE i == Min(Free)
<1>1. DeviceOK(db) /\ DeviceOK(view) /\ Sees /\ (Resting => view = db)
  BY DEF Inv, TypeOK, SyncInv
<1>2. n \in Present(db) /\ n \in Present(view)
  BY <1>1 DEF EnterIp, Sees
<1>3. i \in Ids /\ i \notin Recorded(db) /\ i \notin Recorded(view)
  BY LeastId DEF EnterIp, Free
<1>4. db' = WithIp(db, i, a, p, n) /\ view' = WithIp(view, i, a, p, n)
  BY DEF EnterIp
<1>5. /\ UNCHANGED <<idrac, net, at, found, drop, faults>> /\ late' = late \cup {i}
      /\ pc' = (IF pc = "done" THEN "idle" ELSE pc) /\ changes' = changes + 1
      /\ changes < MaxChanges
  BY DEF EnterIp, ByHuman, Calm
<1> HIDE DEF i
<1>6. /\ DeviceOK(db') /\ db'.ifc = db.ifc
      /\ db'.ips[i] = [addr |-> a, prefix |-> p, on |-> n]
      /\ \A k \in Ids \ {i} : db'.ips[k] = db.ips[k]
      /\ Recorded(db') = Recorded(db) \cup {i}
  BY <1>1, <1>2, <1>3, <1>4, WithIpOK
<1>7. /\ DeviceOK(view') /\ view'.ifc = view.ifc /\ view'.oob = view.oob
      /\ view'.ips[i] = [addr |-> a, prefix |-> p, on |-> n]
      /\ \A k \in Ids \ {i} : view'.ips[k] = view.ips[k]
      /\ Recorded(view') = Recorded(view) \cup {i}
  BY <1>1, <1>2, <1>3, <1>4, WithIpOK
<1>8. TypeOK'
  BY <1>3, <1>5, <1>6, <1>7, Bounds DEF Inv, TypeOK
<1>9. Present(db') = Present(db) /\ Present(view') = Present(view)
  BY <1>6, <1>7 DEF Present
<1>10. Recorded(db) \subseteq Ids \ {i} /\ Recorded(view) \subseteq Ids \ {i}
  BY <1>3 DEF Recorded
<1>11. Sees'
  <2>1. \A k \in Recorded(db') :
           /\ k \in Recorded(view')
           /\ view'.ips[k].addr = db'.ips[k].addr /\ view'.ips[k].prefix = db'.ips[k].prefix
           /\ view'.ips[k] # db'.ips[k] => db'.ips[k].addr = net'.addr
    BY <1>1, <1>5, <1>6, <1>7, <1>10 DEF Sees
  <2> QED BY <1>1, <1>6, <1>7, <1>9, <2>1 DEF Sees
<1>12. Resting' => view' = db'
  BY <1>1, <1>4, <1>5 DEF Resting
<1>13. MatchedOK => MatchedOK'
  BY <1>5, <1>7, <1>9 DEF MatchedOK
<1>14. AssignedOK => AssignedOK'
  <2> SUFFICES ASSUME AssignedOK PROVE AssignedOK'
    OBVIOUS
  <2>1. view.oob \in Ids \ {i}
    BY <1>1, <1>10 DEF DeviceOK, AssignedOK
  <2> QED BY <1>5, <1>7, <1>13, <2>1 DEF AssignedOK
<1>15. /\ Copies(view', net.addr, net.prefix) \subseteq Copies(view, net.addr, net.prefix) \cup {i}
       /\ Copies(view, net.addr, net.prefix) \subseteq Copies(view', net.addr, net.prefix)
  BY <1>7, <1>10 DEF Copies
<1>16. LeftoverOK => LeftoverOK'
  <2>1. CASE drop
    BY <1>5, <1>7, <1>10, <2>1 DEF LeftoverOK
  <2>2. CASE ~drop
    <3>1. Carries(view, IDrac) => Carries(view', IDrac)
      BY <1>7, <1>10 DEF Carries
    <3> QED BY <1>5, <1>7, <2>2, <3>1 DEF LeftoverOK
  <2> QED BY <2>1, <2>2
<1>17. SyncInv'
  <2>1. pc' = "find" => MatchedOK'
    BY <1>5, <1>13 DEF Inv, SyncInv
  <2>2. pc' = "assign" =>
          /\ MatchedOK'
          /\ IF found' = None THEN Copies(view', net'.addr, net'.prefix) \subseteq late'
             ELSE found' \in Copies(view', net'.addr, net'.prefix)
    BY <1>5, <1>13, <1>15 DEF Inv, SyncInv
  <2>3. pc' = "check" => AssignedOK'
    BY <1>5, <1>14 DEF Inv, SyncInv
  <2>4. pc' = "commit" => AssignedOK' /\ LeftoverOK' /\ (drop' => view'.ifc[IDrac] # None)
    BY <1>5, <1>7, <1>14, <1>16 DEF Inv, SyncInv
  <2>5. pc' # "done"
    BY <1>5
  <2> QED BY <1>11, <1>12, <2>1, <2>2, <2>3, <2>4, <2>5 DEF SyncInv
<1> QED BY <1>8, <1>17 DEF Inv

LEMMA BeginInv == Inv /\ Begin => Inv'
<1> SUFFICES ASSUME Inv, Begin PROVE Inv'
  OBVIOUS
<1>1. view = db /\ UNCHANGED <<idrac, db, view, at, found, drop, changes>>
      /\ pc' = "match" /\ late' = {}
  BY DEF Begin, Inv, SyncInv
<1>2. net' \in Net
  BY Distinct DEF Begin, Inv, TypeOK, Net, Prefixes
<1>3. faults' \in 0..MaxFaults
  BY Bounds DEF Begin, Inv, TypeOK
<1>4. TypeOK'
  BY <1>1, <1>2, <1>3 DEF Inv, TypeOK
<1>5. Sees'
  BY <1>1 DEF Sees, Present, Recorded
<1> QED BY <1>1, <1>4, <1>5 DEF Inv, SyncInv, Resting

LEMMA MatchInv == Inv /\ Match => Inv'
<1> SUFFICES ASSUME Inv, Match PROVE Inv'
  OBVIOUS
<1>1. /\ view' = Linked(view, at', net.mac) /\ pc' = "find"
      /\ UNCHANGED <<idrac, db, net, found, drop, late, changes, faults>>
  BY DEF Match
<1>2. at' \in Names
  BY Distinct DEF Match, Matches, Present
<1>3. net.mac \in Macs \cup {None} /\ DeviceOK(view) /\ Sees
  BY DEF Inv, TypeOK, Net, SyncInv
<1>4. /\ DeviceOK(view') /\ view'.ips = view.ips /\ view'.oob = view.oob
      /\ \A m \in Names \ {at'} : view'.ifc[m] = view.ifc[m]
      /\ at' \in Present(view')
      /\ at' \in Present(view) => /\ view'.ifc[at'].cable = view.ifc[at'].cable
                                  /\ view.ifc[at'].macs \subseteq view'.ifc[at'].macs
      /\ net.mac # None => view'.ifc[at'].primary = net.mac
  BY <1>1, <1>2, <1>3, LinkedOK
<1>5. TypeOK'
  BY <1>1, <1>2, <1>4 DEF Inv, TypeOK
<1>6. Sees'
  <2>1. \A m \in Present(db) : /\ m \in Present(view')
                               /\ view'.ifc[m].cable = db.ifc[m].cable
                               /\ db.ifc[m].macs \subseteq view'.ifc[m].macs
    BY <1>3, <1>4 DEF Sees, Present
  <2>2. Recorded(view') = Recorded(view)
    BY <1>4 DEF Recorded
  <2> QED BY <1>1, <1>3, <1>4, <2>1, <2>2 DEF Sees, Present, Recorded
<1>7. MatchedOK'
  BY <1>1, <1>4 DEF MatchedOK
<1> QED BY <1>1, <1>5, <1>6, <1>7 DEF Inv, SyncInv, Resting

LEMMA FindInv == Inv /\ Find => Inv'
<1> SUFFICES ASSUME Inv, Find PROVE Inv'
  OBVIOUS
<1> DEFINE C == Copies(view, net.addr, net.prefix)
<1>1. /\ UNCHANGED <<idrac, db, view, net, at, drop, changes, faults>>
      /\ pc = "find" /\ pc' = "assign" /\ late' = {}
      /\ found' = IF C = {} THEN None ELSE Min(C)
  BY DEF Find
<1>2. C \subseteq Ids
  BY DEF Copies, Recorded
<1>3. IF found' = None THEN C = {} ELSE found' \in C
  BY <1>1, <1>2, LeastId, Distinct
<1>4. found' \in Ids \cup {None}
  BY <1>2, <1>3
<1>5. C' = C
  BY <1>1 DEF Copies, Recorded
<1> HIDE DEF C
<1>6. TypeOK'
  BY <1>1, <1>4 DEF Inv, TypeOK
<1>7. MatchedOK' /\ Sees'
  BY <1>1 DEF Inv, SyncInv, MatchedOK, Sees, Present, Recorded
<1>8. IF found' = None THEN C' \subseteq late' ELSE found' \in C'
  BY <1>3, <1>5
<1> QED BY <1>1, <1>6, <1>7, <1>8 DEF C, Inv, SyncInv, Resting

\* What the sync makes of the device when it assigns the address.
LEMMA AssignStep ==
    ASSUME Inv, Assign
    PROVE  /\ DeviceOK(view') /\ view'.ifc = view.ifc
           /\ view'.oob \in Ids
           /\ view'.ips[view'.oob] = [addr |-> net.addr, prefix |-> net.prefix, on |-> at]
           /\ \A k \in Ids \ {view'.oob} : view'.ips[k] = view.ips[k]
           /\ Recorded(view') = Recorded(view) \cup {view'.oob}
           /\ IF found = None THEN view'.oob \notin Recorded(view) \cup Recorded(db)
              ELSE view'.oob = found /\ found \in Copies(view, net.addr, net.prefix)
<1> DEFINE i == IF found = None THEN Min(Free) ELSE found
           d == IF found = None THEN WithIp(view, i, net.addr, net.prefix, at)
                ELSE MovedTo(view, i, at)
<1>1. view' = OutOfBand(d, i)
  BY DEF Assign, OutOfBand, MovedTo
<1>2. DeviceOK(view) /\ at \in Present(view) /\ net.addr \in Addrs /\ net.prefix \in Prefixes
  BY DEF Assign, Inv, TypeOK, Net, SyncInv, MatchedOK
<1>3. IF found = None THEN i \in Ids /\ i \notin Recorded(view) \cup Recorded(db)
      ELSE i = found /\ found \in Copies(view, net.addr, net.prefix)
  BY LeastId DEF Assign, Free, Inv, SyncInv
<1>4. /\ DeviceOK(d) /\ d.ifc = view.ifc /\ i \in Ids
      /\ d.ips[i] = [addr |-> net.addr, prefix |-> net.prefix, on |-> at]
      /\ \A k \in Ids \ {i} : d.ips[k] = view.ips[k]
      /\ Recorded(d) = Recorded(view) \cup {i}
  <2> HIDE DEF i
  <2>1. CASE found = None
    <3>1. d = WithIp(view, i, net.addr, net.prefix, at)
      BY <2>1
    <3> HIDE DEF d
    <3> QED BY <1>2, <1>3, <2>1, <3>1, WithIpOK
  <2>2. CASE found # None
    <3>1. d = MovedTo(view, i, at)
      BY <2>2
    <3>2. i \in Recorded(view) /\ i \in Ids
          /\ view.ips[i].addr = net.addr /\ view.ips[i].prefix = net.prefix
      BY <1>3, <2>2 DEF Copies, Recorded
    <3> HIDE DEF d
    <3> QED BY <1>2, <3>1, <3>2, MovedOK
  <2> QED BY <2>1, <2>2
<1> HIDE DEF i, d
<1>5. /\ DeviceOK(view') /\ view'.ifc = d.ifc /\ view'.ips = d.ips /\ view'.oob = i
  BY <1>1, <1>4, OutOfBandOK
<1>6. Recorded(view') = Recorded(d)
  BY <1>5 DEF Recorded
<1> QED BY <1>3, <1>4, <1>5, <1>6

LEMMA AssignInv == Inv /\ Assign => Inv'
<1> SUFFICES ASSUME Inv, Assign PROVE Inv'
  OBVIOUS
<1> DEFINE i == view'.oob
<1>1. /\ DeviceOK(view') /\ view'.ifc = view.ifc /\ i \in Ids
      /\ view'.ips[i] = [addr |-> net.addr, prefix |-> net.prefix, on |-> at]
      /\ \A k \in Ids \ {i} : view'.ips[k] = view.ips[k]
      /\ Recorded(view') = Recorded(view) \cup {i}
      /\ IF found = None THEN i \notin Recorded(view) \cup Recorded(db)
         ELSE i = found /\ found \in Copies(view, net.addr, net.prefix)
  BY AssignStep
<1>2. /\ UNCHANGED <<idrac, db, net, at, found, drop, late, changes, faults>>
      /\ pc = "assign" /\ pc' = "check"
  BY DEF Assign
<1>3. Sees /\ MatchedOK
  BY <1>2 DEF Inv, SyncInv
<1>4. view'.oob # None
  BY <1>1, Distinct
<1> HIDE DEF i
<1>5. TypeOK'
  BY <1>1, <1>2 DEF Inv, TypeOK
<1>6. Present(view') = Present(view)
  BY <1>1 DEF Present
<1>7. MatchedOK'
  BY <1>1, <1>2, <1>3, <1>6 DEF MatchedOK
<1>8. AssignedOK'
  BY <1>1, <1>2, <1>4, <1>7 DEF AssignedOK, i
<1>9. Sees'
  <2>1. ASSUME NEW k \in Recorded(db)
        PROVE  /\ k \in Recorded(view')
               /\ view'.ips[k].addr = db.ips[k].addr /\ view'.ips[k].prefix = db.ips[k].prefix
               /\ view'.ips[k] # db.ips[k] => db.ips[k].addr = net.addr
    <3>1. k \in Ids /\ k \in Recorded(view)
      BY <1>3 DEF Recorded, Sees
    <3>2. CASE k = i
      <4>1. k \in Copies(view, net.addr, net.prefix)
        BY <1>1, <3>2
      <4> QED BY <1>1, <1>3, <3>1, <3>2, <4>1 DEF Sees, Copies
    <3>3. CASE k # i
      BY <1>1, <1>3, <3>1, <3>3 DEF Sees
    <3> QED BY <3>2, <3>3
  <2>2. Recorded(db') = Recorded(db) /\ Present(db') = Present(db)
    BY <1>2 DEF Recorded, Present
  <2> QED BY <1>1, <1>2, <1>3, <1>6, <2>1, <2>2 DEF Sees
<1> QED BY <1>2, <1>5, <1>8, <1>9 DEF Inv, SyncInv, Resting

LEMMA CheckInv == Inv /\ Check => Inv'
<1> SUFFICES ASSUME Inv, Check PROVE Inv'
  OBVIOUS
<1>1. /\ UNCHANGED <<idrac, db, view, net, at, found, changes, faults>>
      /\ pc = "check" /\ pc' = "commit" /\ late' = {}
      /\ drop' = (at # IDrac /\ view.ifc[IDrac] # None /\ ~Carries(view, IDrac))
  BY DEF Check
<1>2. TypeOK'
  BY <1>1 DEF Inv, TypeOK
<1>3. AssignedOK' /\ Sees'
  BY <1>1 DEF Inv, SyncInv, AssignedOK, MatchedOK, Sees, Present, Recorded
<1>4. Carries(view', IDrac) <=> Carries(view, IDrac)
  BY <1>1 DEF Carries, Recorded
<1>5. LeftoverOK' /\ (drop' => view'.ifc[IDrac] # None)
  BY <1>1, <1>4 DEF LeftoverOK, Carries, Recorded
<1> QED BY <1>1, <1>2, <1>3, <1>5 DEF Inv, SyncInv, Resting

\* What a sync commits.
LEMMA CommitStep ==
    ASSUME Inv, Commit
    PROVE  /\ DeviceOK(db') /\ AssignedOK
           /\ IF drop THEN /\ at # IDrac /\ db'.ifc[IDrac] = None
                           /\ \A m \in Names \ {IDrac} : db'.ifc[m] = view.ifc[m]
                           /\ \A i \in Recorded(view) :
                                 view.ips[i].on # IDrac => db'.ips[i] = view.ips[i]
                           /\ Recorded(db') = {i \in Recorded(view) : view.ips[i].on # IDrac}
                           /\ db'.oob = view.oob
                      ELSE db' = view
<1>1. DeviceOK(view) /\ AssignedOK /\ LeftoverOK
  BY DEF Commit, Inv, TypeOK, SyncInv
<1>2. CASE ~drop
  BY <1>1, <1>2 DEF Commit
<1>3. CASE drop
  <2>1. db' = Without(view, IDrac) /\ at # IDrac
    BY <1>1, <1>3 DEF Commit, LeftoverOK
  <2>2. view.oob # None /\ view.ips[view.oob].on # IDrac
    BY <1>1, <2>1 DEF AssignedOK
  <2> QED BY <1>1, <1>3, <2>1, <2>2, WithoutOK, Distinct
<1> QED BY <1>2, <1>3

LEMMA CommitInv == Inv /\ Commit => Inv'
<1> SUFFICES ASSUME Inv, Commit PROVE Inv'
  OBVIOUS
<1>1. /\ UNCHANGED <<idrac, net, at, found, drop, late, changes, faults>>
      /\ view' = db' /\ pc = "commit" /\ pc' = "done"
  BY DEF Commit
<1>2. TypeOK'
  BY <1>1, CommitStep DEF Inv, TypeOK
<1>3. Sees'
  BY <1>1 DEF Sees, Present, Recorded
<1>4. AssignedOK' /\ (at' # IDrac /\ view'.ifc[IDrac] # None => Carries(view', IDrac))
  <2>1. CASE ~drop
    <3>1. view' = view
      BY <1>1, <2>1, CommitStep
    <3>2. LeftoverOK /\ AssignedOK
      BY <1>1 DEF Inv, SyncInv
    <3> QED BY <1>1, <2>1, <3>1, <3>2
            DEF LeftoverOK, AssignedOK, MatchedOK, Carries, Present, Recorded
  <2>2. CASE drop
    <3>1. /\ at # IDrac /\ view'.ifc[IDrac] = None /\ view'.oob = view.oob
          /\ \A m \in Names \ {IDrac} : view'.ifc[m] = view.ifc[m]
          /\ \A i \in Recorded(view) : view.ips[i].on # IDrac => view'.ips[i] = view.ips[i]
      BY <1>1, <2>2, CommitStep
    <3>2. AssignedOK /\ view.oob \in Recorded(view)
      BY CommitStep DEF AssignedOK, Inv, TypeOK, DeviceOK
    <3>3. view'.ips[view'.oob] = view.ips[view.oob]
      BY <3>1, <3>2 DEF AssignedOK
    <3>4. at \in Names \ {IDrac}
      BY <3>1, <3>2 DEF AssignedOK, MatchedOK, Present
    <3>5. view'.ifc[at] = view.ifc[at]
      BY <3>1, <3>4
    <3> QED BY <1>1, <3>1, <3>2, <3>3, <3>4, <3>5 DEF AssignedOK, MatchedOK, Present
  <2> QED BY <2>1, <2>2
<1> QED BY <1>1, <1>2, <1>3, <1>4 DEF Inv, SyncInv, Resting

LEMMA AbortInv == Inv /\ Abort => Inv'
<1> SUFFICES ASSUME Inv, Abort PROVE Inv'
  OBVIOUS
<1>1. /\ UNCHANGED <<idrac, db, net, at, found, drop, late, changes>>
      /\ view' = db /\ pc' = "idle"
  BY DEF Abort
<1>2. TypeOK'
  BY <1>1, Bounds DEF Abort, Inv, TypeOK
<1>3. Sees'
  BY <1>1 DEF Sees, Present, Recorded
<1> QED BY <1>1, <1>2, <1>3 DEF Inv, SyncInv, Resting

LEMMA StutterInv == Inv /\ UNCHANGED vars => Inv'
BY DEF Inv, TypeOK, SyncInv, Sees, MatchedOK, AssignedOK, LeftoverOK, Resting, Carries, Copies,
       Present, Recorded, DeviceOK, vars

LEMMA NextInv == Inv /\ [Next]_vars => Inv'
<1> SUFFICES ASSUME Inv, [Next]_vars PROVE Inv'
  OBVIOUS
<1>1. CASE SyncStep
  BY <1>1, BeginInv, MatchInv, FindInv, AssignInv, CheckInv, CommitInv DEF SyncStep
<1>2. CASE Abort
  BY <1>2, AbortInv
<1>3. CASE Reconfigure
  BY <1>3, ReconfigureInv
<1>4. ASSUME NEW n \in Names, NEW macs \in SUBSET Macs, EnterIface(n, macs) PROVE Inv'
  BY <1>4, EnterIfaceInv
<1>5. ASSUME NEW i \in Ids, DeleteIp(i) PROVE Inv'
  BY <1>5, DeleteIpInv
<1>6. ASSUME NEW n \in Names, EnterCable(n) PROVE Inv'
  BY <1>6, EnterCableInv
<1>7. ASSUME NEW n \in Names, NEW a \in Addrs, NEW p \in Prefixes, EnterIp(n, a, p) PROVE Inv'
  BY <1>7, EnterIpInv
<1>8. CASE UNCHANGED vars
  BY <1>8, StutterInv
<1> QED BY <1>1, <1>2, <1>3, <1>4, <1>5, <1>6, <1>7, <1>8 DEF Next

\* The inductive invariant holds in every reachable state.
THEOREM AlwaysInv == Spec => []Inv
<1> QED BY InitInv, NextInv, PTL DEF Spec

-----------------------------------------------------------------------------
(* What follows from it.                                                   *)

\* Every reachable state is well-typed: addresses are on interfaces of the
\* device, and its out-of-band address is one of its addresses.
THEOREM TypeCorrect == Spec => []TypeOK
<1>1. Inv => TypeOK
  BY DEF Inv
<1> QED BY <1>1, AlwaysInv, PTL

\* After a sync that was told everything the out-of-band address is the
\* reported one, on the interface with the iDRAC's MAC, and no second, empty
\* "iDRAC" interface is left.
THEOREM OneInterface == Spec => []OneManagementInterface
<1>1. Inv => OneManagementInterface
  <2> SUFFICES ASSUME Inv, pc = "done", net = idrac
               PROVE  /\ db.oob # None
                      /\ db.ips[db.oob].addr = idrac.addr
                      /\ db.ips[db.oob].prefix = idrac.prefix
                      /\ idrac.mac # None => db.ifc[db.ips[db.oob].on].primary = idrac.mac
                      /\ db.ips[db.oob].on # IDrac /\ db.ifc[IDrac] # None => Carries(db, IDrac)
    BY DEF OneManagementInterface
  <2>1. view = db /\ AssignedOK /\ (at # IDrac /\ view.ifc[IDrac] # None => Carries(view, IDrac))
    BY DEF Inv, SyncInv, Resting
  <2>2. db.oob # None /\ db.ips[db.oob] = [addr |-> idrac.addr, prefix |-> idrac.prefix, on |-> at]
    BY <2>1 DEF AssignedOK
  <2>3. idrac.mac # None => db.ifc[at].primary = idrac.mac
    BY <2>1 DEF AssignedOK, MatchedOK
  <2> QED BY <2>1, <2>2, <2>3
<1> QED BY <1>1, AlwaysInv, PTL

LEMMA OnlyCommit == [Next]_vars /\ Committing => Commit
BY DEF Committing, Next, vars, SyncStep, Begin, Match, Find, Assign, Check, Abort, Reconfigure,
       EnterIface, DeleteIp, EnterCable, EnterIp, Calm, Resting

LEMMA OnlyAssign == [Next]_vars /\ pc = "assign" /\ pc' = "check" => Assign
BY DEF Next, vars, SyncStep, Begin, Match, Find, Check, Commit, Abort, Reconfigure,
       EnterIface, DeleteIp, EnterCable, EnterIp, Calm, Resting

\* A sync takes no cable and no address from the device, save what was put on
\* a leftover interface after the sync had looked at it.
THEOREM DataKept == Spec => SyncKeepsData
<1>1. ASSUME Inv, [Next]_vars, Committing PROVE Kept(db, db')
  <2>1. Commit
    BY <1>1, OnlyCommit
  <2>2. Sees /\ LeftoverOK
    BY <1>1, <2>1 DEF Commit, Inv, SyncInv
  <2>3. CASE ~drop
    <3>1. db' = view
      BY <1>1, <2>1, <2>3, CommitStep
    <3> QED BY <2>2, <3>1 DEF Kept, Sees
  <2>4. CASE drop
    <3>1. /\ db'.ifc[IDrac] = None /\ \A m \in Names \ {IDrac} : db'.ifc[m] = view.ifc[m]
          /\ \A i \in Recorded(view) : view.ips[i].on # IDrac => db'.ips[i] = view.ips[i]
          /\ Recorded(db') = {i \in Recorded(view) : view.ips[i].on # IDrac}
      BY <1>1, <2>1, <2>4, CommitStep
    <3>2. /\ view.ifc[IDrac].cable => IDrac \in late
          /\ \A i \in Recorded(view) : view.ips[i].on = IDrac => i \in late
      BY <2>2, <2>4 DEF LeftoverOK
    <3>3. \A i \in Recorded(db) \ late : /\ i \in Recorded(db')
                                         /\ db'.ips[i].addr = db.ips[i].addr
                                         /\ db'.ips[i].prefix = db.ips[i].prefix
      BY <2>2, <3>1, <3>2 DEF Sees
    <3>4. ASSUME NEW n \in Present(db), db.ifc[n].cable, n \notin late
          PROVE  n \in Present(db') /\ db'.ifc[n].cable
      <4>1. n \in Present(view) /\ view.ifc[n].cable
        BY <2>2, <3>4 DEF Sees
      <4>2. n # IDrac
        BY <3>2, <3>4, <4>1
      <4> QED BY <3>1, <4>1, <4>2 DEF Present
    <3> QED BY <3>3, <3>4 DEF Kept
  <2> QED BY <2>3, <2>4
<1> QED BY <1>1, AlwaysInv, PTL DEF Spec, SyncKeepsData

\* Administrators' interfaces and their MACs stay, and the only address
\* records a sync changes are those of the reported address.
THEOREM OthersKept == Spec => SyncKeepsOthers
<1>1. ASSUME Inv, [Next]_vars, Committing
      PROVE  /\ \A n \in Present(db) \cap Admin :
                   n \in Present(db') /\ db.ifc[n].macs \subseteq db'.ifc[n].macs
             /\ \A i \in Recorded(db) \cap Recorded(db') :
                   db'.ips[i] # db.ips[i] => db.ips[i].addr = net.addr
  <2>1. Commit
    BY <1>1, OnlyCommit
  <2>2. Sees
    BY <1>1 DEF Inv, SyncInv
  <2>3. CASE ~drop
    <3>1. db' = view
      BY <1>1, <2>1, <2>3, CommitStep
    <3> QED BY <2>2, <3>1 DEF Sees
  <2>4. CASE drop
    <3>1. /\ \A m \in Names \ {IDrac} : db'.ifc[m] = view.ifc[m]
          /\ \A i \in Recorded(db') : i \in Recorded(view) /\ db'.ips[i] = view.ips[i]
      BY <1>1, <2>1, <2>4, CommitStep
    <3>2. IDrac \notin Admin
      BY Distinct
    <3> QED BY <2>2, <3>1, <3>2 DEF Sees, Present
  <2> QED BY <2>3, <2>4
<1> QED BY <1>1, AlwaysInv, PTL DEF Spec, SyncKeepsOthers

\* A sync does not record an address a second time, unless somebody else
\* recorded it after the sync had searched.
THEOREM NotTwice == Spec => NoSecondCopy
<1>1. ASSUME Inv, [Next]_vars, pc = "assign", pc' = "check", NEW a \in Addrs, NEW p \in Prefixes,
             Cardinality(Copies(view', a, p)) > 1
      PROVE  \/ Cardinality(Copies(view', a, p)) = Cardinality(Copies(view, a, p))
             \/ Copies(view, a, p) \cap late # {}
  <2> DEFINE i == view'.oob
  <2>1. Assign
    BY <1>1, OnlyAssign
  <2>2. /\ i \in Ids
        /\ view'.ips[i].addr = net.addr /\ view'.ips[i].prefix = net.prefix
        /\ \A k \in Ids \ {i} : view'.ips[k] = view.ips[k]
        /\ Recorded(view') = Recorded(view) \cup {i}
        /\ IF found = None THEN i \notin Recorded(view)
           ELSE found = i /\ found \in Copies(view, net.addr, net.prefix)
    BY <1>1, <2>1, AssignStep
  <2> HIDE DEF i
  <2>3. Recorded(view) \subseteq Ids
    BY DEF Recorded
  <2>4. CASE found # None
    <3>1. Copies(view', a, p) = Copies(view, a, p)
      BY <2>2, <2>3, <2>4 DEF Copies
    <3> QED BY <3>1
  <2>5. CASE found = None /\ ~(a = net.addr /\ p = net.prefix)
    <3>1. Copies(view', a, p) = Copies(view, a, p)
      BY <2>2, <2>3, <2>5 DEF Copies
    <3> QED BY <3>1
  <2>6. CASE found = None /\ a = net.addr /\ p = net.prefix
    <3>1. Copies(view', a, p) = Copies(view, a, p) \cup {i}
      BY <2>2, <2>3, <2>6 DEF Copies
    <3>2. Copies(view, a, p) \subseteq late
      BY <1>1, <2>6 DEF Inv, SyncInv
    <3>3. CASE Copies(view, a, p) = {}
      <4>1. Cardinality({i}) = 1
        BY FS_Singleton
      <4>2. Copies(view', a, p) = {i}
        BY <3>1, <3>3
      <4>3. Cardinality(Copies(view', a, p)) = 1
        BY <4>1, <4>2
      <4>4. Cardinality(Copies(view', a, p)) > 1
        BY <1>1
      <4>5. ~(1 > 1)
        OBVIOUS
      <4> QED BY <4>3, <4>4, <4>5, Zenon
    <3> QED BY <3>2, <3>3
  <2> QED BY <2>4, <2>5, <2>6
<1>2. ASSUME Inv, [Next]_vars
      PROVE  pc = "assign" /\ pc' = "check" =>
                \A a \in Addrs, p \in Prefixes :
                   Cardinality(Copies(view', a, p)) > 1 =>
                      Cardinality(Copies(view', a, p)) = Cardinality(Copies(view, a, p))
                      \/ Copies(view, a, p) \cap late # {}
  BY <1>1, <1>2
<1> QED BY <1>2, AlwaysInv, PTL DEF Spec, NoSecondCopy

-----------------------------------------------------------------------------
(* What a sync settles stays settled.                                      *)

\* The least identifier of a set is below all of it, and the only such one.
LEMMA LeastBelow ==
    ASSUME NEW S \in SUBSET Ids, NEW x \in S
    PROVE  x = Min(S) <=> \A y \in S : x <= y
<1>1. S \in SUBSET Nat
  BY Bounds DEF Ids
<1> DEFINE R == {ss \in Nat \X Nat : ss[1] < ss[2]}
<1>2. IsWellFoundedOn(R, Nat)
  <2>1. OpToRel(<, Nat) = R
    BY Zenon DEF OpToRel
  <2> QED BY <2>1, NatLessThanWellFounded, Zenon
<1>3. PICK z \in S : \A y \in S : <<y, z>> \notin R
  <2> HIDE DEF R
  <2> QED BY <1>1, <1>2, WFMin
<1>4. ASSUME NEW y \in S PROVE z <= y
  <2>1. z \in Nat /\ y \in Nat /\ <<y, z>> \notin R
    BY <1>1, <1>3
  <2>2. <<y, z>> \in Nat \X Nat /\ <<y, z>>[1] = y /\ <<y, z>>[2] = z
    BY <2>1
  <2>3. ~(y < z)
    BY <2>1, <2>2
  <2> QED BY <2>1, <2>3
<1>5. Min(S) \in S /\ \A y \in S : Min(S) <= y
  BY <1>4 DEF Min
<1>6. ASSUME \A y \in S : x <= y PROVE x = Min(S)
  <2>1. x \in Nat /\ Min(S) \in Nat /\ x <= Min(S) /\ Min(S) <= x
    BY <1>1, <1>5, <1>6
  <2> QED BY <2>1
<1> QED BY <1>5, <1>6

\* Copies are among the records, and have identifiers.
LEMMA CopiesAreIds ==
    ASSUME NEW d, NEW a, NEW p
    PROVE  Copies(d, a, p) \subseteq Ids /\ Copies(d, a, p) \subseteq Recorded(d)
BY DEF Copies, Recorded

\* Linking leaves an interface that has the MAC, or needs none, as it is.
LEMMA LinkedAgain ==
    ASSUME NEW d, DeviceOK(d), NEW n \in Present(d), NEW mac \in Macs \cup {None},
           d.ifc[n].mgmt, mac # None => d.ifc[n].primary = mac
    PROVE  Linked(d, n, mac) = d
<1>1. n \in Names /\ d.ifc[n] \in Iface /\ d.ifc[n] # None
  BY DeviceFields DEF Present
<1> DEFINE old == d.ifc[n]
           own == IF mac = None THEN old
                  ELSE [old EXCEPT !.macs = @ \cup {mac}, !.primary = mac]
           new == [own EXCEPT !.mgmt = TRUE]
<1>2. Linked(d, n, mac) = [d EXCEPT !.ifc[n] = new]
  BY <1>1 DEF Linked
<1>3. own = old
  <2>1. CASE mac = None
    BY <2>1
  <2>2. CASE mac # None
    <3>1. mac \in old.macs /\ old.primary = mac
      BY <2>2 DEF DeviceOK
    <3>2. old.macs \cup {mac} = old.macs
      BY <3>1
    <3>3. own = [old EXCEPT !.macs = old.macs \cup {mac}, !.primary = mac]
      BY <2>2
    <3> QED BY <1>1, <3>1, <3>2, <3>3 DEF Iface
  <2> QED BY <2>1, <2>2
<1>4. new = old
  <2> HIDE DEF own
  <2> QED BY <1>1, <1>3 DEF Iface
<1>5. [d EXCEPT !.ifc[n] = d.ifc[n]] = d
  BY <1>1, DeviceFields
<1> QED BY <1>2, <1>4, <1>5

\* A linked interface is one for management.
LEMMA LinkedMgmt ==
    ASSUME NEW d, DeviceOK(d), NEW n \in Names, NEW mac \in Macs \cup {None}
    PROVE  Linked(d, n, mac).ifc[n].mgmt
<1> DEFINE old == IF d.ifc[n] = None THEN NewIface ELSE d.ifc[n]
           own == IF mac = None THEN old
                  ELSE [old EXCEPT !.macs = @ \cup {mac}, !.primary = mac]
           new == [own EXCEPT !.mgmt = TRUE]
<1>1. Linked(d, n, mac) = [d EXCEPT !.ifc[n] = new]
  BY DEF Linked
<1>2. old \in Iface
  BY Distinct DEF DeviceOK, Device, NewIface, Iface
<1>3. own \in Iface
  <2> HIDE DEF old
  <2> QED BY <1>2 DEF Iface
<1>4. new \in Iface /\ new.mgmt
  <2> HIDE DEF own
  <2> QED BY <1>3 DEF Iface
<1> HIDE DEF new
<1>5. [d EXCEPT !.ifc[n] = new].ifc[n] = new
  BY <1>4, IfaceReplaced
<1> QED BY <1>1, <1>4, <1>5

\* A cable changes neither MACs nor purpose of an interface.
LEMMA CabledSame ==
    ASSUME NEW d, DeviceOK(d), NEW n \in Present(d), NEW m \in Names
    PROVE  /\ Cabled(d, n).ifc[m] = None <=> d.ifc[m] = None
           /\ d.ifc[m] # None =>
                 /\ Cabled(d, n).ifc[m].macs = d.ifc[m].macs
                 /\ Cabled(d, n).ifc[m].primary = d.ifc[m].primary
                 /\ Cabled(d, n).ifc[m].mgmt = d.ifc[m].mgmt
<1>1. n \in Names /\ d.ifc[n] \in Iface
  BY DeviceFields DEF Present
<1> DEFINE new == [d.ifc[n] EXCEPT !.cable = TRUE]
<1>2. /\ new \in Iface /\ new.macs = d.ifc[n].macs /\ new.mgmt = d.ifc[n].mgmt
      /\ new.primary = d.ifc[n].primary
  BY <1>1 DEF Iface
<1>3. Cabled(d, n) = [d EXCEPT !.ifc[n] = new]
  BY DEF Cabled
<1> HIDE DEF new
<1>4. /\ [d EXCEPT !.ifc[n] = new].ifc[n] = new
      /\ \A k \in Names \ {n} : [d EXCEPT !.ifc[n] = new].ifc[k] = d.ifc[k]
  BY <1>1, <1>2, IfaceReplaced
<1>5. CASE m = n
  BY <1>2, <1>3, <1>4, <1>5, Distinct DEF Present
<1>6. CASE m # n
  BY <1>3, <1>4, <1>6
<1> QED BY <1>5, <1>6

\* Whom a sync means depends on names and MACs, and what it calls settled on
\* the out-of-band address and its copies besides.
LEMMA MatchesSame ==
    ASSUME NEW d, NEW e, NEW mac,
           \A n \in Names : /\ e.ifc[n] = None <=> d.ifc[n] = None
                            /\ d.ifc[n] # None => /\ e.ifc[n].macs = d.ifc[n].macs
                                                  /\ e.ifc[n].primary = d.ifc[n].primary
    PROVE  Matches(e, mac) = Matches(d, mac)
<1> DEFINE Holders(x) == {n \in Present(x) : mac \in x.ifc[n].macs}
<1>1. Holders(e) = Holders(d)
  BY DEF Present
<1>2. \A n \in Holders(d) : e.ifc[n].primary = d.ifc[n].primary
  BY DEF Present
<1>3. {n \in Holders(e) : e.ifc[n].primary = mac} = {n \in Holders(d) : d.ifc[n].primary = mac}
  BY <1>1, <1>2
<1>4. {n \in Holders(e) : e.ifc[n].primary = None} = {n \in Holders(d) : d.ifc[n].primary = None}
  BY <1>1, <1>2
<1> HIDE DEF Holders
<1>5. \A x : Matches(x, mac) = IF {n \in Holders(x) : x.ifc[n].primary = mac} # {}
                               THEN {n \in Holders(x) : x.ifc[n].primary = mac}
                               ELSE {n \in Holders(x) : x.ifc[n].primary = None}
  BY DEF Matches, Holders
<1> QED BY <1>3, <1>4, <1>5

LEMMA CallsSame ==
    ASSUME NEW d, NEW e, NEW answer, NEW n \in Names,
           e.ips = d.ips, e.oob = d.oob,
           \A m \in Names : /\ e.ifc[m] = None <=> d.ifc[m] = None
                            /\ d.ifc[m] # None => /\ e.ifc[m].macs = d.ifc[m].macs
                                                  /\ e.ifc[m].primary = d.ifc[m].primary
                                                  /\ e.ifc[m].mgmt = d.ifc[m].mgmt,
           Calls(e, answer, n)
    PROVE  Calls(d, answer, n)
<1>1. Matches(e, answer.mac) = Matches(d, answer.mac)
  BY MatchesSame
<1>2. Copies(e, answer.addr, answer.prefix) = Copies(d, answer.addr, answer.prefix)
  BY DEF Copies, Recorded
<1>3. Present(e) = Present(d)
  BY DEF Present
<1>4. n \in Present(d) => d.ifc[n] # None
  BY DEF Present
<1> QED BY <1>1, <1>2, <1>3, <1>4, Zenon DEF Calls

\* A record that somebody enters makes no device settled.
LEMMA CallsEntered ==
    ASSUME NEW d, DeviceOK(d), NEW i \in Ids \ Recorded(d), NEW a \in Addrs, NEW p \in Prefixes,
           NEW m \in Present(d), NEW e, e = WithIp(d, i, a, p, m),
           NEW answer, NEW n \in Names, Calls(e, answer, n)
    PROVE  Calls(d, answer, n)
<1>1. /\ DeviceOK(e) /\ e.ifc = d.ifc /\ e.oob = d.oob
      /\ e.ips[i] = [addr |-> a, prefix |-> p, on |-> m]
      /\ \A k \in Ids \ {i} : e.ips[k] = d.ips[k]
      /\ Recorded(e) = Recorded(d) \cup {i}
  BY WithIpOK
<1>2. Matches(e, answer.mac) = Matches(d, answer.mac) /\ Present(e) = Present(d)
  BY <1>1, MatchesSame DEF Present
<1> DEFINE C(x) == Copies(x, answer.addr, answer.prefix)
<1>3. e.oob \in C(e) /\ (\A c \in C(e) : e.oob <= c) /\ e.ips[e.oob].on = n
  BY DEF Calls
<1>4. Recorded(d) \subseteq Ids \ {i}
  BY DEF Recorded
<1>5. C(d) \subseteq C(e)
  BY <1>1, <1>4 DEF Copies
<1>6. e.oob \in Ids \ {i}
  <2>1. e.oob \in Ids
    BY <1>3, CopiesAreIds
  <2>2. e.oob # None => e.oob \in Recorded(d)
    BY <1>1 DEF DeviceOK
  <2> QED BY <1>4, <2>1, <2>2, Distinct
<1>7. d.oob \in C(d) /\ d.ips[d.oob].on = n
  BY <1>1, <1>3, <1>6 DEF Copies
<1>8. \A c \in C(d) : d.oob <= c
  BY <1>1, <1>3, <1>5
<1>9. /\ n \in Present(d)
      /\ Matches(d, answer.mac) = {n} \/ (Matches(d, answer.mac) = {} /\ n = IDrac)
      /\ d.ifc[n].primary = answer.mac \/ answer.mac = None
      /\ d.ifc[n].mgmt
  BY <1>1, <1>2, Zenon DEF Calls
<1> QED BY <1>7, <1>8, <1>9 DEF Calls

LEMMA MeantStep ==
    ASSUME Inv, MeantInv, [Next]_vars
    PROVE  MeantInv'
<1> SUFFICES ASSUME pc' \in {"find", "assign", "check", "commit", "done"}
             PROVE  view'.ifc[at'].mgmt /\ (net'.mac = None => at' = IDrac)
  BY DEF MeantInv
<1>1. ASSUME Begin \/ Abort \/ Reconfigure PROVE FALSE
  BY <1>1 DEF Begin, Abort, Reconfigure
<1>2. CASE Match
  <2>1. at' \in Names /\ view' = Linked(view, at', net.mac) /\ net' = net
    BY <1>2, Distinct DEF Match, Matches, Present
  <2>2. DeviceOK(view) /\ net.mac \in Macs \cup {None}
    BY DEF Inv, TypeOK, Net
  <2>3. ASSUME net.mac = None PROVE at' = IDrac
    <3>1. Matches(view, None) = {}
      <4>1. \A n \in Present(view) : None \notin view.ifc[n].macs
        BY <2>2, Distinct DEF Present, DeviceOK, Device, Iface
      <4> QED BY <4>1 DEF Matches
    <3> QED BY <1>2, <2>3, <3>1 DEF Match
  <2> QED BY <2>1, <2>2, <2>3, LinkedMgmt
<1>3. CASE Find \/ Check
  BY <1>3 DEF Find, Check, MeantInv
<1>4. CASE Assign
  <2>1. view'.ifc = view.ifc
    BY <1>4, AssignStep
  <2> QED BY <1>4, <2>1 DEF Assign, MeantInv
<1>5. CASE Commit
  <2>1. /\ view' = db' /\ UNCHANGED <<net, at>> /\ pc = "commit"
    BY <1>5 DEF Commit
  <2>2. AssignedOK /\ at \in Names
    BY <1>5, CommitStep DEF Inv, TypeOK
  <2>3. db'.ifc[at] = view.ifc[at]
    <3>1. CASE drop
      BY <1>5, <2>2, <3>1, CommitStep
    <3>2. CASE ~drop
      BY <1>5, <3>2, CommitStep
    <3> QED BY <3>1, <3>2
  <2> QED BY <2>1, <2>3 DEF MeantInv
<1>6. ASSUME NEW n \in Names, NEW macs \in SUBSET Macs, EnterIface(n, macs) PROVE FALSE
  BY <1>6 DEF EnterIface
<1>7. ASSUME NEW i \in Ids, DeleteIp(i) PROVE FALSE
  BY <1>7 DEF DeleteIp
<1>8. ASSUME NEW n \in Names, EnterCable(n)
      PROVE  view'.ifc[at'].mgmt /\ (net'.mac = None => at' = IDrac)
  <2>1. UNCHANGED <<net, at>> /\ view' = Cabled(view, n) /\ pc \in {"find", "assign", "check", "commit"}
    BY <1>8 DEF EnterCable, ByHuman, Calm, Cabled
  <2>2. DeviceOK(view) /\ n \in Present(view) /\ at \in Present(view)
    <3>1. n \in Present(view)
      BY <1>8 DEF EnterCable, Inv, SyncInv, Sees
    <3>2. at \in Present(view)
      BY <2>1 DEF Inv, SyncInv, AssignedOK, MatchedOK
    <3> QED BY <3>1, <3>2 DEF Inv, TypeOK
  <2>3. at \in Names /\ view.ifc[at] # None
    BY <2>2 DEF Present
  <2> QED BY <2>1, <2>2, <2>3, CabledSame DEF MeantInv
<1>9. ASSUME NEW n \in Names, NEW a \in Addrs, NEW p \in Prefixes, EnterIp(n, a, p)
      PROVE  view'.ifc[at'].mgmt /\ (net'.mac = None => at' = IDrac)
  <2>1. /\ UNCHANGED <<net, at>> /\ pc \in {"find", "assign", "check", "commit"}
        /\ view' = WithIp(view, Min(Free), a, p, n)
    BY <1>9 DEF EnterIp, ByHuman, Calm
  <2>2. /\ DeviceOK(view') /\ view'.ifc = view.ifc /\ view'.oob = view.oob
        /\ view'.ips[Min(Free)] = [addr |-> a, prefix |-> p, on |-> n]
        /\ \A k \in Ids \ {Min(Free)} : view'.ips[k] = view.ips[k]
        /\ Recorded(view') = Recorded(view) \cup {Min(Free)}
    <3>1. DeviceOK(view) /\ Free # {} /\ n \in Present(view)
      BY <1>9 DEF EnterIp, Inv, TypeOK, SyncInv, Sees
    <3>2. Min(Free) \in Ids
      BY <3>1, LeastId DEF Free
    <3> QED BY <2>1, <3>1, <3>2, WithIpOK
  <2> QED BY <2>1, <2>2 DEF MeantInv
<1>10. CASE UNCHANGED vars
  BY <1>10 DEF vars, MeantInv
<1> QED BY <1>1, <1>2, <1>3, <1>4, <1>5, <1>6, <1>7, <1>8, <1>9, <1>10 DEF Next, SyncStep

\* While a sync runs on a settled device it has changed nothing.
LEMMA SettledStep ==
    ASSUME Inv, SettledInv, [Next]_vars
    PROVE  SettledInv'
<1> SUFFICES ASSUME ~Resting', NEW n \in Names, Calls(db', net', n)
             PROVE  /\ view' = db' /\ (pc' # "match" => at' = n)
                    /\ pc' = "assign" => found' = db'.oob
  BY DEF SettledInv
<1> DEFINE Same == view = db /\ (pc # "match" => at = n) /\ (pc = "assign" => found = db.oob)
           C == Copies(db, net.addr, net.prefix)
<1>1. ~Resting /\ Calls(db, net, n) => Same
  BY DEF SettledInv
<1>2. CASE Begin
  BY <1>2 DEF Begin, Inv, SyncInv
<1>3. CASE Match
  <2>1. /\ UNCHANGED <<db, net>> /\ pc = "match" /\ pc' = "find"
        /\ view' = Linked(view, at', net.mac)
        /\ at' \in IF Matches(view, net.mac) = {} THEN {IDrac} ELSE Matches(view, net.mac)
    BY <1>3 DEF Match
  <2>2. Calls(db, net, n) /\ view = db
    BY <1>1, <2>1 DEF Resting
  <2>3. at' = n
    BY <2>1, <2>2 DEF Calls
  <2>4. /\ n \in Present(db) /\ db.ifc[n].mgmt
        /\ net.mac # None => db.ifc[n].primary = net.mac
    BY <2>2 DEF Calls
  <2>5. DeviceOK(db) /\ net.mac \in Macs \cup {None}
    BY DEF Inv, TypeOK, Net
  <2>6. Linked(db, n, net.mac) = db
    BY <2>4, <2>5, LinkedAgain
  <2> QED BY <2>1, <2>2, <2>3, <2>6
<1>4. CASE Find
  <2>1. /\ UNCHANGED <<db, view, net, at>> /\ pc = "find" /\ pc' = "assign"
        /\ view = db => found' = IF C = {} THEN None ELSE Min(C)
    BY <1>4 DEF Find
  <2>2. Calls(db, net, n) /\ Same
    BY <1>1, <2>1 DEF Resting
  <2>3. db.oob \in C /\ \A c \in C : db.oob <= c
    BY <2>2 DEF Calls
  <2>4. Min(C) = db.oob
    BY <2>3, CopiesAreIds, LeastBelow
  <2> HIDE DEF C
  <2> QED BY <2>1, <2>2, <2>3, <2>4
<1>5. CASE Assign
  <2>1. UNCHANGED <<db, net, at, found>> /\ pc = "assign" /\ pc' = "check"
    BY <1>5 DEF Assign
  <2>2. Calls(db, net, n) /\ Same
    BY <1>1, <2>1 DEF Resting
  <2>3. db.oob \in C /\ db.ips[db.oob].on = n /\ db.oob \in Ids
    BY <2>2, CopiesAreIds DEF Calls
  <2>4. found # None
    BY <2>1, <2>2, <2>3, Distinct
  <2>5. /\ view' = OutOfBand(MovedTo(view, found, at), found)
        /\ view = db /\ found = db.oob /\ at = n
    BY <1>5, <2>1, <2>2, <2>4 DEF Assign, OutOfBand, MovedTo
  <2>6. DeviceOK(db) /\ db.oob \in Recorded(db)
    BY <2>3, CopiesAreIds DEF Inv, TypeOK
  <2>7. db.ips[db.oob] \in Ip
    BY <2>6, DeviceFields DEF Recorded
  <2>8. [db.ips[db.oob] EXCEPT !.on = n] = db.ips[db.oob]
    BY <2>3, <2>7 DEF Ip
  <2>9. [db EXCEPT !.ips[db.oob].on = n] = db
    <3>1. [db.ips EXCEPT ![db.oob] = db.ips[db.oob]] = db.ips
      BY <2>6, DeviceFields
    <3>2. [db EXCEPT !.ips[db.oob].on = n]
             = [db EXCEPT !.ips = [db.ips EXCEPT ![db.oob] = [db.ips[db.oob] EXCEPT !.on = n]]]
      OBVIOUS
    <3>3. [db EXCEPT !.ips = db.ips] = db
      BY <2>6, DeviceFields
    <3> QED BY <2>8, <3>1, <3>2, <3>3
  <2>10. [db EXCEPT !.oob = db.oob] = db
    BY <2>6, DeviceFields
  <2>11. view' = db
    BY <2>5, <2>9, <2>10 DEF OutOfBand, MovedTo
  <2> QED BY <2>1, <2>5, <2>11
<1>6. CASE Check
  <2>1. UNCHANGED <<db, view, net, at>> /\ pc = "check" /\ pc' = "commit"
    BY <1>6 DEF Check
  <2> QED BY <1>1, <2>1 DEF Resting
<1>7. ASSUME Commit \/ Abort \/ Reconfigure PROVE FALSE
  BY <1>7 DEF Commit, Abort, Reconfigure, Resting
<1>8. ASSUME NEW m \in Names, NEW macs \in SUBSET Macs, EnterIface(m, macs) PROVE FALSE
  BY <1>8 DEF EnterIface, Resting
<1>9. ASSUME NEW i \in Ids, DeleteIp(i) PROVE FALSE
  BY <1>9 DEF DeleteIp, Resting
<1>10. ASSUME NEW m \in Names, EnterCable(m)
       PROVE  /\ view' = db' /\ (pc' # "match" => at' = n)
              /\ pc' = "assign" => found' = db'.oob
  <2>1. /\ UNCHANGED <<net, at, found>> /\ ~Resting /\ pc' = pc
        /\ db' = Cabled(db, m) /\ view' = Cabled(view, m)
    BY <1>10 DEF EnterCable, ByHuman, Calm, Cabled, Resting
  <2>2. DeviceOK(db) /\ m \in Present(db)
    BY <1>10 DEF EnterCable, Inv, TypeOK
  <2>3. /\ db'.ips = db.ips /\ db'.oob = db.oob
        /\ \A k \in Names : /\ db'.ifc[k] = None <=> db.ifc[k] = None
                            /\ db.ifc[k] # None => /\ db'.ifc[k].macs = db.ifc[k].macs
                                                   /\ db'.ifc[k].primary = db.ifc[k].primary
                                                   /\ db'.ifc[k].mgmt = db.ifc[k].mgmt
    BY <2>1, <2>2, CabledOK, CabledSame
  <2>4. Calls(db, net, n)
    BY <2>1, <2>3, CallsSame
  <2> QED BY <1>1, <2>1, <2>3, <2>4
<1>11. ASSUME NEW m \in Names, NEW a \in Addrs, NEW p \in Prefixes, EnterIp(m, a, p)
       PROVE  /\ view' = db' /\ (pc' # "match" => at' = n)
              /\ pc' = "assign" => found' = db'.oob
  <2> DEFINE i == Min(Free)
  <2>1. /\ UNCHANGED <<net, at, found>> /\ ~Resting /\ pc' = pc
        /\ db' = WithIp(db, i, a, p, m) /\ view' = WithIp(view, i, a, p, m)
    BY <1>11 DEF EnterIp, ByHuman, Calm, Resting
  <2>2. DeviceOK(db) /\ m \in Present(db) /\ i \in Ids \ Recorded(db)
    BY <1>11, LeastId DEF EnterIp, Free, Inv, TypeOK
  <2> HIDE DEF i
  <2>3. Calls(db, net, n)
    BY <2>1, <2>2, CallsEntered
  <2>4. /\ DeviceOK(db') /\ db'.ifc = db.ifc /\ db'.oob = db.oob
        /\ db'.ips[i] = [addr |-> a, prefix |-> p, on |-> m]
        /\ \A k \in Ids \ {i} : db'.ips[k] = db.ips[k]
        /\ Recorded(db') = Recorded(db) \cup {i}
    BY <2>1, <2>2, WithIpOK
  <2> QED BY <1>1, <2>1, <2>3, <2>4
<1>12. CASE UNCHANGED vars
  <2>1. UNCHANGED <<db, view, net, at, found, pc>>
    BY <1>12 DEF vars
  <2> QED BY <1>1, <2>1 DEF Resting
<1> QED BY <1>2, <1>3, <1>4, <1>5, <1>6, <1>7, <1>8, <1>9, <1>10, <1>11, <1>12
        DEF Next, SyncStep

LEMMA AlwaysSettledInv == Spec => [](MeantInv /\ SettledInv)
<1>1. Init => MeantInv /\ SettledInv
  BY DEF Init, MeantInv, SettledInv, Resting
<1>2. Inv /\ MeantInv /\ SettledInv /\ [Next]_vars => MeantInv' /\ SettledInv'
  BY MeantStep, SettledStep
<1> QED BY <1>1, <1>2, AlwaysInv, PTL DEF Spec

\* Every completed sync leaves a device on which a sync with the same answer
\* has nothing to do, unless two interfaces claim the MAC or the address is
\* recorded twice.
THEOREM SyncsSettle == Spec => []DoneSettles
<1>1. ASSUME Inv, MeantInv, pc = "done", \A m, n \in Claimants : m = n,
             \A i, j \in Copies(db, net.addr, net.prefix) : i = j
      PROVE  Settled(db, net)
  <2> DEFINE copies == Copies(db, net.addr, net.prefix)
  <2>1. /\ view = db /\ AssignedOK /\ DeviceOK(db) /\ net.mac \in Macs \cup {None}
        /\ at # IDrac /\ db.ifc[IDrac] # None => Carries(db, IDrac)
    BY <1>1 DEF Inv, TypeOK, Net, SyncInv, Resting
  <2>2. /\ at \in Present(db) /\ db.ifc[at].mgmt
        /\ net.mac # None => db.ifc[at].primary = net.mac
        /\ net.mac = None => at = IDrac
    BY <1>1, <2>1 DEF AssignedOK, MatchedOK, MeantInv
  <2>3. /\ db.oob \in Recorded(db)
        /\ db.ips[db.oob] = [addr |-> net.addr, prefix |-> net.prefix, on |-> at]
    BY <2>1 DEF AssignedOK, DeviceOK
  <2>4. copies = {db.oob} /\ copies \subseteq Ids
    <3>1. db.oob \in copies
      BY <2>3 DEF Copies
    <3>2. copies \subseteq Ids
      BY CopiesAreIds
    <3>3. \A i, j \in copies : i = j
      BY <1>1
    <3> HIDE DEF copies
    <3> QED BY <3>1, <3>2, <3>3
  <2>5. db.oob = Min(copies)
    <3>1. db.oob \in Nat
      BY <2>4, Bounds DEF Ids
    <3> QED BY <2>4, <3>1, LeastBelow
  <2>6. Matches(db, net.mac) = {at} \/ (Matches(db, net.mac) = {} /\ at = IDrac)
    <3>1. CASE net.mac = None
      <4>1. \A n \in Present(db) : None \notin db.ifc[n].macs
        BY <2>1, Distinct DEF Present, DeviceOK, Device, Iface
      <4>2. Matches(db, net.mac) = {}
        BY <3>1, <4>1 DEF Matches
      <4> QED BY <2>2, <3>1, <4>2
    <3>2. CASE net.mac # None
      <4>1. db.ifc[at].primary = net.mac /\ net.mac \in db.ifc[at].macs
        BY <2>1, <2>2, <3>2 DEF DeviceOK
      <4>2. at \in Claimants
        BY <2>2, <4>1 DEF Claimants
      <4>3. {n \in {m \in Present(db) : net.mac \in db.ifc[m].macs} :
                db.ifc[n].primary = net.mac} = {at}
        BY <1>1, <2>2, <4>1, <4>2 DEF Claimants
      <4>4. Matches(db, net.mac) = {at}
        BY <4>3 DEF Matches
      <4> QED BY <4>4
    <3> QED BY <3>1, <3>2
  <2>7. db.ips[db.oob].on = at /\ copies # {}
    BY <2>3, <2>4
  <2> HIDE DEF copies
  <2>8. /\ at \in Present(db)
        /\ db.ifc[at].primary = net.mac \/ net.mac = None
        /\ db.ifc[at].mgmt
    BY <2>2
  <2> QED BY <2>1, <2>5, <2>6, <2>7, <2>8, Zenon DEF Settled, copies
<1>2. Inv /\ MeantInv => DoneSettles
  BY <1>1 DEF DoneSettles
<1> QED BY <1>2, AlwaysInv, AlwaysSettledInv, PTL

\* A sync of a settled device changes nothing.
THEOREM SettledIsKept == Spec => SettledStays
<1>1. ASSUME Inv, SettledInv, [Next]_vars, Committing, Settled(db, net), late = {}
      PROVE  db' = db
  <2>1. Commit
    BY <1>1, OnlyCommit
  <2>2. PICK n \in Present(db) :
           /\ Matches(db, net.mac) = {n} \/ (Matches(db, net.mac) = {} /\ n = IDrac)
           /\ db.ifc[n].primary = net.mac \/ net.mac = None
           /\ db.ifc[n].mgmt
           /\ Copies(db, net.addr, net.prefix) # {}
           /\ db.oob = Min(Copies(db, net.addr, net.prefix))
           /\ db.ips[db.oob].on = n
           /\ n # IDrac /\ db.ifc[IDrac] # None => Carries(db, IDrac)
    BY <1>1 DEF Settled
  <2> DEFINE C == Copies(db, net.addr, net.prefix)
  <2>3. db.oob \in C /\ \A c \in C : db.oob <= c
    <3>1. C \in SUBSET Ids
      BY CopiesAreIds
    <3>2. db.oob \in C
      BY <2>2, <3>1, LeastId
    <3> QED BY <2>2, <3>1, <3>2, LeastBelow
  <2> HIDE DEF C
  <2>4. Calls(db, net, n)
    BY <2>2, <2>3 DEF Calls, C
  <2>5. view = db /\ at = n
    <3>1. ~Resting /\ pc # "match" /\ n \in Names
      BY <2>1, <2>2 DEF Commit, Resting, Present
    <3> QED BY <1>1, <2>4, <3>1 DEF SettledInv
  <2>6. ~drop
    <3> SUFFICES ASSUME drop PROVE FALSE
      OBVIOUS
    <3>1. LeftoverOK /\ view.ifc[IDrac] # None
      BY <1>1, <2>1 DEF Commit, Inv, SyncInv
    <3>2. at # IDrac /\ ~Carries(view, IDrac)
      BY <1>1, <3>1 DEF LeftoverOK, Carries
    <3> QED BY <2>2, <2>5, <3>1, <3>2
  <2> QED BY <1>1, <2>1, <2>5, <2>6, CommitStep
<1> QED BY <1>1, AlwaysInv, AlwaysSettledInv, PTL DEF Spec, SettledStays

=============================================================================
