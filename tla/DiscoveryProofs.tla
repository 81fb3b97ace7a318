--------------------------- MODULE DiscoveryProofs ---------------------------
(* Proofs about Discovery: for any machines, scans, sites, names and bounds, *)
(* a device whose site came from a scan range awaits its review, and a       *)
(* machine gets a second device only in the ways that excuse it.             *)
EXTENDS Discovery, TLAPS

-----------------------------------------------------------------------------
(* The invariant, by row and by scan.                                      *)

RowsOK ==
    /\ made \in [dev : Nat, srv : Nat, edit : Nat] /\ faults \in 0..MaxFaults
    /\ DOMAIN devices \subseteq 1..made.dev /\ DOMAIN servers \subseteq DOMAIN devices
    /\ devices \in [DOMAIN devices -> DeviceType] /\ servers \in [DOMAIN servers -> ServerType]
    /\ \A d \in DOMAIN servers : servers[d].id \in 1..made.srv
    /\ \A d, e \in DOMAIN devices : d # e => <<devices[d].name, devices[d].site>>
                                             # <<devices[e].name, devices[e].site>>

RowsReviewed ==
    /\ \A d \in DOMAIN devices \ DOMAIN servers : Excused(d) \/ devices[d].tag = NoTag
    /\ \A d \in DOMAIN servers : servers[d].confirmed => Excused(d)

\* d has a server, or needs none to keep its review.
Kept(d) == Excused(d) \/ d \in DOMAIN servers

GoodScan(r) ==
    /\ r.pc \in Importing => r.todo # <<>>
    /\ r.dev \in 0..made.dev
    /\ r.pc \in {"device", "save"} => r.srv \in ServerType /\ r.srv.id \in 1..made.srv
    /\ (r.pc = "attach" /\ ~r.new) \/ r.pc \in {"device", "save"} => Kept(r.dev)
    /\ r.pc \in {"device", "save"} /\ r.srv.confirmed => Excused(r.dev)

ScansOK == scan \in [Scans -> ScanType] /\ \A s \in Scans : GoodScan(scan[s])

\* An edit holds keys that were handed out, and a confirmation only of an
\* excused device.
GoodEdit(r) ==
    r # NoEdit => /\ r \in EditType /\ r.dev \in 1..made.dev /\ r.id \in 1..made.srv
                  /\ r.confirmed => Excused(r.dev)

EditsOK ==
    /\ edit \in [Editors -> EditType \cup {NoEdit}]
    /\ \A e \in Editors : GoodEdit(edit[e])

Inv == RowsOK /\ RowsReviewed /\ ScansOK /\ EditsOK

LEMMA InvIs == Inv => TypeOK /\ ReviewInv /\ AutoSiteAwaitsReview
<1> SUFFICES ASSUME Inv PROVE TypeOK /\ ReviewInv /\ AutoSiteAwaitsReview
  OBVIOUS
<1>1. TypeOK
  <2>1. ASSUME NEW e \in Editors
        PROVE  edit[e].dev \in 0..made.dev /\ edit[e].id \in 0..made.srv
    <3>1. CASE edit[e] = NoEdit
      BY <3>1 DEF NoEdit, Inv, RowsOK
    <3>2. CASE edit[e] # NoEdit
      BY <3>2 DEF Inv, EditsOK, GoodEdit, RowsOK
    <3> QED BY <3>1, <3>2
  <2>2. \A s \in Scans :
          /\ scan[s].pc \in Importing => scan[s].todo # <<>>
          /\ scan[s].dev \in 0..made.dev
          /\ scan[s].pc \in {"device", "save"} =>
                scan[s].srv \in ServerType /\ scan[s].srv.id \in 1..made.srv
    BY DEF Inv, ScansOK, GoodScan
  <2> QED BY <2>1, <2>2 DEF Inv, RowsOK, ScansOK, EditsOK, TypeOK
<1>2. ReviewInv
  <2>1. \A e \in Editors : edit[e].confirmed => Excused(edit[e].dev)
    BY DEF Inv, EditsOK, GoodEdit, NoEdit
  <2> QED BY <2>1 DEF Inv, RowsReviewed, ScansOK, GoodScan, Kept, ReviewInv
<1>3. AutoSiteAwaitsReview
  BY DEF Inv, RowsOK, RowsReviewed, Excused, AutoSiteAwaitsReview
<1> QED BY <1>1, <1>2, <1>3

\* What a step may do to the rows so that no scan notices.
RowsKept ==
    /\ made.dev <= made'.dev /\ made.srv <= made'.srv
    /\ \A d \in 0..made.dev : (Excused(d) => Excused(d)') /\ (Kept(d) => Kept(d)')

LEMMA EditsStay ==
    ASSUME Inv, RowsOK', RowsKept, edit' \in [Editors -> EditType \cup {NoEdit}],
           \A e \in Editors : edit'[e] = edit[e] \/ GoodEdit(edit[e])'
    PROVE  EditsOK'
<1>1. made.dev \in Nat /\ made.srv \in Nat /\ made'.dev \in Nat /\ made'.srv \in Nat
  BY DEF Inv, RowsOK
<1>2. ASSUME NEW e \in Editors, edit'[e] = edit[e] PROVE GoodEdit(edit[e])'
  <2> DEFINE r == edit[e]
  <2>1. GoodEdit(r)
    BY DEF Inv, EditsOK
  <2>2. r # NoEdit => r.dev \in 0..made.dev /\ r.dev \in 1..made'.dev /\ r.id \in 1..made'.srv
    BY <1>1, <2>1 DEF GoodEdit, RowsKept
  <2>3. r # NoEdit => (Excused(r.dev) => Excused(edit[e].dev)')
    BY <1>2, <2>2 DEF RowsKept
  <2> QED BY <1>2, <2>1, <2>2, <2>3 DEF GoodEdit
<1> QED BY <1>2 DEF EditsOK

LEMMA ScansStay ==
    ASSUME Inv, RowsOK', RowsReviewed', RowsKept, UNCHANGED edit,
           scan' \in [Scans -> ScanType],
           \A s \in Scans : scan'[s] = scan[s] \/ GoodScan(scan[s])'
    PROVE  Inv'
<1>1. made.dev \in Nat /\ made.srv \in Nat /\ made'.dev \in Nat /\ made'.srv \in Nat
  BY DEF Inv, RowsOK
<1>2. ASSUME NEW s \in Scans, scan'[s] = scan[s] PROVE GoodScan(scan[s])'
  <2> DEFINE r == scan[s]
  <2>1. GoodScan(r)
    BY DEF Inv, ScansOK
  <2>2. r.dev \in 0..made.dev /\ r.dev \in 0..made'.dev
    BY <1>1, <2>1 DEF GoodScan, RowsKept
  <2>3. r.srv.id \in 1..made.srv => r.srv.id \in 1..made'.srv
    BY <1>1 DEF RowsKept
  <2>4. (Excused(r.dev) => Excused(scan[s].dev)') /\ (Kept(r.dev) => Kept(scan[s].dev)')
    BY <1>2, <2>2 DEF RowsKept
  <2> QED BY <1>2, <2>1, <2>2, <2>3, <2>4 DEF GoodScan
<1>3. ScansOK'
  BY <1>2 DEF ScansOK
<1>4. EditsOK'
  <2>1. edit' \in [Editors -> EditType \cup {NoEdit}]
    BY DEF Inv, EditsOK
  <2> QED BY <2>1, EditsStay
<1> QED BY <1>3, <1>4 DEF Inv

LEMMA NothingKept ==
    ASSUME Inv, UNCHANGED <<devices, servers, made, stray>>
    PROVE  RowsKept /\ RowsReviewed'
<1>1. made.dev <= made.dev /\ made.srv <= made.srv
  BY DEF Inv, RowsOK
<1>2. RowsKept
  BY <1>1 DEF RowsKept, Excused, Kept
<1>3. RowsReviewed'
  BY DEF Inv, RowsReviewed, Excused
<1> QED BY <1>2, <1>3

\* A step of one scan that touches no row.
LEMMA ScanMoves ==
    ASSUME Inv, NEW s \in Scans, NEW r \in ScanType, GoodScan(r),
           scan' = [scan EXCEPT ![s] = r], faults' \in 0..MaxFaults,
           UNCHANGED <<devices, servers, edit, made, stray>>
    PROVE  Inv'
<1>1. RowsOK'
  BY DEF Inv, RowsOK
<1>2. scan' \in [Scans -> ScanType] /\ scan'[s] = r /\ \A t \in Scans \ {s} : scan'[t] = scan[t]
  BY DEF Inv, ScansOK
<1>3. GoodScan(scan[s])'
  BY <1>2 DEF GoodScan, Kept, Excused
<1> QED BY <1>1, <1>2, <1>3, NothingKept, ScansStay

LEMMA FaultCounts == Inv /\ (Fault \/ UNCHANGED faults) => faults' \in 0..MaxFaults
BY DiscoveryAssumption DEF Inv, RowsOK, Fault

\* A scan that is between targets, or idle, is good whatever the rows are.
NextOf(s) == [IdleScan EXCEPT !.pc = "check", !.todo = Tail(scan[s].todo)]

LEMMA IdleIs ==
    /\ IdleScan \in ScanType /\ IdleScan.dev = 0 /\ IdleScan.pc = "idle"
BY DEF IdleScan, ScanType

LEMMA NextIs ==
    ASSUME Inv, NEW s \in Scans, scan[s].todo # <<>>
    PROVE  NextOf(s) \in ScanType /\ NextOf(s).dev = 0 /\ NextOf(s).pc = "check"
<1>1. Tail(scan[s].todo) \in Seq(Machines)
  BY DEF Inv, ScansOK, ScanType
<1> QED BY <1>1 DEF NextOf, IdleScan, ScanType

LEMMA BetweenIsGood ==
    ASSUME NEW r \in ScanType, r.dev = 0, r.pc \in {"idle", "check"}, Inv
    PROVE  GoodScan(r)
BY DEF GoodScan, Importing, Inv, RowsOK

\* A target that is given up, or done with.
LEMMA NextTargetInv ==
    ASSUME Inv, NEW s \in Scans, scan[s].todo # <<>>, NextTarget(s),
           Fault \/ UNCHANGED faults, UNCHANGED <<devices, servers, edit, made, stray>>
    PROVE  Inv'
<1>1. scan' = [scan EXCEPT ![s] = NextOf(s)]
  BY DEF NextTarget, NextOf
<1>2. NextOf(s) \in ScanType /\ GoodScan(NextOf(s))
  BY NextIs, BetweenIsGood
<1> QED BY <1>1, <1>2, FaultCounts, ScanMoves

-----------------------------------------------------------------------------
(* The scans, up to the device.                                            *)

LEMMA StartScanInv ==
    ASSUME Inv, NEW s \in Scans, StartScan(s) PROVE Inv'
<1> DEFINE r == [scan[s] EXCEPT !.pc = "check", !.todo = Targets]
<1>1. /\ scan[s].pc = "idle" /\ scan' = [scan EXCEPT ![s] = r]
      /\ UNCHANGED <<devices, servers, edit, made, faults, stray, overlap>>
  BY DEF StartScan, Inv, ScansOK, ScanType
<1>2. scan[s] \in ScanType /\ GoodScan(scan[s])
  BY DEF Inv, ScansOK
<1>3. r \in ScanType /\ r.pc = "check" /\ r.dev = scan[s].dev
  BY <1>2, DiscoveryAssumption DEF ScanType
<1> HIDE DEF r
<1>4. GoodScan(r)
  BY <1>2, <1>3 DEF GoodScan, Importing
<1> QED BY <1>1, <1>3, <1>4, FaultCounts, ScanMoves

\* A scan goes to another statement that asks for nothing more.
LEMMA GotoInv ==
    ASSUME Inv, NEW s \in Scans, NEW pc \in {"idle", "check", "lookup", "create"},
           Goto(s, pc), scan[s].todo # <<>> \/ pc \in {"idle", "check"},
           UNCHANGED <<devices, servers, edit, made, faults, stray>>
    PROVE  Inv'
<1> DEFINE r == [scan[s] EXCEPT !.pc = pc]
<1>1. scan[s] \in ScanType /\ GoodScan(scan[s])
  BY DEF Inv, ScansOK
<1>2. scan' = [scan EXCEPT ![s] = r]
  BY <1>1 DEF Goto, ScanType
<1>3. r \in ScanType /\ r.pc = pc /\ r.dev = scan[s].dev /\ r.todo = scan[s].todo
  BY <1>1 DEF ScanType, Importing
<1> HIDE DEF r
<1>4. GoodScan(r)
  BY <1>1, <1>3 DEF GoodScan, Importing
<1> QED BY <1>2, <1>3, <1>4, FaultCounts, ScanMoves

LEMMA FinishScanInv ==
    ASSUME Inv, NEW s \in Scans, FinishScan(s) PROVE Inv'
BY GotoInv DEF FinishScan

LEMMA SkipManagedInv ==
    ASSUME Inv, NEW s \in Scans, SkipManaged(s) PROVE Inv'
BY NextTargetInv DEF SkipManaged

LEMMA ProbeInv ==
    ASSUME Inv, NEW s \in Scans, Probe(s) PROVE Inv'
<1>1. /\ scan[s].todo # <<>> /\ UNCHANGED <<devices, servers, edit, made, stray>>
      /\ \/ Goto(s, "lookup") /\ UNCHANGED faults
         \/ Fault /\ NextTarget(s)
  BY DEF Probe
<1>2. CASE Goto(s, "lookup") /\ UNCHANGED faults
  BY <1>1, <1>2, GotoInv
<1>3. CASE Fault /\ NextTarget(s)
  BY <1>1, <1>3, NextTargetInv
<1> QED BY <1>1, <1>2, <1>3

\* A device found by its tag is excused, or has its server.
LEMMA TaggedKept ==
    ASSUME Inv, NEW m \in Machines, NEW d \in Tagged(m)
    PROVE  d \in 0..made.dev /\ Kept(d)
<1>1. d \in DOMAIN devices /\ devices[d].tag # NoTag
  BY DiscoveryAssumption DEF Tagged, Tag
<1>2. d \in 0..made.dev
  BY <1>1 DEF Inv, RowsOK
<1> QED BY <1>1, <1>2 DEF Inv, RowsReviewed, Kept

LEMMA TargetIs ==
    ASSUME Inv, NEW s \in Scans, scan[s].pc \in Importing \/ scan[s].todo # <<>>
    PROVE  Target(s) \in Machines /\ scan[s].todo # <<>>
<1>1. scan[s].todo \in Seq(Machines) /\ scan[s].todo # <<>>
  BY DEF Inv, ScansOK, ScanType, GoodScan
<1> QED BY <1>1 DEF Target

LEMMA LookupInv ==
    ASSUME Inv, NEW s \in Scans, Lookup(s) PROVE Inv'
<1>1. /\ scan[s].pc = "lookup" /\ UNCHANGED <<devices, servers, edit, made, stray>>
      /\ \/ /\ \E d \in Tagged(Target(s)) :
                  scan' = [scan EXCEPT ![s].pc = "attach", ![s].dev = d]
            /\ UNCHANGED faults
         \/ Goto(s, "create") /\ UNCHANGED faults
         \/ Fault /\ NextTarget(s)
  BY DEF Lookup
<1>2. Target(s) \in Machines /\ scan[s].todo # <<>>
  BY <1>1, TargetIs DEF Importing
<1>3. CASE Goto(s, "create") /\ UNCHANGED faults
  BY <1>1, <1>2, <1>3, GotoInv
<1>4. CASE Fault /\ NextTarget(s)
  BY <1>1, <1>2, <1>4, NextTargetInv
<1>5. ASSUME NEW d \in Tagged(Target(s)), UNCHANGED faults,
             scan' = [scan EXCEPT ![s].pc = "attach", ![s].dev = d]
      PROVE  Inv'
  <2> DEFINE r == [scan[s] EXCEPT !.pc = "attach", !.dev = d]
  <2>1. d \in 0..made.dev /\ d \in Nat /\ Kept(d)
    BY <1>2, TaggedKept DEF Inv, RowsOK
  <2>2. scan[s] \in ScanType /\ scan' = [scan EXCEPT ![s] = r]
    BY <1>5 DEF Inv, ScansOK, ScanType
  <2>3. r \in ScanType /\ r.pc = "attach" /\ r.dev = d /\ r.todo = scan[s].todo
    BY <2>1, <2>2 DEF ScanType, Importing
  <2> HIDE DEF r
  <2>4. GoodScan(r)
    BY <1>2, <2>1, <2>3 DEF GoodScan
  <2> QED BY <1>1, <1>5, <2>2, <2>3, <2>4, FaultCounts, ScanMoves
<1> QED BY <1>1, <1>3, <1>4, <1>5

-----------------------------------------------------------------------------
(* The rows a scan makes.                                                  *)

\* A new key is nobody's.
LEMMA NewKey == Inv => made.dev + 1 \in Nat /\ made.dev + 1 \notin 0..made.dev
                       /\ made.dev + 1 \notin DOMAIN devices
BY DEF Inv, RowsOK

LEMMA DeviceIs ==
    ASSUME NEW m \in Machines, NEW site \in Sites, NEW found \in BOOLEAN
    PROVE  /\ Device(m, site, found) \in DeviceType
           /\ Device(m, site, found).tag = NoTag /\ Device(m, site, found).found = found
           /\ Device(m, site, found).name = NameOf[m] /\ Device(m, site, found).site = site
BY DiscoveryAssumption DEF Device, DeviceType

LEMMA CreateDeviceInv ==
    ASSUME Inv, NEW s \in Scans, CreateDevice(s) PROVE Inv'
<1> DEFINE m == Target(s)
           d == made.dev + 1
           new == Device(m, SiteOf[s], TRUE)
           r == [scan[s] EXCEPT !.pc = "attach", !.dev = d, !.new = TRUE]
<1>1. /\ scan[s].pc = "create" /\ UNCHANGED <<servers, edit, stray>>
      /\ \/ /\ ~NameTaken(NameOf[m], SiteOf[s])
            /\ devices' = [e \in DOMAIN devices \cup {d} |-> IF e = d THEN new ELSE devices[e]]
            /\ made' = [made EXCEPT !.dev = d]
            /\ scan' = [scan EXCEPT ![s].pc = "attach", ![s].dev = d, ![s].new = TRUE]
            /\ UNCHANGED faults
         \/ NextTarget(s) /\ UNCHANGED <<devices, made, faults>>
         \/ Fault /\ NextTarget(s) /\ UNCHANGED <<devices, made>>
  BY DEF CreateDevice
<1>2. m \in Machines /\ scan[s].todo # <<>> /\ SiteOf[s] \in Sites
  BY <1>1, TargetIs, DiscoveryAssumption DEF Importing
<1>3. CASE NextTarget(s) /\ UNCHANGED <<devices, made>> /\ (Fault \/ UNCHANGED faults)
  BY <1>1, <1>2, <1>3, NextTargetInv
<1>4. ASSUME ~NameTaken(NameOf[m], SiteOf[s]), UNCHANGED faults,
             devices' = [e \in DOMAIN devices \cup {d} |-> IF e = d THEN new ELSE devices[e]],
             made' = [made EXCEPT !.dev = d],
             scan' = [scan EXCEPT ![s].pc = "attach", ![s].dev = d, ![s].new = TRUE]
      PROVE  Inv'
  <2>1. d \in Nat /\ d \notin 0..made.dev /\ d \notin DOMAIN devices /\ d \notin DOMAIN servers
        /\ made.dev \in Nat /\ made.srv \in Nat
    BY NewKey DEF Inv, RowsOK
  <2>2. new \in DeviceType /\ new.tag = NoTag /\ new.name = NameOf[m] /\ new.site = SiteOf[s]
    BY <1>2, DeviceIs
  <2> HIDE DEF new, m
  <2>3. /\ made' \in [dev : Nat, srv : Nat, edit : Nat] /\ made'.dev = d /\ made'.srv = made.srv
        /\ DOMAIN devices' = DOMAIN devices \cup {d} /\ devices'[d] = new
        /\ \A e \in DOMAIN devices : devices'[e] = devices[e]
    BY <1>4, <2>1 DEF Inv, RowsOK
  <2>4. \A e \in DOMAIN devices : <<devices[e].name, devices[e].site>> # <<new.name, new.site>>
    BY <1>4, <2>2 DEF NameTaken
  <2> HIDE DEF d
  <2>5. RowsOK'
    <3>1. DOMAIN devices' \subseteq 1..made'.dev
      BY <2>1, <2>3 DEF Inv, RowsOK, d
    <3>2. DOMAIN servers' \subseteq DOMAIN devices' /\ servers' \in [DOMAIN servers' -> ServerType]
      BY <1>1, <2>3 DEF Inv, RowsOK
    <3>3. devices' \in [DOMAIN devices' -> DeviceType]
      BY <1>4, <2>2, <2>3 DEF Inv, RowsOK
    <3>4. \A e \in DOMAIN servers' : servers'[e].id \in 1..made'.srv
      BY <1>1, <2>3 DEF Inv, RowsOK
    <3>5. \A e, f \in DOMAIN devices' : e # f => <<devices'[e].name, devices'[e].site>>
                                                 # <<devices'[f].name, devices'[f].site>>
      BY <2>3, <2>4 DEF Inv, RowsOK
    <3> QED BY <1>4, <2>3, <3>1, <3>2, <3>3, <3>4, <3>5 DEF Inv, RowsOK
  <2>6. \A e \in DOMAIN devices : Excused(e) => (Excused(e))'
    BY <1>1, <2>3 DEF Excused
  <2>7. RowsReviewed'
    <3>1. \A e \in DOMAIN servers : e \in DOMAIN devices
      BY DEF Inv, RowsOK
    <3> QED BY <1>1, <2>2, <2>3, <2>6, <3>1 DEF Inv, RowsReviewed
  <2>8. RowsKept
    <3>1. \A e \in 0..made.dev : e \in DOMAIN devices' => e \in DOMAIN devices
      BY <2>1, <2>3 DEF d
    <3>2. made.dev <= made'.dev /\ made.srv <= made'.srv
      BY <2>1, <2>3 DEF d
    <3> QED BY <1>1, <2>6, <3>1, <3>2 DEF RowsKept, Kept, Excused
  <2>9. scan[s] \in ScanType
    BY DEF Inv, ScansOK
  <2>10. scan' = [scan EXCEPT ![s] = r]
    BY <1>4, <2>9 DEF Inv, ScansOK, ScanType
  <2>11. r \in ScanType /\ r.pc = "attach" /\ r.dev = d /\ r.todo = scan[s].todo /\ r.new
    BY <2>1, <2>9 DEF ScanType, Importing, d
  <2> HIDE DEF r
  <2>12. scan' \in [Scans -> ScanType] /\ scan'[s] = r /\ \A t \in Scans \ {s} : scan'[t] = scan[t]
    BY <2>10, <2>11 DEF Inv, ScansOK
  <2>13. GoodScan(scan[s])'
    BY <1>2, <2>1, <2>3, <2>11, <2>12 DEF GoodScan, d
  <2> QED BY <1>1, <2>5, <2>7, <2>8, <2>12, <2>13, ScansStay
<1> QED BY <1>1, <1>3, <1>4

\* A scan gives its target up, or is killed, and its device may be left alone.
LEMMA StrayedInv ==
    ASSUME Inv, NEW s \in Scans, NEW D, Fault, Strayed(D), NEW r \in ScanType,
           r.dev = 0, r.pc \in {"idle", "check"}, scan' = [scan EXCEPT ![s] = r],
           UNCHANGED <<devices, servers, edit, made>>
    PROVE  Inv'
<1>1. stray \subseteq stray'
  BY DEF Strayed
<1>2. RowsOK'
  BY FaultCounts DEF Inv, RowsOK
<1>3. RowsReviewed'
  BY <1>1 DEF Inv, RowsReviewed, Excused
<1>4. RowsKept
  BY <1>1 DEF RowsKept, Excused, Kept, Inv, RowsOK
<1>5. scan' \in [Scans -> ScanType] /\ scan'[s] = r /\ \A t \in Scans \ {s} : scan'[t] = scan[t]
  BY DEF Inv, ScansOK
<1>6. GoodScan(scan[s])'
  BY <1>2, <1>5 DEF GoodScan, Importing, RowsOK
<1> QED BY <1>2, <1>3, <1>4, <1>5, <1>6, ScansStay

\* A DellServer row is written.
LEMMA ServerStored ==
    ASSUME Inv, NEW d \in DOMAIN devices, NEW row \in ServerType,
           servers' = WithServer(d, row), row.id \in 1..made'.srv,
           row.confirmed => (Excused(d))', stray \subseteq stray',
           made' \in [dev : Nat, srv : Nat, edit : Nat], made'.dev = made.dev, made.srv <= made'.srv,
           faults' \in 0..MaxFaults, UNCHANGED devices
    PROVE  RowsOK' /\ RowsReviewed' /\ RowsKept
<1>1. /\ DOMAIN servers' = DOMAIN servers \cup {d} /\ servers'[d] = row
      /\ \A e \in DOMAIN servers \ {d} : servers'[e] = servers[e]
  BY DEF WithServer
<1>2. made.dev \in Nat /\ made.srv \in Nat /\ made'.srv \in Nat
  BY DEF Inv, RowsOK
<1>3. RowsOK'
  <2>1. servers' \in [DOMAIN servers' -> ServerType]
    BY <1>1 DEF Inv, RowsOK, WithServer
  <2>2. \A e \in DOMAIN servers' : servers'[e].id \in 1..made'.srv
    BY <1>1, <1>2 DEF Inv, RowsOK
  <2> QED BY <1>1, <2>1, <2>2 DEF Inv, RowsOK
<1>4. \A e : Excused(e) => (Excused(e))'
  BY DEF Excused
<1>5. RowsReviewed'
  BY <1>1, <1>4 DEF Inv, RowsReviewed
<1>6. RowsKept
  BY <1>1, <1>2, <1>4 DEF RowsKept, Kept
<1> QED BY <1>3, <1>5, <1>6

\* A scan takes hold of its device's server.
LEMMA Holding ==
    ASSUME Inv, NEW s \in Scans, scan[s].pc = "attach", NEW row \in ServerType,
           NEW d, d = scan[s].dev,
           scan' = [scan EXCEPT ![s].pc = "device", ![s].srv = row, ![s].new = FALSE],
           row.id \in 1..made'.srv, made'.dev = made.dev, row.confirmed => Excused(d)',
           Kept(d)', RowsOK', RowsReviewed', RowsKept, UNCHANGED edit
    PROVE  Inv'
<1> DEFINE r == [scan[s] EXCEPT !.pc = "device", !.srv = row, !.new = FALSE]
<1>1. scan[s] \in ScanType /\ GoodScan(scan[s])
  BY DEF Inv, ScansOK
<1>2. scan' = [scan EXCEPT ![s] = r]
  BY <1>1 DEF ScanType
<1>3. r \in ScanType /\ r.pc = "device" /\ r.srv = row /\ r.dev = scan[s].dev
      /\ r.todo = scan[s].todo
  BY <1>1 DEF ScanType, Importing
<1> HIDE DEF r
<1>4. scan' \in [Scans -> ScanType] /\ scan'[s] = r /\ \A t \in Scans \ {s} : scan'[t] = scan[t]
  BY <1>2, <1>3 DEF Inv, ScansOK
<1>5. scan[s].todo # <<>> /\ scan[s].dev \in 0..made.dev
  BY <1>1 DEF GoodScan, Importing
<1>6. GoodScan(scan[s])'
  <2>1. scan'[s].dev = d /\ scan'[s].srv = row
    BY <1>3, <1>4
  <2> QED BY <1>3, <1>4, <1>5, <2>1 DEF GoodScan
<1> QED BY <1>4, <1>6, ScansStay

LEMMA AttachInv ==
    ASSUME Inv, NEW s \in Scans, Attach(s) PROVE Inv'
<1>0. PICK d : d = scan[s].dev
  OBVIOUS
<1> DEFINE new == [id |-> made.srv + 1, addr |-> Target(s), confirmed |-> ~scan[s].new]
           Holds(row) == scan' = [scan EXCEPT ![s].pc = "device", ![s].srv = row, ![s].new = FALSE]
<1>1. /\ scan[s].pc = "attach" /\ UNCHANGED <<devices, edit>>
      /\ \/ /\ d \in DOMAIN servers
            /\ Holds(servers[d]) /\ UNCHANGED <<servers, made, faults, stray>>
         \/ /\ d \in DOMAIN devices \ DOMAIN servers
            /\ servers' = WithServer(d, new) /\ made' = [made EXCEPT !.srv = made.srv + 1]
            /\ Holds(new) /\ UNCHANGED <<faults, stray>>
         \/ NextTarget(s) /\ UNCHANGED <<servers, made, faults, stray>>
         \/ /\ Fault /\ NextTarget(s) /\ UNCHANGED <<servers, made>>
            /\ \E D : Strayed(D)
  BY <1>0 DEF Attach, Confirmed
<1>2. scan[s].todo # <<>> /\ Target(s) \in Machines /\ GoodScan(scan[s]) /\ scan[s] \in ScanType
  BY <1>1, TargetIs DEF Importing, Inv, ScansOK
<1>3. CASE d \in DOMAIN servers /\ Holds(servers[d]) /\ UNCHANGED <<servers, made, faults, stray>>
  <2>1. servers[d] \in ServerType /\ servers[d].id \in 1..made.srv
        /\ (servers[d].confirmed => Excused(d))
    BY <1>3 DEF Inv, RowsOK, RowsReviewed
  <2>2. RowsOK' /\ RowsReviewed' /\ RowsKept
    BY <1>1, <1>3, NothingKept DEF Inv, RowsOK
  <2>3. (Excused(d) => Excused(d)') /\ Kept(d)'
    BY <1>1, <1>3 DEF Excused, Kept
  <2> QED BY <1>0, <1>1, <1>3, <2>1, <2>2, <2>3, Holding
<1>4. CASE /\ d \in DOMAIN devices \ DOMAIN servers
           /\ servers' = WithServer(d, new) /\ made' = [made EXCEPT !.srv = made.srv + 1]
           /\ Holds(new) /\ UNCHANGED <<faults, stray>>
  <2>1. made \in [dev : Nat, srv : Nat, edit : Nat] /\ faults \in 0..MaxFaults
    BY DEF Inv, RowsOK
  <2>2. /\ made' \in [dev : Nat, srv : Nat, edit : Nat] /\ made'.dev = made.dev
        /\ made'.srv = made.srv + 1 /\ made.srv <= made'.srv /\ made.srv + 1 \in 1..made'.srv
    BY <1>4, <2>1
  <2>3. new \in ServerType /\ new.id = made.srv + 1 /\ new.confirmed = ~scan[s].new
    BY <1>2, <2>1 DEF ServerType, ScanType
  <2>4. new.confirmed => Excused(d)
    BY <1>0, <1>1, <1>2, <1>4, <2>3 DEF GoodScan, Kept, ScanType
  <2>5. Excused(d) => Excused(d)'
    BY <1>1, <1>4 DEF Excused
  <2>6. Kept(d)'
    BY <1>1, <1>4 DEF Kept, WithServer
  <2> HIDE DEF new
  <2>7. RowsOK' /\ RowsReviewed' /\ RowsKept
    BY <1>1, <1>4, <2>1, <2>2, <2>3, <2>4, <2>5, ServerStored
  <2> QED BY <1>0, <1>1, <1>4, <2>2, <2>3, <2>4, <2>5, <2>6, <2>7, Holding
<1>5. CASE NextTarget(s) /\ UNCHANGED <<servers, made, faults, stray>>
  BY <1>1, <1>2, <1>5, NextTargetInv
<1>6. CASE Fault /\ NextTarget(s) /\ UNCHANGED <<servers, made>> /\ \E D : Strayed(D)
  <2>1. scan' = [scan EXCEPT ![s] = NextOf(s)]
    BY <1>6 DEF NextTarget, NextOf
  <2>2. NextOf(s) \in ScanType /\ NextOf(s).dev = 0 /\ NextOf(s).pc = "check"
    BY <1>2, NextIs
  <2> QED BY <1>1, <1>6, <2>1, <2>2, StrayedInv
<1> QED BY <1>1, <1>3, <1>4, <1>5, <1>6

-----------------------------------------------------------------------------
(* The sync of a scan, and its end.                                        *)

LEMMA TagIs == ASSUME NEW m \in Machines PROVE Tag(m) \in Machines \cup {NoTag}
BY DEF Tag

\* A device that has its server, or is excused, may get its tag.
LEMMA LabelledKeeps ==
    ASSUME Inv, NEW d, Kept(d), NEW m \in Machines, Labelled(d, m),
           faults' \in 0..MaxFaults, UNCHANGED <<servers, made, stray>>
    PROVE  RowsOK' /\ RowsReviewed' /\ RowsKept
<1>1. /\ DOMAIN devices' = DOMAIN devices
      /\ \A e \in DOMAIN devices \ {d} : devices'[e] = devices[e]
      /\ \A e \in DOMAIN devices : /\ devices'[e].name = devices[e].name
                                   /\ devices'[e].site = devices[e].site
                                   /\ devices'[e].found = devices[e].found
      /\ devices' \in [DOMAIN devices' -> DeviceType]
  BY TagIs DEF Labelled, Inv, RowsOK, DeviceType
<1>2. RowsOK'
  BY <1>1 DEF Inv, RowsOK
<1>3. \A e : (Excused(e) <=> (Excused(e))') /\ (Kept(e) <=> (Kept(e))')
  BY <1>1 DEF Excused, Kept
<1>4. RowsReviewed'
  <2>1. ASSUME NEW e \in DOMAIN devices' \ DOMAIN servers'
        PROVE  (Excused(e))' \/ devices'[e].tag = NoTag
    BY <1>1, <1>3 DEF Inv, RowsReviewed, Kept
  <2> QED BY <1>3, <2>1 DEF Inv, RowsReviewed
<1>5. RowsKept
  BY <1>3 DEF RowsKept, Inv, RowsOK
<1> QED BY <1>2, <1>4, <1>5

LEMMA SyncDeviceInv ==
    ASSUME Inv, NEW s \in Scans, SyncDevice(s) PROVE Inv'
<1>0. PICK d : d = scan[s].dev
  OBVIOUS
<1>1. /\ scan[s].pc = "device" /\ UNCHANGED <<servers, edit, made, stray>>
      /\ \/ Labelled(d, Target(s)) /\ Goto(s, "save") /\ UNCHANGED faults
         \/ Fault /\ Goto(s, "save") /\ UNCHANGED devices
         \/ Fault /\ NextTarget(s) /\ UNCHANGED devices
  BY <1>0 DEF SyncDevice
<1>2. scan[s].todo # <<>> /\ Target(s) \in Machines /\ GoodScan(scan[s]) /\ scan[s] \in ScanType
  BY <1>1, TargetIs DEF Importing, Inv, ScansOK
<1>3. CASE Fault /\ NextTarget(s) /\ UNCHANGED devices
  BY <1>1, <1>2, <1>3, NextTargetInv
<1>4. CASE /\ \/ Labelled(d, Target(s)) /\ UNCHANGED faults
              \/ Fault /\ UNCHANGED devices
           /\ Goto(s, "save")
  <2>1. RowsOK' /\ RowsReviewed' /\ RowsKept
    <3>1. faults' \in 0..MaxFaults
      BY <1>4, FaultCounts
    <3>2. CASE Labelled(d, Target(s))
      <4>1. Kept(d)
        BY <1>0, <1>1, <1>2 DEF GoodScan
      <4> QED BY <1>1, <1>2, <3>1, <3>2, <4>1, LabelledKeeps
    <3>3. CASE UNCHANGED devices
      BY <1>1, <3>1, <3>3, NothingKept DEF Inv, RowsOK
    <3> QED BY <1>4, <3>2, <3>3
  <2> DEFINE r == [scan[s] EXCEPT !.pc = "save"]
  <2>2. scan' = [scan EXCEPT ![s] = r]
    BY <1>2, <1>4 DEF Goto, ScanType
  <2>3. r \in ScanType /\ r.pc = "save" /\ r.dev = d /\ r.todo = scan[s].todo /\ r.srv = scan[s].srv
    BY <1>0, <1>2 DEF ScanType, Importing
  <2> HIDE DEF r
  <2>4. scan' \in [Scans -> ScanType] /\ scan'[s] = r /\ \A t \in Scans \ {s} : scan'[t] = scan[t]
    BY <2>2, <2>3 DEF Inv, ScansOK
  <2>5. /\ d \in 0..made.dev /\ r.srv \in ServerType /\ r.srv.id \in 1..made.srv
        /\ Kept(d) /\ (r.srv.confirmed => Excused(d))
    BY <1>0, <1>1, <1>2, <2>3 DEF GoodScan
  <2>6. (Kept(d))' /\ (r.srv.confirmed => (Excused(d))')
    BY <2>1, <2>5 DEF RowsKept
  <2>7. GoodScan(scan[s])'
    BY <1>1, <1>2, <2>3, <2>4, <2>5, <2>6 DEF GoodScan
  <2> QED BY <1>1, <2>1, <2>4, <2>7, ScansStay
<1> QED BY <1>1, <1>3, <1>4

LEMMA SyncSaveInv ==
    ASSUME Inv, NEW s \in Scans, SyncSave(s) PROVE Inv'
<1>0. PICK d : d = scan[s].dev
  OBVIOUS
<1>1. /\ scan[s].pc = "save" /\ NextTarget(s) /\ UNCHANGED <<devices, edit, made, stray>>
      /\ \/ d \in DOMAIN devices /\ servers' = WithServer(d, scan[s].srv) /\ UNCHANGED faults
         \/ UNCHANGED <<servers, faults>>
         \/ Fault /\ UNCHANGED servers
  BY <1>0 DEF SyncSave
<1>2. scan[s].todo # <<>> /\ GoodScan(scan[s])
  BY <1>1, TargetIs DEF Importing, Inv, ScansOK
<1>3. CASE UNCHANGED servers /\ (Fault \/ UNCHANGED faults)
  BY <1>1, <1>2, <1>3, NextTargetInv
<1>4. CASE d \in DOMAIN devices /\ servers' = WithServer(d, scan[s].srv) /\ UNCHANGED faults
  <2>1. PICK row : row = scan[s].srv
    OBVIOUS
  <2>2. row \in ServerType /\ row.id \in 1..made.srv /\ (row.confirmed => Excused(d))
    BY <1>0, <1>1, <1>2, <2>1 DEF GoodScan
  <2>3. Excused(d) => (Excused(d))'
    BY <1>1 DEF Excused
  <2>4. made \in [dev : Nat, srv : Nat, edit : Nat] /\ made.srv <= made.srv /\ faults \in 0..MaxFaults
    BY DEF Inv, RowsOK
  <2>5. RowsOK' /\ RowsReviewed' /\ RowsKept
    BY <1>1, <1>4, <2>1, <2>2, <2>3, <2>4, ServerStored
  <2>6. scan' = [scan EXCEPT ![s] = NextOf(s)]
    BY <1>1 DEF NextTarget, NextOf
  <2>7. NextOf(s) \in ScanType /\ NextOf(s).dev = 0 /\ NextOf(s).pc = "check"
    BY <1>2, NextIs
  <2>8. /\ scan' \in [Scans -> ScanType] /\ scan'[s] = NextOf(s)
        /\ \A t \in Scans \ {s} : scan'[t] = scan[t]
    BY <2>6, <2>7 DEF Inv, ScansOK
  <2>9. GoodScan(scan[s])'
    BY <1>1, <2>4, <2>7, <2>8 DEF GoodScan, Importing
  <2> QED BY <1>1, <2>5, <2>8, <2>9, ScansStay
<1> QED BY <1>1, <1>3, <1>4

LEMMA KillInv ==
    ASSUME Inv, NEW s \in Scans, Kill(s) PROVE Inv'
<1>1. /\ Fault /\ scan' = [scan EXCEPT ![s] = IdleScan]
      /\ UNCHANGED <<devices, servers, edit, made>> /\ \E D : Strayed(D)
  BY DEF Kill
<1> QED BY <1>1, IdleIs, StrayedInv

-----------------------------------------------------------------------------
(* The other writers.                                                      *)

\* A step that leaves the scans alone.
LEMMA RowsMove ==
    ASSUME Inv, RowsOK', RowsReviewed', RowsKept, UNCHANGED <<scan, edit>>
    PROVE  Inv'
<1>1. scan' \in [Scans -> ScanType]
  BY DEF Inv, ScansOK
<1> QED BY <1>1, ScansStay

LEMMA ResyncInv ==
    ASSUME Inv, NEW d, Resync(d) PROVE Inv'
<1>1. /\ d \in DOMAIN servers /\ Labelled(d, devices[d].of)
      /\ UNCHANGED <<servers, scan, edit, made, faults, stray>>
  BY DEF Resync
<1>2. Kept(d) /\ devices[d].of \in Machines /\ faults' \in 0..MaxFaults
  BY <1>1 DEF Kept, Inv, RowsOK, DeviceType
<1>3. RowsOK' /\ RowsReviewed' /\ RowsKept
  BY <1>1, <1>2, LabelledKeeps
<1> QED BY <1>1, <1>3, RowsMove

LEMMA ConfirmSiteInv ==
    ASSUME Inv, NEW d, ConfirmSite(d) PROVE Inv'
<1>1. /\ d \in DOMAIN servers /\ UNCHANGED <<scan, edit, made, faults, stray>>
      /\ servers' = [servers EXCEPT ![d].confirmed = TRUE]
      /\ \E site \in Sites :
            /\ site = devices[d].site \/ ~NameTaken(devices[d].name, site)
            /\ devices' = [devices EXCEPT ![d].site = site, ![d].found = FALSE]
  BY DEF ConfirmSite
<1>2. PICK site \in Sites :
         /\ site = devices[d].site \/ ~NameTaken(devices[d].name, site)
         /\ devices' = [devices EXCEPT ![d].site = site, ![d].found = FALSE]
  BY <1>1
<1>3. d \in DOMAIN devices /\ devices[d] \in DeviceType /\ servers[d] \in ServerType
  BY <1>1 DEF Inv, RowsOK
<1>4. /\ DOMAIN devices' = DOMAIN devices
      /\ \A e \in DOMAIN devices \ {d} : devices'[e] = devices[e]
      /\ devices'[d].name = devices[d].name /\ devices'[d].site = site
      /\ devices'[d].found = FALSE /\ devices' \in [DOMAIN devices' -> DeviceType]
  BY <1>2, <1>3 DEF Inv, RowsOK, DeviceType
<1>5. /\ DOMAIN servers' = DOMAIN servers /\ servers' \in [DOMAIN servers' -> ServerType]
      /\ \A e \in DOMAIN servers \ {d} : servers'[e] = servers[e]
      /\ \A e \in DOMAIN servers : servers'[e].id = servers[e].id
  BY <1>1, <1>3 DEF Inv, RowsOK, ServerType
<1>6. \A e, f \in DOMAIN devices' : e # f => <<devices'[e].name, devices'[e].site>>
                                             # <<devices'[f].name, devices'[f].site>>
  <2>1. \A e \in DOMAIN devices \ {d} : <<devices[e].name, devices[e].site>>
                                        # <<devices[d].name, site>>
    BY <1>2, <1>3 DEF NameTaken, Inv, RowsOK
  <2> QED BY <1>4, <2>1 DEF Inv, RowsOK
<1>7. RowsOK'
  BY <1>1, <1>4, <1>5, <1>6 DEF Inv, RowsOK
<1>8. (Excused(d))' /\ \A e \in DOMAIN devices \ {d} : Excused(e) <=> (Excused(e))'
  BY <1>1, <1>4 DEF Excused
<1>9. RowsReviewed'
  <2>1. ASSUME NEW e \in DOMAIN devices' \ DOMAIN servers'
        PROVE  (Excused(e))' \/ devices'[e].tag = NoTag
    BY <1>4, <1>5, <1>8, <1>1 DEF Inv, RowsReviewed
  <2>2. ASSUME NEW e \in DOMAIN servers', servers'[e].confirmed PROVE (Excused(e))'
    <3>1. CASE e = d
      BY <1>8, <3>1
    <3>2. CASE e # d
      BY <1>5, <1>8, <2>2, <3>2 DEF Inv, RowsOK, RowsReviewed
    <3> QED BY <3>1, <3>2
  <2> QED BY <2>1, <2>2 DEF RowsReviewed
<1>10. RowsKept
  BY <1>1, <1>4, <1>5, <1>8 DEF RowsKept, Kept, Excused, Inv, RowsOK
<1> QED BY <1>1, <1>7, <1>9, <1>10, RowsMove

LEMMA AddServerInv ==
    ASSUME Inv, NEW d, AddServer(d) PROVE Inv'
<1>1. /\ d \in DOMAIN devices /\ UNCHANGED <<devices, scan, edit, faults>> /\ Strayed({d})
      /\ made' = [made EXCEPT !.srv = made.srv + 1, !.edit = made.edit + 1]
      /\ \E addr \in {devices[d].of, HostName} :
            servers' = WithServer(d, [id |-> made.srv + 1, addr |-> addr, confirmed |-> TRUE])
  BY DEF AddServer
<1>2. PICK addr \in {devices[d].of, HostName} :
         servers' = WithServer(d, [id |-> made.srv + 1, addr |-> addr, confirmed |-> TRUE])
  BY <1>1
<1> DEFINE row == [id |-> made.srv + 1, addr |-> addr, confirmed |-> TRUE]
<1>3. made \in [dev : Nat, srv : Nat, edit : Nat] /\ faults \in 0..MaxFaults /\ devices[d].of \in Machines
  BY <1>1 DEF Inv, RowsOK, DeviceType
<1>4. /\ made' \in [dev : Nat, srv : Nat, edit : Nat] /\ made'.dev = made.dev
      /\ made.srv <= made'.srv /\ made.srv + 1 \in 1..made'.srv
  <2>1. made' = [dev |-> made.dev, srv |-> made.srv + 1, edit |-> made.edit + 1]
    BY <1>1, <1>3
  <2> QED BY <1>3, <2>1
<1>5. row \in ServerType /\ row.id = made.srv + 1
  BY <1>2, <1>3 DEF ServerType
<1>6. stray \subseteq stray' /\ (Excused(d))'
  BY <1>1 DEF Strayed, Excused
<1> HIDE DEF row
<1>7. servers' = WithServer(d, row)
  BY <1>2 DEF row
<1>8. RowsOK' /\ RowsReviewed' /\ RowsKept
  BY <1>1, <1>3, <1>4, <1>5, <1>6, <1>7, ServerStored
<1> QED BY <1>1, <1>8, RowsMove

LEMMA DeleteServerInv ==
    ASSUME Inv, NEW d, DeleteServer(d) PROVE Inv'
<1>1. /\ d \in DOMAIN servers /\ UNCHANGED <<devices, scan, edit, made, faults>> /\ Strayed({d})
      /\ servers' = Restrict(servers, DOMAIN servers \ {d})
  BY DEF DeleteServer
<1>2. /\ DOMAIN servers' = DOMAIN servers \ {d}
      /\ \A e \in DOMAIN servers' : servers'[e] = servers[e]
      /\ servers' = [e \in DOMAIN servers \ {d} |-> servers[e]]
  BY <1>1 DEF Restrict
<1>3. (Excused(d))' /\ \A e : Excused(e) => (Excused(e))'
  BY <1>1 DEF Strayed, Excused
<1>4. RowsOK'
  BY <1>1, <1>2 DEF Inv, RowsOK
<1>5. RowsReviewed'
  BY <1>1, <1>2, <1>3 DEF Inv, RowsReviewed
<1>6. RowsKept
  BY <1>1, <1>2, <1>3 DEF RowsKept, Kept, Inv, RowsOK
<1> QED BY <1>1, <1>4, <1>5, <1>6, RowsMove

LEMMA DeleteDeviceInv ==
    ASSUME Inv, NEW d, DeleteDevice(d) PROVE Inv'
<1>1. /\ d \in DOMAIN devices /\ UNCHANGED <<scan, edit, made, faults, stray>>
      /\ devices' = Restrict(devices, DOMAIN devices \ {d})
      /\ servers' = Restrict(servers, DOMAIN servers \ {d})
  BY DEF DeleteDevice
<1>2. /\ DOMAIN servers' = DOMAIN servers \ {d} /\ DOMAIN devices' = DOMAIN devices \ {d}
      /\ \A e \in DOMAIN servers' : servers'[e] = servers[e]
      /\ \A e \in DOMAIN devices' : devices'[e] = devices[e]
      /\ servers' = [e \in DOMAIN servers \ {d} |-> servers[e]]
      /\ devices' = [e \in DOMAIN devices \ {d} |-> devices[e]]
  BY <1>1 DEF Restrict
<1>3. (Excused(d))' /\ \A e : Excused(e) => (Excused(e))'
  BY <1>1, <1>2 DEF Excused
<1>4. RowsOK'
  <2>1. /\ devices' \in [DOMAIN devices' -> DeviceType]
        /\ servers' \in [DOMAIN servers' -> ServerType]
    BY <1>2 DEF Inv, RowsOK
  <2>2. /\ DOMAIN devices' \subseteq 1..made'.dev /\ DOMAIN servers' \subseteq DOMAIN devices'
        /\ \A e \in DOMAIN servers' : servers'[e].id \in 1..made'.srv
    BY <1>1, <1>2 DEF Inv, RowsOK
  <2>3. \A e, f \in DOMAIN devices' : e # f => <<devices'[e].name, devices'[e].site>>
                                               # <<devices'[f].name, devices'[f].site>>
    BY <1>2 DEF Inv, RowsOK
  <2> QED BY <1>1, <2>1, <2>2, <2>3 DEF Inv, RowsOK
<1>5. RowsReviewed'
  BY <1>1, <1>2, <1>3 DEF Inv, RowsReviewed
<1>6. RowsKept
  BY <1>1, <1>2, <1>3 DEF RowsKept, Kept, Inv, RowsOK
<1> QED BY <1>1, <1>4, <1>5, <1>6, RowsMove

-----------------------------------------------------------------------------
(* The edits.                                                              *)

LEMMA OpenEditInv ==
    ASSUME Inv, NEW e \in Editors, NEW d, OpenEdit(e, d) PROVE Inv'
<1> DEFINE r == [dev |-> d, id |-> servers[d].id, confirmed |-> servers[d].confirmed,
                 tag |-> devices[d].tag, of |-> devices[d].of]
<1>1. /\ d \in DOMAIN servers /\ edit' = [edit EXCEPT ![e] = r]
      /\ made' = [made EXCEPT !.edit = made.edit + 1]
      /\ UNCHANGED <<devices, servers, scan, faults, stray>>
  BY DEF OpenEdit
<1>2. /\ d \in DOMAIN devices /\ d \in 1..made.dev /\ d \in Nat \ {0}
      /\ devices[d] \in DeviceType /\ servers[d] \in ServerType
      /\ servers[d].id \in 1..made.srv /\ made \in [dev : Nat, srv : Nat, edit : Nat]
  BY <1>1 DEF Inv, RowsOK
<1>3. /\ made' \in [dev : Nat, srv : Nat, edit : Nat]
      /\ made'.dev = made.dev /\ made'.srv = made.srv
  BY <1>1, <1>2
<1>4. \A f : (Excused(f) <=> (Excused(f))') /\ (Kept(f) <=> (Kept(f))')
  BY <1>1 DEF Excused, Kept
<1>5. RowsOK' /\ RowsReviewed' /\ ScansOK'
  BY <1>1, <1>3, <1>4 DEF Inv, RowsOK, RowsReviewed, ScansOK, GoodScan
<1>6. r \in EditType /\ r.dev = d /\ r.id = servers[d].id
      /\ r.confirmed = servers[d].confirmed
  BY <1>2 DEF EditType, DeviceType, ServerType
<1>7. r.confirmed => Excused(r.dev)
  BY <1>1, <1>6 DEF Inv, RowsReviewed
<1> HIDE DEF r
<1>8. /\ edit' \in [Editors -> EditType \cup {NoEdit}] /\ edit'[e] = r
      /\ \A f \in Editors \ {e} : edit'[f] = edit[f]
  BY <1>1, <1>6 DEF Inv, EditsOK
<1>9. (GoodEdit(edit[e]))'
  BY <1>2, <1>3, <1>4, <1>6, <1>7, <1>8 DEF GoodEdit
<1>10. RowsKept
  BY <1>2, <1>3, <1>4 DEF RowsKept
<1> QED BY <1>5, <1>8, <1>9, <1>10, EditsStay DEF Inv

\* An edit ends.
LEMMA EditEnds ==
    ASSUME Inv, NEW e \in Editors, edit' = [edit EXCEPT ![e] = NoEdit],
           RowsOK', RowsReviewed', RowsKept, UNCHANGED scan
    PROVE  Inv'
<1>1. /\ edit' \in [Editors -> EditType \cup {NoEdit}] /\ edit'[e] = NoEdit
      /\ \A f \in Editors \ {e} : edit'[f] = edit[f]
  BY DEF Inv, EditsOK
<1>2. \A f \in Editors : edit'[f] = edit[f] \/ (GoodEdit(edit[f]))'
  BY <1>1 DEF GoodEdit
<1>3. EditsOK'
  BY <1>1, <1>2, EditsStay
<1>4. ScansOK'
  <2>1. scan' \in [Scans -> ScanType]
    BY DEF Inv, ScansOK
  <2>2. ASSUME NEW s \in Scans PROVE (GoodScan(scan[s]))'
    <3>1. GoodScan(scan[s]) /\ scan'[s] = scan[s]
      BY DEF Inv, ScansOK
    <3>2. made.dev \in Nat /\ made.srv \in Nat /\ made'.dev \in Nat /\ made'.srv \in Nat
      BY DEF Inv, RowsOK
    <3>3. scan[s].dev \in 0..made.dev /\ scan[s].dev \in 0..made'.dev
      BY <3>1, <3>2 DEF GoodScan, RowsKept
    <3>4. scan[s].srv.id \in 1..made.srv => scan[s].srv.id \in 1..made'.srv
      BY <3>2 DEF RowsKept
    <3>5. (Excused(scan[s].dev) => (Excused(scan[s].dev))')
          /\ (Kept(scan[s].dev) => (Kept(scan[s].dev))')
      BY <3>1, <3>3 DEF RowsKept
    <3> QED BY <3>1, <3>3, <3>4, <3>5 DEF GoodScan
  <2> QED BY <2>1, <2>2 DEF ScansOK
<1> QED BY <1>3, <1>4 DEF Inv

LEMMA DropEditInv ==
    ASSUME Inv, NEW e \in Editors, DropEdit(e) PROVE Inv'
<1>1. /\ edit' = [edit EXCEPT ![e] = NoEdit]
      /\ UNCHANGED <<devices, servers, scan, made, faults, stray>>
  BY DEF DropEdit
<1>2. RowsOK'
  BY <1>1 DEF Inv, RowsOK
<1> QED BY <1>1, <1>2, NothingKept, EditEnds

\* An edit writes both rows.
LEMMA SaveRowsInv ==
    ASSUME Inv, NEW e \in Editors, edit[e] # NoEdit, NEW dev \in DeviceType,
           NEW row \in ServerType, SaveRows(e, dev, row), row.id = edit[e].id,
           dev.found => edit[e].dev \in DOMAIN devices /\ devices[edit[e].dev].found,
           dev.found /\ row.confirmed => edit[e].confirmed,
           edit' = [edit EXCEPT ![e] = NoEdit], UNCHANGED <<scan, made, faults>>
    PROVE  Inv'
<1>0. PICK d : d = edit[e].dev
  OBVIOUS
<1>1. /\ d \in 1..made.dev /\ row.id \in 1..made.srv
      /\ edit[e].confirmed => Excused(d)
  BY <1>0 DEF Inv, EditsOK, GoodEdit
<1>2. /\ \A f \in DOMAIN devices \ {d} : <<devices[f].name, devices[f].site>>
                                           # <<dev.name, dev.site>>
      /\ devices' = [f \in DOMAIN devices \cup {d} |-> IF f = d THEN dev ELSE devices[f]]
      /\ servers' = WithServer(d, row) /\ stray \subseteq stray'
  BY <1>0 DEF SaveRows, Strayed
<1>3. /\ DOMAIN devices' = DOMAIN devices \cup {d} /\ devices'[d] = dev
      /\ \A f \in DOMAIN devices \ {d} : devices'[f] = devices[f]
      /\ DOMAIN servers' = DOMAIN servers \cup {d} /\ servers'[d] = row
      /\ \A f \in DOMAIN servers \ {d} : servers'[f] = servers[f]
  BY <1>2 DEF WithServer
<1>4. RowsOK'
  <2>1. DOMAIN devices' \subseteq 1..made'.dev /\ DOMAIN servers' \subseteq DOMAIN devices'
    BY <1>1, <1>3 DEF Inv, RowsOK
  <2>2. devices' \in [DOMAIN devices' -> DeviceType]
    BY <1>2, <1>3 DEF Inv, RowsOK
  <2>3. servers' \in [DOMAIN servers' -> ServerType]
    BY <1>2, <1>3 DEF Inv, RowsOK, WithServer
  <2>4. \A f \in DOMAIN servers' : servers'[f].id \in 1..made'.srv
    BY <1>1, <1>3 DEF Inv, RowsOK
  <2>5. \A f, g \in DOMAIN devices' : f # g => <<devices'[f].name, devices'[f].site>>
                                               # <<devices'[g].name, devices'[g].site>>
    BY <1>2, <1>3 DEF Inv, RowsOK
  <2> QED BY <2>1, <2>2, <2>3, <2>4, <2>5 DEF Inv, RowsOK
<1>5. \A f : Excused(f) => (Excused(f))'
  BY <1>0, <1>2, <1>3 DEF Excused
<1>6. RowsReviewed'
  <2>1. row.confirmed => (Excused(d))'
    BY <1>0, <1>1, <1>3, <1>5 DEF Excused
  <2>2. ASSUME NEW f \in DOMAIN devices' \ DOMAIN servers'
        PROVE  (Excused(f))' \/ devices'[f].tag = NoTag
    BY <1>3, <1>5 DEF Inv, RowsReviewed
  <2>3. ASSUME NEW f \in DOMAIN servers', servers'[f].confirmed PROVE (Excused(f))'
    BY <1>3, <1>5, <2>1, <2>3 DEF Inv, RowsReviewed
  <2> QED BY <2>2, <2>3 DEF RowsReviewed
<1>7. RowsKept
  BY <1>3, <1>5 DEF RowsKept, Kept, Inv, RowsOK
<1> QED BY <1>4, <1>6, <1>7, EditEnds

\* What an edit may write.
LEMMA EditIs ==
    ASSUME Inv, NEW e \in Editors, edit[e] # NoEdit
    PROVE  edit[e] \in EditType
BY DEF Inv, EditsOK

LEMMA SaveFormInv ==
    ASSUME Inv, NEW e \in Editors, SaveForm(e) PROVE Inv'
<1>1. PICK name \in Names, site \in Sites, addr \in {edit[e].of, HostName} :
         SaveRows(e, [name |-> name, site |-> site, tag |-> edit[e].tag, of |-> edit[e].of,
                      found |-> edit[e].dev \in DOMAIN devices /\ devices[edit[e].dev].found],
                  [id |-> edit[e].id, addr |-> addr, confirmed |-> edit[e].confirmed])
  BY DEF SaveForm
<1> DEFINE dev == [name |-> name, site |-> site, tag |-> edit[e].tag, of |-> edit[e].of,
                   found |-> edit[e].dev \in DOMAIN devices /\ devices[edit[e].dev].found]
           row == [id |-> edit[e].id, addr |-> addr, confirmed |-> edit[e].confirmed]
<1>2. /\ edit[e] # NoEdit /\ edit' = [edit EXCEPT ![e] = NoEdit]
      /\ UNCHANGED <<scan, made, faults>>
  BY DEF SaveForm
<1>3. edit[e] \in EditType
  BY <1>2, EditIs
<1>4. (edit[e].dev \in DOMAIN devices /\ devices[edit[e].dev].found) \in BOOLEAN
  OBVIOUS
<1>5. dev \in DeviceType
  BY <1>3, <1>4 DEF EditType, DeviceType
<1>6. row \in ServerType
  BY <1>1, <1>3 DEF EditType, ServerType
<1>7. /\ row.id = edit[e].id /\ row.confirmed = edit[e].confirmed
      /\ dev.found => edit[e].dev \in DOMAIN devices /\ devices[edit[e].dev].found
  OBVIOUS
<1>8. SaveRows(e, dev, row)
  BY <1>1
<1> HIDE DEF dev, row
<1> QED BY <1>2, <1>5, <1>6, <1>7, <1>8, SaveRowsInv

LEMMA PatchInv ==
    ASSUME Inv, NEW e \in Editors, Patch(e) PROVE Inv'
<1>0. PICK d : d = edit[e].dev
  OBVIOUS
<1>1. /\ edit[e] # NoEdit /\ edit' = [edit EXCEPT ![e] = NoEdit] /\ d \in DOMAIN devices
      /\ UNCHANGED <<scan, made, faults>>
  BY <1>0 DEF Patch
<1>2. PICK confirmed \in BOOLEAN, addr \in {edit[e].of, HostName} :
         SaveRows(e, [devices[d] EXCEPT !.found = devices[d].found
                                                  /\ (edit[e].confirmed \/ ~confirmed)],
                  [id |-> edit[e].id, addr |-> addr, confirmed |-> confirmed])
  BY <1>0 DEF Patch
<1> DEFINE found == devices[d].found /\ (edit[e].confirmed \/ ~confirmed)
           dev == [devices[d] EXCEPT !.found = found]
           row == [id |-> edit[e].id, addr |-> addr, confirmed |-> confirmed]
<1>3. edit[e] \in EditType /\ devices[d] \in DeviceType
  BY <1>1, EditIs DEF Inv, RowsOK
<1>4. found \in BOOLEAN
  OBVIOUS
<1>5. dev \in DeviceType /\ dev.found = found
  BY <1>3, <1>4 DEF DeviceType
<1>6. row \in ServerType /\ row.id = edit[e].id /\ row.confirmed = confirmed
  BY <1>2, <1>3 DEF EditType, ServerType
<1>7. /\ dev.found => edit[e].dev \in DOMAIN devices /\ devices[edit[e].dev].found
      /\ dev.found /\ row.confirmed => edit[e].confirmed
  BY <1>0, <1>1, <1>5, <1>6
<1>8. SaveRows(e, dev, row)
  BY <1>2
<1> HIDE DEF dev, row
<1> QED BY <1>1, <1>5, <1>6, <1>7, <1>8, SaveRowsInv

-----------------------------------------------------------------------------
LEMMA InitInv == Init => Inv
<1> SUFFICES ASSUME Init PROVE Inv
  OBVIOUS
<1>1. /\ servers = << >> /\ scan = [s \in Scans |-> IdleScan] /\ faults = 0 /\ stray = {}
      /\ edit = [e \in Editors |-> NoEdit]
      /\ MaxFaults \in Nat
  BY DiscoveryAssumption DEF Init
<1>2. DOMAIN servers = {} /\ servers \in [DOMAIN servers -> ServerType]
  BY <1>1
<1>3. /\ made \in [dev : Nat, srv : Nat, edit : Nat] /\ DOMAIN devices \subseteq 1..made.dev
      /\ devices \in [DOMAIN devices -> DeviceType]
      /\ \A d \in DOMAIN devices : ~devices[d].found
      /\ \A d, e \in DOMAIN devices : d = e
  <2>1. CASE devices = << >> /\ made = [dev |-> 0, srv |-> 0, edit |-> 0]
    BY <2>1
  <2>2. ASSUME NEW m \in Machines, NEW site \in Sites, NEW tag \in {NoTag, Tag(m)},
               devices = [d \in {1} |-> [Device(m, site, FALSE) EXCEPT !.tag = tag]],
               made = [dev |-> 1, srv |-> 0, edit |-> 0]
        PROVE  <1>3!:
    <3> DEFINE new == [Device(m, site, FALSE) EXCEPT !.tag = tag]
    <3>1. new \in DeviceType /\ ~new.found
      BY TagIs, DeviceIs DEF Device, DeviceType
    <3> HIDE DEF new
    <3>2. DOMAIN devices = {1} /\ devices[1] = new /\ devices = [d \in {1} |-> new]
      BY <2>2 DEF new
    <3>3. made \in [dev : Nat, srv : Nat, edit : Nat] /\ DOMAIN devices \subseteq 1..made.dev
      BY <2>2, <3>2
    <3>4. devices \in [DOMAIN devices -> DeviceType]
      BY <3>1, <3>2
    <3> QED BY <3>1, <3>2, <3>3, <3>4
  <2> QED BY <2>1, <2>2 DEF Init
<1>4. RowsOK
  BY <1>1, <1>2, <1>3 DEF RowsOK
<1>5. RowsReviewed
  BY <1>2, <1>3 DEF RowsReviewed, Excused
<1>6. ScansOK
  BY <1>1, <1>3, IdleIs DEF ScansOK, GoodScan, Importing
<1>7. EditsOK
  BY <1>1 DEF EditsOK, GoodEdit
<1> QED BY <1>4, <1>5, <1>6, <1>7 DEF Inv

LEMMA StutterInv == Inv /\ UNCHANGED vars => Inv'
BY DEF Inv, RowsOK, RowsReviewed, ScansOK, GoodScan, EditsOK, GoodEdit, Kept, Excused, vars

LEMMA NextInv == Inv /\ [Next]_vars => Inv'
<1> SUFFICES ASSUME Inv, [Next]_vars PROVE Inv'
  OBVIOUS
<1>1. ASSUME NEW s \in Scans, StartScan(s) \/ ScanStep(s) \/ Kill(s) PROVE Inv'
  BY <1>1, StartScanInv, FinishScanInv, SkipManagedInv, ProbeInv, LookupInv, CreateDeviceInv,
     AttachInv, SyncDeviceInv, SyncSaveInv, KillInv DEF ScanStep
<1>2. ASSUME NEW d, Resync(d) \/ ConfirmSite(d) \/ AddServer(d) \/ DeleteServer(d)
                    \/ DeleteDevice(d)
      PROVE  Inv'
  BY <1>2, ResyncInv, ConfirmSiteInv, AddServerInv, DeleteServerInv, DeleteDeviceInv
<1>3. ASSUME NEW e \in Editors,
             SaveForm(e) \/ Patch(e) \/ DropEdit(e) \/ \E d : OpenEdit(e, d)
      PROVE  Inv'
  BY <1>3, OpenEditInv, SaveFormInv, PatchInv, DropEditInv
<1> QED BY <1>1, <1>2, <1>3, StutterInv DEF Next

\* The inductive invariant holds in every reachable state.
THEOREM AlwaysInv == Spec => []Inv
BY InitInv, NextInv, PTL DEF Spec

-----------------------------------------------------------------------------
\* Every reachable state has the types TypeOK gives it, and with them the
\* constraints of the database: a server has its device, names are unique in
\* a site, and keys in use have been handed out.
THEOREM TypeCorrect == Spec => []TypeOK
<1>1. Inv => TypeOK
  BY InvIs
<1> QED BY <1>1, AlwaysInv, PTL

\* Whatever scans, syncs, failures and users do, a device whose site
\* discover_range took from its range, and that never lost its server, is
\* pending review until somebody confirms it.
THEOREM ReviewAwaits == Spec => []AutoSiteAwaitsReview
<1>1. Inv => AutoSiteAwaitsReview
  BY InvIs
<1> QED BY <1>1, AlwaysInv, PTL
-----------------------------------------------------------------------------
(* Duplicates.  A discovered device that is not excused has a server, or the *)
(* scan that made it is about to create that, and can be recognised: by its  *)
(* server's address or by its tag.  So a scan that found the machine         *)
(* unmanaged, and no device by the tag, and met no other scan there has no   *)
(* device of it before it.                                                   *)

\* d was made by discovery, awaits its review and never lost its server.
Ours(d) == d \in DOMAIN devices /\ devices[d].found /\ d \notin stray

Attaching(s, d) == scan[s].pc = "attach" /\ scan[s].new /\ scan[s].dev = d

\* The machines that rows, scans and edits take the device with key d for:
\* at most one, though its row may go and be inserted again.
HasDevice(s) == scan[s].pc \in {"attach", "device", "save"}
Claim(d, m) ==
    \/ d \in DOMAIN devices /\ devices[d].of = m
    \/ \E s \in Scans : HasDevice(s) /\ scan[s].dev = d /\ Target(s) = m
    \/ \E e \in Editors : edit[e] # NoEdit /\ edit[e].dev = d /\ edit[e].of = m
SameMachine == \A d, m, n : Claim(d, m) /\ Claim(d, n) => m = n

\* The device can be recognised, under this address or by its tag.
Known(d, addr) == addr = devices[d].of \/ devices[d].tag # NoTag

OwnRows ==
    /\ \A d \in DOMAIN devices : devices[d].tag \in {NoTag, Tag(devices[d].of)}
    /\ \A d \in DOMAIN servers : Ours(d) => Known(d, servers[d].addr)
    /\ \A d : Ours(d) => d \in DOMAIN servers \/ \E s \in Scans : Attaching(s, d)

OwnTags == \A e \in Editors : edit[e] # NoEdit => edit[e].tag \in {NoTag, Tag(edit[e].of)}

\* The server a scan holds, if it is saved, leaves the device known.
HoldsIts(s) ==
    scan[s].pc \in {"device", "save"} /\ Ours(scan[s].dev) =>
        Known(scan[s].dev, scan[s].srv.addr)

\* A scan that is alone with its target looks for a device by its tag, and
\* then makes one, that nobody else made.
Searches(s) ==
    Target(s) \notin overlap =>
        \A d : Ours(d) /\ devices[d].of = Target(s) =>
            scan[s].pc # "create" /\ (scan[s].pc = "lookup" => devices[d].tag # NoTag)

Noticed ==
    \A s, t \in Scans : s # t /\ Busy(s, Target(s)) /\ Busy(t, Target(s)) =>
        Target(s) \in overlap

OneEach ==
    \A d, e : Ours(d) /\ Ours(e) /\ d # e /\ devices[d].of = devices[e].of =>
        devices[d].of \in overlap

DupInv ==
    /\ SameMachine /\ OwnRows /\ OwnTags /\ Noticed /\ OneEach
    /\ \A s \in Scans : HoldsIts(s) /\ Searches(s)

\* What a step that makes no device may do to the rows.
RowsShrink ==
    /\ overlap \subseteq overlap'
    /\ \A d \in DOMAIN devices' : /\ Claim(d, devices'[d].of)
                                  /\ devices'[d].tag \in {NoTag, Tag(devices'[d].of)}
    /\ \A d : (Ours(d))' => /\ Ours(d) /\ devices'[d].of = devices[d].of
                            /\ devices[d].tag # NoTag => devices'[d].tag # NoTag
    /\ \A d \in DOMAIN servers' : (Ours(d))' => (Known(d, servers[d].addr))'
    /\ \A d \in DOMAIN servers : (Ours(d))' => d \in DOMAIN servers'

LEMMA RowsUnchanged ==
    ASSUME DupInv, UNCHANGED <<devices, servers>>, stray \subseteq stray',
           overlap \subseteq overlap'
    PROVE  RowsShrink
<1>1. \A d : (Ours(d))' => Ours(d)
  BY DEF Ours
<1>2. \A d \in DOMAIN devices' : /\ Claim(d, devices'[d].of)
                                /\ devices'[d].tag \in {NoTag, Tag(devices'[d].of)}
  BY DEF DupInv, OwnRows, Claim
<1>3. \A d \in DOMAIN servers' : (Ours(d))' => (Known(d, servers[d].addr))'
  BY <1>1 DEF DupInv, OwnRows, Known
<1> QED BY <1>1, <1>2, <1>3 DEF RowsShrink

\* A device keeps its machine.
LEMMA ClaimsStay ==
    ASSUME DupInv, RowsShrink,
           \A t \in Scans : \/ scan'[t] = scan[t]
                            \/ (HasDevice(t))' => Claim(scan'[t].dev, Head(scan'[t].todo)),
           \A e \in Editors : \/ edit'[e] = edit[e] \/ edit'[e] = NoEdit
                              \/ Claim(edit'[e].dev, edit'[e].of)
    PROVE  SameMachine'
<1>1. ASSUME NEW d, NEW m, (Claim(d, m))' PROVE Claim(d, m)
  <2>1. CASE d \in DOMAIN devices' /\ devices'[d].of = m
    BY <2>1 DEF RowsShrink
  <2>2. ASSUME NEW t \in Scans, (HasDevice(t))', scan'[t].dev = d, Head(scan'[t].todo) = m
        PROVE  Claim(d, m)
    <3>1. CASE scan'[t] = scan[t]
      BY <2>2, <3>1 DEF Claim, HasDevice, Target
    <3> QED BY <2>2, <3>1
  <2>3. ASSUME NEW e \in Editors, edit'[e] # NoEdit, edit'[e].dev = d, edit'[e].of = m
        PROVE  Claim(d, m)
    <3>1. CASE edit'[e] = edit[e]
      BY <2>3, <3>1 DEF Claim
    <3> QED BY <2>3, <3>1
  <2> QED BY <1>1, <2>1, <2>2, <2>3 DEF Claim, Target
<1>2. SameMachine
  BY DEF DupInv
<1> QED BY <1>1, <1>2 DEF SameMachine

\* A scan that does not move notices nothing.
LEMMA OtherStays ==
    ASSUME DupInv, RowsShrink, NEW t \in Scans, scan'[t] = scan[t]
    PROVE  (HoldsIts(t))' /\ (Searches(t))' /\ (Target(t))' = Target(t)
<1>1. (Target(t))' = Target(t)
  BY DEF Target
<1>2. HoldsIts(t) /\ Searches(t)
  BY DEF DupInv
<1>3. (HoldsIts(t))'
  <2>1. PICK d : d = scan[t].dev
    OBVIOUS
  <2>2. (Ours(scan[t].dev))' => (Ours(d))'
    BY <2>1 DEF Ours
  <2>3. (Ours(d))' /\ Known(d, scan[t].srv.addr) => (Known(scan[t].dev, scan[t].srv.addr))'
    BY <2>1 DEF RowsShrink, Known
  <2> QED BY <1>2, <2>1, <2>2, <2>3 DEF HoldsIts, RowsShrink
<1>4. (Searches(t))'
  BY <1>1, <1>2 DEF Searches, RowsShrink
<1> QED BY <1>1, <1>3, <1>4

LEMMA OneEachStays == ASSUME DupInv, RowsShrink PROVE OneEach'
BY DEF OneEach, DupInv, RowsShrink

\* A step of one scan that makes no device.  It goes on with its target, has
\* left it, or takes a target that no other scan has without note.
LEMMA OwnStep ==
    ASSUME DupInv, RowsShrink, NEW s \in Scans, \A t \in Scans \ {s} : scan'[t] = scan[t],
           UNCHANGED edit, (HoldsIts(s))', (Searches(s))',
           (HasDevice(s))' => Claim(scan'[s].dev, Head(scan'[s].todo)),
           \/ scan'[s].pc \notin Importing
           \/ scan[s].pc \in Importing /\ scan'[s].todo = scan[s].todo
           \/ \A t \in Scans \ {s} : (Busy(t, Target(s)))' => (Target(s))' \in overlap',
           \A d : Attaching(s, d) /\ (Ours(d))' => d \in DOMAIN servers' \/ (Attaching(s, d))'
    PROVE  DupInv'
<1>1. ASSUME NEW t \in Scans PROVE (HoldsIts(t))' /\ (Searches(t))'
  BY <1>1, OtherStays
<1>2. Noticed'
  <2> SUFFICES ASSUME NEW u \in Scans, NEW t \in Scans, u # t,
                      scan'[u].pc \in Importing, scan'[t].pc \in Importing,
                      Head(scan'[u].todo) = Head(scan'[t].todo)
               PROVE  Head(scan'[u].todo) \in overlap'
    BY DEF Noticed, Busy, Target
  <2>1. overlap \subseteq overlap'
    BY DEF RowsShrink
  <2>2. ASSUME scan[u].pc \in Importing, scan[t].pc \in Importing,
               scan'[u].todo = scan[u].todo, scan'[t].todo = scan[t].todo
        PROVE  Head(scan'[u].todo) \in overlap'
    BY <2>1, <2>2 DEF DupInv, Noticed, Busy, Target
  <2>3. CASE s \in {u, t} /\ ~(scan[s].pc \in Importing /\ scan'[s].todo = scan[s].todo)
    BY <2>3 DEF Busy, Target
  <2> QED BY <2>2, <2>3
<1>3. ASSUME NEW d, (Ours(d))'
      PROVE  d \in DOMAIN servers' \/ \E t \in Scans : (Attaching(t, d))'
  <2>1. Ours(d)
    BY <1>3 DEF RowsShrink
  <2>2. CASE d \in DOMAIN servers
    BY <1>3, <2>2 DEF RowsShrink
  <2>3. ASSUME NEW t \in Scans, Attaching(t, d)
        PROVE  d \in DOMAIN servers' \/ (Attaching(t, d))'
    <3>1. CASE t = s
      BY <1>3, <2>3, <3>1
    <3>2. CASE t # s
      BY <2>3, <3>2 DEF Attaching
    <3> QED BY <3>1, <3>2
  <2> QED BY <2>1, <2>2, <2>3 DEF DupInv, OwnRows
<1>4. OwnRows'
  BY <1>3 DEF OwnRows, RowsShrink
<1>5. SameMachine' /\ OwnTags'
  BY ClaimsStay DEF DupInv, OwnTags
<1> QED BY <1>1, <1>2, <1>4, <1>5, OneEachStays DEF DupInv

\* A step of another writer.
LEMMA RowsDup ==
    ASSUME DupInv, RowsShrink, UNCHANGED scan, OwnTags',
           \A e \in Editors : \/ edit'[e] = edit[e] \/ edit'[e] = NoEdit
                              \/ Claim(edit'[e].dev, edit'[e].of)
    PROVE  DupInv'
<1>1. ASSUME NEW t \in Scans PROVE (HoldsIts(t))' /\ (Searches(t))'
  BY OtherStays
<1>2. Noticed'
  BY DEF DupInv, Noticed, Busy, Target, RowsShrink
<1>3. OwnRows'
  <2>2. ASSUME NEW d, (Ours(d))'
        PROVE  d \in DOMAIN servers' \/ \E t \in Scans : (Attaching(t, d))'
    <3>1. d \in DOMAIN servers \/ \E t \in Scans : Attaching(t, d)
      BY <2>2 DEF RowsShrink, DupInv, OwnRows
    <3> QED BY <2>2, <3>1 DEF RowsShrink, Attaching
  <2> QED BY <2>2 DEF OwnRows, RowsShrink
<1>4. SameMachine'
  BY ClaimsStay
<1> QED BY <1>1, <1>2, <1>3, <1>4, OneEachStays DEF DupInv

\* A scan that goes between its targets.
LEMMA BetweenDup ==
    ASSUME DupInv, RowsShrink, NEW s \in Scans, scan'[s].pc \in {"idle", "check"},
           \A t \in Scans \ {s} : scan'[t] = scan[t], UNCHANGED edit,
           \A d : Attaching(s, d) /\ (Ours(d))' => d \in DOMAIN servers'
    PROVE  DupInv'
<1>1. (HoldsIts(s))' /\ (Searches(s))' /\ ~(HasDevice(s))' /\ scan'[s].pc \notin Importing
  BY DEF HoldsIts, Searches, HasDevice, Importing
<1> QED BY <1>1, OwnStep

LEMMA NextTargetDup ==
    ASSUME Inv, DupInv, RowsShrink, NEW s \in Scans, NextTarget(s), UNCHANGED edit,
           \A d : Attaching(s, d) /\ (Ours(d))' => d \in DOMAIN servers'
    PROVE  DupInv'
<1>1. scan'[s].pc = "check" /\ \A t \in Scans \ {s} : scan'[t] = scan[t]
  BY DEF NextTarget, IdleScan, Inv, ScansOK
<1> QED BY <1>1, BetweenDup

LEMMA GotoIs ==
    ASSUME Inv, NEW s \in Scans, NEW pc, Goto(s, pc)
    PROVE  /\ scan'[s].pc = pc /\ scan'[s].todo = scan[s].todo /\ scan'[s].dev = scan[s].dev
           /\ scan'[s].srv = scan[s].srv /\ scan'[s].new = scan[s].new
           /\ \A t \in Scans \ {s} : scan'[t] = scan[t]
<1>1. scan \in [Scans -> ScanType] /\ scan[s] \in ScanType
  BY DEF Inv, ScansOK
<1> QED BY <1>1 DEF Goto, ScanType

LEMMA ProbeDup == ASSUME Inv, DupInv, NEW s \in Scans, Probe(s) PROVE DupInv'
<1> DEFINE m == Target(s)
<1>1. /\ scan[s].pc = "check" /\ ~Managed(m) /\ UNCHANGED <<devices, servers, edit, stray>>
      /\ NotedOverlap(s, m) /\ (Goto(s, "lookup") \/ NextTarget(s))
  BY DEF Probe
<1>2. overlap \subseteq overlap' /\ \A t \in Scans \ {s} : Busy(t, m) => m \in overlap'
  BY <1>1 DEF NotedOverlap
<1>3. RowsShrink
  BY <1>1, <1>2, RowsUnchanged
<1>4. \A d : ~Attaching(s, d)
  BY <1>1 DEF Attaching
<1>5. CASE NextTarget(s)
  BY <1>1, <1>3, <1>4, <1>5, NextTargetDup
<1>6. CASE Goto(s, "lookup")
  <2>1. /\ scan'[s].pc = "lookup" /\ scan'[s].todo = scan[s].todo /\ (Target(s))' = m
        /\ \A t \in Scans \ {s} : scan'[t] = scan[t]
    BY <1>6, GotoIs DEF Target
  <2>2. (HoldsIts(s))' /\ ~(HasDevice(s))'
    BY <2>1 DEF HoldsIts, HasDevice
  <2>3. ASSUME NEW d, Ours(d), devices[d].of = m, devices[d].tag = NoTag PROVE m \in overlap'
    <3>1. d \notin DOMAIN servers
      BY <1>1, <2>3 DEF DupInv, OwnRows, Managed, Known
    <3>2. PICK t \in Scans : Attaching(t, d)
      BY <2>3, <3>1 DEF DupInv, OwnRows
    <3>3. Claim(d, m) /\ Claim(d, Target(t))
      BY <2>3, <3>2 DEF Claim, Attaching, HasDevice, Ours
    <3>4. t # s /\ Target(t) = m /\ scan[t].pc \in Importing
      BY <1>4, <3>2, <3>3 DEF Attaching, DupInv, SameMachine, Importing
    <3> QED BY <1>2, <3>4 DEF Busy
  <2>4. (Searches(s))'
    <3>1. \A d : (Ours(d))' <=> Ours(d)
      BY <1>1 DEF Ours
    <3> QED BY <1>1, <2>1, <2>3, <3>1 DEF Searches
  <2>5. ASSUME NEW t \in Scans \ {s}, (Busy(t, Target(s)))' PROVE (Target(s))' \in overlap'
    <3>1. Busy(t, m)
      BY <2>1, <2>5 DEF Busy, Target
    <3> QED BY <1>2, <2>1, <3>1
  <2> HIDE DEF m
  <2> QED BY <1>1, <1>3, <1>4, <2>1, <2>2, <2>4, <2>5, OwnStep
<1> QED BY <1>1, <1>5, <1>6

\* A device that its tag finds is the target's.
LEMMA LookupDup == ASSUME Inv, DupInv, NEW s \in Scans, Lookup(s) PROVE DupInv'
<1>1. /\ scan[s].pc = "lookup" /\ UNCHANGED <<devices, servers, edit, stray, overlap>>
      /\ \/ \E d \in Tagged(Target(s)) :
               scan' = [scan EXCEPT ![s].pc = "attach", ![s].dev = d]
         \/ Tagged(Target(s)) = {} /\ Goto(s, "create")
         \/ NextTarget(s)
  BY DEF Lookup
<1>2. RowsShrink
  BY <1>1, RowsUnchanged
<1>3. /\ \A d : ~Attaching(s, d) /\ ((Ours(d))' <=> Ours(d))
      /\ scan[s].pc \in Importing /\ Searches(s)
  BY <1>1 DEF Attaching, Ours, Importing, DupInv
<1>4. CASE NextTarget(s)
  BY <1>1, <1>2, <1>3, <1>4, NextTargetDup
<1>5. CASE Tagged(Target(s)) = {} /\ Goto(s, "create")
  <2>1. /\ scan'[s].pc = "create" /\ scan'[s].todo = scan[s].todo /\ (Target(s))' = Target(s)
        /\ \A t \in Scans \ {s} : scan'[t] = scan[t]
    BY <1>5, GotoIs DEF Target
  <2>2. ASSUME NEW d, Ours(d), devices[d].of = Target(s) PROVE devices[d].tag = NoTag
    <3>1. d \in DOMAIN devices /\ devices[d].tag \in {NoTag, Tag(Target(s))}
      BY <2>2 DEF Ours, DupInv, OwnRows
    <3> QED BY <1>5, <3>1 DEF Tagged, Tag
  <2>3. (HoldsIts(s))' /\ (Searches(s))' /\ ~(HasDevice(s))'
    BY <1>1, <1>3, <2>1, <2>2 DEF HoldsIts, Searches, HasDevice
  <2> QED BY <1>1, <1>2, <1>3, <2>1, <2>3, OwnStep
<1>6. ASSUME NEW d \in Tagged(Target(s)),
             scan' = [scan EXCEPT ![s].pc = "attach", ![s].dev = d]
      PROVE  DupInv'
  <2>1. Target(s) \in Machines
    BY <1>3, TargetIs
  <2>2. d \in DOMAIN devices /\ devices[d].of = Target(s)
    BY <2>1, DiscoveryAssumption DEF Tagged, Tag, DupInv, OwnRows
  <2>3. scan \in [Scans -> ScanType] /\ scan[s] \in ScanType
    BY DEF Inv, ScansOK
  <2>4. /\ scan'[s].pc = "attach" /\ scan'[s].dev = d /\ scan'[s].todo = scan[s].todo
        /\ (Target(s))' = Target(s) /\ \A t \in Scans \ {s} : scan'[t] = scan[t]
    BY <1>6, <2>3 DEF ScanType, Target
  <2>5. (HoldsIts(s))' /\ (Searches(s))'
    BY <1>1, <2>4 DEF HoldsIts, Searches
  <2>6. Claim(scan'[s].dev, Head(scan'[s].todo))
    BY <2>2, <2>4 DEF Claim, Target
  <2> QED BY <1>1, <1>2, <1>3, <2>4, <2>5, <2>6, OwnStep
<1> QED BY <1>1, <1>4, <1>5, <1>6

\* The new device is the machine's only one, if the scan was alone with it.
LEMMA CreateDeviceDup == ASSUME Inv, DupInv, NEW s \in Scans, CreateDevice(s) PROVE DupInv'
<1> DEFINE m == Target(s)
           d == made.dev + 1
           new == Device(m, SiteOf[s], TRUE)
<1>1. /\ scan[s].pc = "create" /\ UNCHANGED <<servers, edit, stray, overlap>>
      /\ \/ /\ devices' = [e \in DOMAIN devices \cup {d} |-> IF e = d THEN new ELSE devices[e]]
            /\ scan' = [scan EXCEPT ![s].pc = "attach", ![s].dev = d, ![s].new = TRUE]
         \/ NextTarget(s) /\ UNCHANGED devices
  BY DEF CreateDevice
<1>2. \A e : ~Attaching(s, e)
  BY <1>1 DEF Attaching
<1>3. CASE NextTarget(s) /\ UNCHANGED devices
  <2>1. RowsShrink
    BY <1>1, <1>3, RowsUnchanged
  <2> QED BY <1>1, <1>2, <1>3, <2>1, NextTargetDup
<1>4. ASSUME devices' = [e \in DOMAIN devices \cup {d} |-> IF e = d THEN new ELSE devices[e]],
             scan' = [scan EXCEPT ![s].pc = "attach", ![s].dev = d, ![s].new = TRUE]
      PROVE  DupInv'
  <2>1. d \notin 0..made.dev /\ d \notin DOMAIN devices /\ d \notin DOMAIN servers
    BY NewKey DEF Inv, RowsOK
  <2>2. new.of = m /\ new.tag = NoTag /\ new.found
    BY DEF Device
  <2> HIDE DEF new, d
  <2>3. /\ DOMAIN devices' = DOMAIN devices \cup {d} /\ devices'[d] = new
        /\ \A e \in DOMAIN devices : devices'[e] = devices[e]
    BY <1>4, <2>1
  <2>4. scan \in [Scans -> ScanType] /\ scan[s] \in ScanType
    BY DEF Inv, ScansOK
  <2>5. /\ scan'[s].pc = "attach" /\ scan'[s].dev = d /\ scan'[s].new
        /\ scan'[s].todo = scan[s].todo /\ \A t \in Scans \ {s} : scan'[t] = scan[t]
    BY <1>4, <2>4 DEF ScanType
  <2>6. \A t \in Scans : (Target(t))' = Target(t)
    BY <2>5 DEF Target
  <2>7. \A e : (Ours(e))' => e = d \/ Ours(e)
    BY <1>1, <2>3 DEF Ours
  <2>8. /\ \A t \in Scans : Busy(t, Target(t)) => (Busy(t, Target(t)))'
        /\ \A t \in Scans : (Busy(t, Target(t)))' => Busy(t, Target(t))
        /\ Busy(s, m)
    BY <1>1, <2>5, <2>6 DEF Busy, Importing
  <2>9. Noticed'
    <3> SUFFICES ASSUME NEW u \in Scans, NEW t \in Scans, u # t,
                        scan'[u].pc \in Importing, scan'[t].pc \in Importing,
                        Head(scan'[u].todo) = Head(scan'[t].todo)
                 PROVE  Head(scan'[u].todo) \in overlap'
      BY DEF Noticed, Busy, Target
    <3>1. /\ scan[u].pc \in Importing /\ scan[t].pc \in Importing
          /\ scan'[u].todo = scan[u].todo /\ scan'[t].todo = scan[t].todo
      BY <1>1, <2>5 DEF Importing
    <3> QED BY <1>1, <3>1 DEF DupInv, Noticed, Busy, Target
  <2>10. OneEach'
    <3>1. ASSUME Ours(d)', NEW e, Ours(e), devices[e].of = m PROVE m \in overlap
      BY <1>1, <3>1 DEF DupInv, Searches
    <3>2. \A e : Ours(e) => e # d /\ devices'[e].of = devices[e].of
      BY <2>1, <2>3 DEF Ours
    <3> SUFFICES ASSUME NEW e, NEW f, (Ours(e))', (Ours(f))', e # f,
                        devices'[e].of = devices'[f].of
                 PROVE  devices'[e].of \in overlap
      BY <1>1 DEF OneEach
    <3>3. CASE e # d /\ f # d
      BY <2>7, <3>2, <3>3 DEF DupInv, OneEach
    <3>4. CASE e = d \/ f = d
      BY <1>1, <2>2, <2>3, <2>7, <3>2, <3>4 DEF DupInv, Searches
    <3> QED BY <3>3, <3>4
  <2>11. OwnRows'
    <3>1. \A e \in DOMAIN devices' : devices'[e].tag \in {NoTag, Tag(devices'[e].of)}
      BY <2>2, <2>3 DEF DupInv, OwnRows
    <3>2. DOMAIN servers \subseteq DOMAIN devices
      BY DEF Inv, RowsOK
    <3>3. \A e \in DOMAIN servers' : (Ours(e))' => (Known(e, servers[e].addr))'
      BY <1>1, <2>1, <2>3, <2>7, <3>2 DEF DupInv, OwnRows, Known
    <3>4. ASSUME NEW e, (Ours(e))'
          PROVE  e \in DOMAIN servers' \/ \E t \in Scans : (Attaching(t, e))'
      <4>1. CASE e = d
        BY <2>5, <4>1 DEF Attaching
      <4>2. CASE e # d
        <5>1. Ours(e) /\ (e \in DOMAIN servers \/ \E t \in Scans : Attaching(t, e))
          BY <2>7, <3>4, <4>2 DEF DupInv, OwnRows
        <5> QED BY <1>1, <1>2, <2>5, <5>1 DEF Attaching
      <4> QED BY <4>1, <4>2
    <3> QED BY <3>1, <3>3, <3>4 DEF OwnRows
  <2>12. ASSUME NEW t \in Scans PROVE (HoldsIts(t))' /\ (Searches(t))'
    <3>1. CASE t = s
      BY <2>2, <2>3, <2>5, <2>6, <3>1 DEF HoldsIts, Searches
    <3>2. CASE t # s
      <4>1. scan'[t] = scan[t] /\ HoldsIts(t) /\ Searches(t) /\ scan[t].dev \in 0..made.dev
        BY <2>5, <3>2 DEF DupInv, Inv, ScansOK, GoodScan
      <4>2. scan[t].dev # d
        BY <2>1, <4>1
      <4>3. (HoldsIts(t))'
        <5>1. (Ours(scan[t].dev))' => /\ Ours(scan[t].dev)
                                      /\ devices'[scan'[t].dev] = devices[scan[t].dev]
          BY <1>1, <2>3, <4>1, <4>2 DEF Ours
        <5> QED BY <2>6, <4>1, <5>1 DEF HoldsIts, Known
      <4>4. (Searches(t))'
        <5> SUFFICES ASSUME scan[t].pc \in {"lookup", "create"}, Target(t) \notin overlap,
                            NEW e, (Ours(e))', devices'[e].of = Target(t)
                     PROVE  scan[t].pc # "create" /\ devices'[e].tag # NoTag
          BY <1>1, <2>6, <4>1 DEF Searches
        <5>1. Target(t) # m
          BY <1>1, <2>8, <3>2 DEF DupInv, Noticed, Busy, Importing
        <5>2. e # d /\ Ours(e)
          BY <2>2, <2>3, <2>7, <5>1
        <5>3. devices'[e] = devices[e]
          BY <2>3, <5>2 DEF Ours
        <5> QED BY <4>1, <5>2, <5>3 DEF Searches
      <4> QED BY <4>3, <4>4
    <3> QED BY <3>1, <3>2
  <2>13. SameMachine' /\ OwnTags'
    <3>1. ASSUME NEW k, \E n : Claim(k, n) PROVE k # d
      <4>1. PICK n : Claim(k, n)
        BY <3>1
      <4>2. CASE k \in DOMAIN devices
        BY <2>1, <4>2
      <4>3. CASE \E t \in Scans : scan[t].dev = k
        BY <2>1, <4>3 DEF Inv, ScansOK, GoodScan
      <4>4. CASE \E f \in Editors : edit[f] # NoEdit /\ edit[f].dev = k
        <5>1. k \in 1..made.dev
          BY <4>4 DEF Inv, EditsOK, GoodEdit
        <5> QED BY <2>1, <5>1 DEF Inv, RowsOK
      <4> QED BY <4>1, <4>2, <4>3, <4>4 DEF Claim
    <3>2. ASSUME NEW k, NEW n, (Claim(k, n))' PROVE Claim(k, n) \/ (k = d /\ n = m)
      <4>1. CASE k \in DOMAIN devices' /\ devices'[k].of = n
        BY <2>2, <2>3, <4>1 DEF Claim
      <4>2. ASSUME NEW t \in Scans, (HasDevice(t))', scan'[t].dev = k, (Target(t))' = n
            PROVE  Claim(k, n) \/ (k = d /\ n = m)
        BY <2>5, <2>6, <4>2 DEF Claim, HasDevice
      <4>3. CASE \E f \in Editors : edit'[f] # NoEdit /\ edit'[f].dev = k /\ edit'[f].of = n
        BY <1>1, <4>3 DEF Claim
      <4> QED BY <3>2, <4>1, <4>2, <4>3 DEF Claim
    <3>3. SameMachine
      BY DEF DupInv
    <3>4. SameMachine'
      BY <3>1, <3>2, <3>3 DEF SameMachine
    <3> QED BY <1>1, <3>4 DEF DupInv, OwnTags
  <2> QED BY <2>9, <2>10, <2>11, <2>12, <2>13 DEF DupInv
<1> QED BY <1>1, <1>3, <1>4

\* A row for a device of ours leaves it known.
LEMMA StoredShrinks ==
    ASSUME DupInv, NEW d \in DOMAIN devices, NEW row, servers' = WithServer(d, row),
           (Ours(d))' => Known(d, row.addr), UNCHANGED <<devices, overlap>>,
           stray \subseteq stray'
    PROVE  RowsShrink
<1>1. /\ DOMAIN servers' = DOMAIN servers \cup {d} /\ servers'[d] = row
      /\ \A e \in DOMAIN servers \ {d} : servers'[e] = servers[e]
  BY DEF WithServer
<1>2. \A e : (Ours(e))' => Ours(e)
  BY DEF Ours
<1>3. \A e \in DOMAIN servers' : (Ours(e))' => (Known(e, servers[e].addr))'
  BY <1>1, <1>2 DEF DupInv, OwnRows, Known
<1> QED BY <1>1, <1>2, <1>3 DEF RowsShrink, DupInv, OwnRows, Claim

LEMMA AttachDup == ASSUME Inv, DupInv, NEW s \in Scans, Attach(s) PROVE DupInv'
<1>0. PICK d : d = scan[s].dev
  OBVIOUS
<1> DEFINE new == [id |-> made.srv + 1, addr |-> Target(s), confirmed |-> ~scan[s].new]
           Takes(row) == scan' = [scan EXCEPT ![s].pc = "device", ![s].srv = row, ![s].new = FALSE]
<1>1. /\ scan[s].pc = "attach" /\ UNCHANGED <<devices, edit, overlap>>
      /\ \/ /\ d \in DOMAIN servers /\ Takes(servers[d]) /\ UNCHANGED <<servers, stray>>
         \/ /\ d \in DOMAIN devices \ DOMAIN servers
            /\ servers' = WithServer(d, new) /\ Takes(new) /\ UNCHANGED stray
         \/ d \notin DOMAIN devices /\ NextTarget(s) /\ UNCHANGED <<servers, stray>>
         \/ NextTarget(s) /\ Strayed(IF scan[s].new THEN {d} ELSE {}) /\ UNCHANGED servers
  BY <1>0 DEF Attach, Confirmed
<1>2. /\ \A e : Attaching(s, e) => e = d /\ scan[s].new
      /\ scan[s].pc \in Importing /\ scan[s] \in ScanType /\ scan \in [Scans -> ScanType]
      /\ Claim(d, Target(s)) /\ (d \in DOMAIN devices => devices[d].of = Target(s))
  <2>1. Claim(d, Target(s))
    BY <1>0, <1>1 DEF Claim, HasDevice
  <2>2. d \in DOMAIN devices => Claim(d, devices[d].of)
    BY DEF Claim
  <2> QED BY <1>0, <1>1, <2>1, <2>2 DEF Attaching, Importing, Inv, ScansOK, DupInv, SameMachine
<1>3. ASSUME RowsShrink, d \in DOMAIN servers', NEW row, Takes(row),
             (Ours(d))' => Known(d, row.addr)
      PROVE  DupInv'
  <2>1. /\ scan'[s].pc = "device" /\ scan'[s].srv = row /\ scan'[s].dev = d
        /\ scan'[s].todo = scan[s].todo /\ (Target(s))' = Target(s)
        /\ \A t \in Scans \ {s} : scan'[t] = scan[t]
    BY <1>0, <1>2, <1>3 DEF ScanType, Target
  <2>2. (HoldsIts(s))' /\ (Searches(s))'
    <3>1. (Ours(scan[s].dev))' => (Ours(d))'
      BY <2>1 DEF Ours
    <3> QED BY <1>1, <1>2, <1>3, <2>1, <3>1 DEF HoldsIts, Searches, Known
  <2>3. Claim(scan'[s].dev, Head(scan'[s].todo))
    BY <1>2, <2>1 DEF Target
  <2> QED BY <1>1, <1>2, <1>3, <2>1, <2>2, <2>3, OwnStep
<1>4. CASE d \in DOMAIN servers /\ Takes(servers[d]) /\ UNCHANGED <<servers, stray>>
  <2>1. RowsShrink
    BY <1>1, <1>4, RowsUnchanged
  <2>2. (Ours(d))' => Known(d, servers[d].addr)
    BY <1>1, <1>2, <1>4 DEF Ours, DupInv, OwnRows
  <2> QED BY <1>3, <1>4, <2>1, <2>2
<1>5. CASE /\ d \in DOMAIN devices \ DOMAIN servers
           /\ servers' = WithServer(d, new) /\ Takes(new) /\ UNCHANGED stray
  <2>1. new.addr = Target(s)
    OBVIOUS
  <2> HIDE DEF new
  <2>2. Known(d, new.addr)
    BY <1>2, <1>5, <2>1 DEF Known
  <2>3. RowsShrink
    BY <1>1, <1>5, <2>2, StoredShrinks
  <2>4. d \in DOMAIN servers'
    BY <1>5 DEF WithServer
  <2> QED BY <1>3, <1>5, <2>2, <2>3, <2>4
<1>6. CASE d \notin DOMAIN devices /\ NextTarget(s) /\ UNCHANGED <<servers, stray>>
  <2>1. RowsShrink
    BY <1>1, <1>6, RowsUnchanged
  <2>2. ~(Ours(d))'
    BY <1>1, <1>6 DEF Ours
  <2> QED BY <1>1, <1>2, <1>6, <2>1, <2>2, NextTargetDup
<1>7. CASE NextTarget(s) /\ Strayed(IF scan[s].new THEN {d} ELSE {}) /\ UNCHANGED servers
  <2>1. stray \subseteq stray'
    BY <1>7 DEF Strayed
  <2>2. RowsShrink
    BY <1>1, <1>7, <2>1, RowsUnchanged
  <2>3. scan[s].new => ~(Ours(d))'
    BY <1>1, <1>7 DEF Ours, Strayed
  <2> QED BY <1>1, <1>2, <1>7, <2>2, <2>3, NextTargetDup
<1> QED BY <1>1, <1>4, <1>5, <1>6, <1>7

\* The tag a device is given is its machine's.
LEMMA LabelledShrinks ==
    ASSUME Inv, DupInv, NEW d, NEW m, Labelled(d, m),
           d \in DOMAIN devices => devices[d].of = m,
           UNCHANGED <<servers, stray, overlap>>
    PROVE  RowsShrink
<1>1. /\ DOMAIN devices' = DOMAIN devices
      /\ \A e \in DOMAIN devices : /\ devices'[e].of = devices[e].of
                                   /\ devices'[e].found = devices[e].found
                                   /\ devices'[e].tag \in {devices[e].tag, Tag(devices[e].of)}
                                   /\ devices[e].tag # NoTag => devices'[e].tag # NoTag
  BY DiscoveryAssumption DEF Labelled, Tag, Inv, RowsOK, DeviceType
<1>2. \A e : (Ours(e))' <=> Ours(e)
  BY <1>1 DEF Ours
<1>3. \A e \in DOMAIN devices' : /\ Claim(e, devices'[e].of)
                                /\ devices'[e].tag \in {NoTag, Tag(devices'[e].of)}
  BY <1>1 DEF Claim, DupInv, OwnRows
<1>4. \A e \in DOMAIN servers' : (Ours(e))' => (Known(e, servers[e].addr))'
  BY <1>1, <1>2 DEF DupInv, OwnRows, Known, Ours
<1> QED BY <1>1, <1>2, <1>3, <1>4 DEF RowsShrink, Ours

LEMMA SyncDeviceDup == ASSUME Inv, DupInv, NEW s \in Scans, SyncDevice(s) PROVE DupInv'
<1>0. PICK d : d = scan[s].dev
  OBVIOUS
<1>1. /\ scan[s].pc = "device" /\ UNCHANGED <<servers, edit, stray, overlap>>
      /\ Labelled(d, Target(s)) \/ UNCHANGED devices
      /\ Goto(s, "save") \/ NextTarget(s)
  BY <1>0 DEF SyncDevice
<1>2. /\ HoldsIts(s) /\ (\A e : ~Attaching(s, e)) /\ scan[s].pc \in Importing
      /\ Claim(d, Target(s))
  BY <1>0, <1>1 DEF DupInv, Attaching, Importing, Claim, HasDevice
<1>3. RowsShrink
  <2>1. CASE UNCHANGED devices
    BY <1>1, <2>1, RowsUnchanged
  <2>2. CASE Labelled(d, Target(s))
    <3>1. d \in DOMAIN devices => devices[d].of = Target(s)
      BY <1>2 DEF Claim, DupInv, SameMachine
    <3> QED BY <1>1, <2>2, <3>1, LabelledShrinks
  <2> QED BY <1>1, <2>1, <2>2
<1>4. CASE NextTarget(s)
  BY <1>1, <1>2, <1>3, <1>4, NextTargetDup
<1>5. CASE Goto(s, "save")
  <2>1. /\ scan'[s].pc = "save" /\ scan'[s].todo = scan[s].todo /\ scan'[s].dev = d
        /\ scan'[s].srv = scan[s].srv /\ (Target(s))' = Target(s)
        /\ \A t \in Scans \ {s} : scan'[t] = scan[t]
    BY <1>0, <1>5, GotoIs DEF Target
  <2>2. (Ours(scan[s].dev))' => (Ours(d))'
    BY <2>1 DEF Ours
  <2>3. (Ours(d))' /\ Known(d, scan[s].srv.addr) => (Known(scan[s].dev, scan[s].srv.addr))'
    BY <1>3, <2>1 DEF RowsShrink, Known
  <2>4. (HoldsIts(s))' /\ (Searches(s))'
    BY <1>0, <1>1, <1>2, <1>3, <2>1, <2>2, <2>3 DEF HoldsIts, Searches, RowsShrink
  <2>5. Claim(scan'[s].dev, Head(scan'[s].todo))
    BY <1>2, <2>1 DEF Target
  <2> QED BY <1>1, <1>2, <1>3, <2>1, <2>4, <2>5, OwnStep
<1> QED BY <1>1, <1>4, <1>5

LEMMA SyncSaveDup == ASSUME Inv, DupInv, NEW s \in Scans, SyncSave(s) PROVE DupInv'
<1>0. PICK d, row : d = scan[s].dev /\ row = scan[s].srv
  OBVIOUS
<1>1. /\ scan[s].pc = "save" /\ NextTarget(s) /\ UNCHANGED <<devices, edit, stray, overlap>>
      /\ \/ d \in DOMAIN devices /\ servers' = WithServer(d, row)
         \/ UNCHANGED servers
  BY <1>0 DEF SyncSave
<1>2. HoldsIts(s) /\ \A e : ~Attaching(s, e)
  BY <1>1 DEF DupInv, Attaching
<1>3. RowsShrink
  <2>1. CASE UNCHANGED servers
    BY <1>1, <2>1, RowsUnchanged
  <2>2. CASE d \in DOMAIN devices /\ servers' = WithServer(d, row)
    <3>1. (Ours(d))' => Known(d, row.addr)
      BY <1>0, <1>1, <1>2, <2>2 DEF HoldsIts, Ours
    <3> QED BY <1>1, <2>2, <3>1, StoredShrinks
  <2> QED BY <1>1, <2>1, <2>2
<1> QED BY <1>1, <1>2, <1>3, NextTargetDup

LEMMA KillDup == ASSUME Inv, DupInv, NEW s \in Scans, Kill(s) PROVE DupInv'
<1>1. /\ scan' = [scan EXCEPT ![s] = IdleScan] /\ UNCHANGED <<devices, servers, edit, overlap>>
      /\ Strayed(IF scan[s].pc = "attach" /\ scan[s].new THEN {scan[s].dev} ELSE {})
  BY DEF Kill
<1>2. stray \subseteq stray'
  BY <1>1 DEF Strayed
<1>3. RowsShrink
  BY <1>1, <1>2, RowsUnchanged
<1>4. \A d : Attaching(s, d) => ~(Ours(d))'
  BY <1>1 DEF Attaching, Ours, Strayed
<1>5. scan'[s].pc = "idle" /\ \A t \in Scans \ {s} : scan'[t] = scan[t]
  BY <1>1 DEF Inv, ScansOK, IdleScan
<1> QED BY <1>1, <1>3, <1>4, <1>5, BetweenDup

LEMMA OtherScanStepsDup ==
    ASSUME Inv, DupInv, NEW s \in Scans, StartScan(s) \/ FinishScan(s) \/ SkipManaged(s)
    PROVE  DupInv'
<1>1. /\ scan[s].pc \in {"idle", "check"} /\ UNCHANGED <<devices, servers, edit, stray, overlap>>
      /\ \/ scan' = [scan EXCEPT ![s].pc = "check", ![s].todo = Targets]
         \/ Goto(s, "idle") \/ NextTarget(s)
  BY DEF StartScan, FinishScan, SkipManaged
<1>2. RowsShrink /\ \A d : ~Attaching(s, d)
  BY <1>1, RowsUnchanged DEF Attaching
<1>3. CASE scan' = [scan EXCEPT ![s].pc = "check", ![s].todo = Targets]
  <2>1. scan'[s].pc = "check" /\ \A t \in Scans \ {s} : scan'[t] = scan[t]
    BY <1>3 DEF Inv, ScansOK, ScanType
  <2> QED BY <1>1, <1>2, <2>1, BetweenDup
<1>4. CASE Goto(s, "idle")
  BY <1>1, <1>2, <1>4, GotoIs, BetweenDup
<1>5. CASE NextTarget(s)
  BY <1>1, <1>2, <1>5, NextTargetDup
<1> QED BY <1>1, <1>3, <1>4, <1>5

\* The other writers give no device of ours away.
LEMMA OtherWritersDup ==
    ASSUME Inv, DupInv, NEW d,
           \/ Resync(d) \/ ConfirmSite(d) \/ AddServer(d) \/ DeleteServer(d) \/ DeleteDevice(d)
    PROVE  DupInv'
<1>1. CASE Resync(d)
  <2>1. /\ Labelled(d, devices[d].of)
        /\ UNCHANGED <<servers, edit, stray, overlap>> /\ UNCHANGED scan
    BY <1>1 DEF Resync
  <2>2. RowsShrink
    BY <2>1, LabelledShrinks
  <2> QED BY <2>1, <2>2, RowsDup DEF DupInv, OwnTags
<1>2. CASE ConfirmSite(d)
  <2>1. PICK site \in Sites : devices' = [devices EXCEPT ![d].site = site, ![d].found = FALSE]
    BY <1>2 DEF ConfirmSite
  <2>2. /\ d \in DOMAIN servers /\ UNCHANGED <<scan, edit, stray, overlap>>
        /\ servers' = [servers EXCEPT ![d].confirmed = TRUE]
    BY <1>2 DEF ConfirmSite
  <2>3. d \in DOMAIN devices /\ devices[d] \in DeviceType /\ servers[d] \in ServerType
    BY <2>2 DEF Inv, RowsOK
  <2>4. /\ DOMAIN devices' = DOMAIN devices /\ devices'[d].found = FALSE
        /\ devices'[d].of = devices[d].of /\ devices'[d].tag = devices[d].tag
        /\ \A e \in DOMAIN devices \ {d} : devices'[e] = devices[e]
    BY <2>1, <2>3 DEF Inv, RowsOK, DeviceType
  <2>5. /\ DOMAIN servers' = DOMAIN servers
        /\ \A e \in DOMAIN servers : servers'[e].addr = servers[e].addr
    BY <2>2, <2>3 DEF Inv, RowsOK, ServerType
  <2>6. \A e : (Ours(e))' => Ours(e) /\ e # d
    BY <2>2, <2>4 DEF Ours
  <2>7. RowsShrink
    BY <2>2, <2>4, <2>5, <2>6 DEF RowsShrink, DupInv, OwnRows, Claim, Known, Ours
  <2> QED BY <2>2, <2>7, RowsDup DEF DupInv, OwnTags
<1>3. CASE AddServer(d)
  <2>1. PICK row : servers' = WithServer(d, row)
    BY <1>3 DEF AddServer
  <2>2. d \in DOMAIN devices /\ UNCHANGED <<devices, scan, edit, overlap>> /\ Strayed({d})
    BY <1>3 DEF AddServer
  <2>3. stray \subseteq stray' /\ ~(Ours(d))'
    BY <2>2 DEF Strayed, Ours
  <2>4. RowsShrink
    BY <2>1, <2>2, <2>3, StoredShrinks
  <2> QED BY <2>2, <2>4, RowsDup DEF DupInv, OwnTags
<1>4. CASE DeleteServer(d)
  <2>1. /\ UNCHANGED <<devices, scan, edit, overlap>> /\ Strayed({d}) /\ d \in DOMAIN servers
        /\ servers' = [e \in DOMAIN servers \ {d} |-> servers[e]]
    BY <1>4 DEF DeleteServer, Restrict
  <2>2. d \in DOMAIN devices
    BY <2>1 DEF Inv, RowsOK
  <2>3. \A e : (Ours(e))' => Ours(e) /\ e # d
    BY <2>1, <2>2 DEF Strayed, Ours
  <2>4. RowsShrink
    BY <2>1, <2>3 DEF RowsShrink, DupInv, OwnRows, Claim, Known
  <2> QED BY <2>1, <2>4, RowsDup DEF DupInv, OwnTags
<1>5. CASE DeleteDevice(d)
  <2>1. /\ UNCHANGED <<scan, edit, stray, overlap>>
        /\ devices' = [e \in DOMAIN devices \ {d} |-> devices[e]]
        /\ servers' = [e \in DOMAIN servers \ {d} |-> servers[e]]
    BY <1>5 DEF DeleteDevice, Restrict
  <2>2. \A e : (Ours(e))' => Ours(e) /\ e # d
    BY <2>1 DEF Ours
  <2>3. RowsShrink
    BY <2>1, <2>2 DEF RowsShrink, DupInv, OwnRows, Claim, Known, Ours
  <2> QED BY <2>1, <2>3, RowsDup DEF DupInv, OwnTags
<1> QED BY <1>1, <1>2, <1>3, <1>4, <1>5

\* An edit writes both rows.  A device of ours that it leaves ours is known.
LEMMA SaveRowsDup ==
    ASSUME Inv, DupInv, NEW e \in Editors, edit[e] # NoEdit, NEW dev, NEW row,
           SaveRows(e, dev, row), Claim(edit[e].dev, dev.of),
           dev.tag \in {NoTag, Tag(dev.of)},
           dev.found => edit[e].dev \in DOMAIN devices /\ devices[edit[e].dev].found,
           edit' = [edit EXCEPT ![e] = NoEdit], UNCHANGED <<scan, overlap>>
    PROVE  DupInv'
<1>0. PICK d : d = edit[e].dev
  OBVIOUS
<1>1. /\ devices' = [f \in DOMAIN devices \cup {d} |-> IF f = d THEN dev ELSE devices[f]]
      /\ servers' = WithServer(d, row) /\ Strayed(IF Hides(d, dev, row) THEN {d} ELSE {})
  BY <1>0 DEF SaveRows
<1>2. /\ DOMAIN devices' = DOMAIN devices \cup {d} /\ devices'[d] = dev
      /\ \A f \in DOMAIN devices \ {d} : devices'[f] = devices[f]
      /\ DOMAIN servers' = DOMAIN servers \cup {d} /\ servers'[d] = row
      /\ \A f \in DOMAIN servers \ {d} : servers'[f] = servers[f]
      /\ DOMAIN servers \subseteq DOMAIN devices /\ stray \subseteq stray'
  BY <1>1 DEF WithServer, Strayed, Inv, RowsOK
<1>3. \A f : (Ours(f))' => Ours(f)
  BY <1>0, <1>2 DEF Ours
<1>4. (Ours(d))' => ~Hides(d, dev, row) /\ Ours(d)
  BY <1>1, <1>3 DEF Strayed, Ours
<1>5. (Ours(d))' => /\ dev.of = devices[d].of /\ (Known(d, servers[d].addr))'
                    /\ devices[d].tag # NoTag => dev.tag # NoTag
  <2>1. Ours(d) => Claim(d, devices[d].of)
    BY DEF Claim, Ours
  <2>2. Ours(d) => dev.of = devices[d].of
    BY <1>0, <2>1 DEF DupInv, SameMachine
  <2> QED BY <1>2, <1>4, <2>2 DEF Hides, Known, Ours
<1>6. \A f \in DOMAIN devices' : /\ Claim(f, devices'[f].of)
                                /\ devices'[f].tag \in {NoTag, Tag(devices'[f].of)}
  BY <1>0, <1>2 DEF Claim, DupInv, OwnRows
<1>7. \A f : (Ours(f))' => /\ Ours(f) /\ devices'[f].of = devices[f].of
                           /\ devices[f].tag # NoTag => devices'[f].tag # NoTag
  BY <1>2, <1>3, <1>5 DEF Ours
<1>8. \A f \in DOMAIN servers' : (Ours(f))' => (Known(f, servers[f].addr))'
  <2>1. ASSUME NEW f \in DOMAIN servers', (Ours(f))', f # d PROVE (Known(f, servers[f].addr))'
    BY <1>2, <1>3, <2>1 DEF DupInv, OwnRows, Known
  <2> QED BY <1>5, <2>1
<1>9. RowsShrink
  <2>1. \A f \in DOMAIN servers : f \in DOMAIN servers'
    BY <1>2
  <2>2. overlap \subseteq overlap'
    OBVIOUS
  <2> QED BY <1>6, <1>7, <1>8, <2>1, <2>2 DEF RowsShrink
<1>10. /\ edit'[e] = NoEdit /\ \A f \in Editors \ {e} : edit'[f] = edit[f]
  BY DEF Inv, EditsOK
<1>11. OwnTags'
  BY <1>10 DEF DupInv, OwnTags
<1> QED BY <1>9, <1>10, <1>11, RowsDup

LEMMA EditsDup ==
    ASSUME Inv, DupInv, NEW e \in Editors,
           SaveForm(e) \/ Patch(e) \/ DropEdit(e) \/ \E d : OpenEdit(e, d)
    PROVE  DupInv'
<1>1. CASE SaveForm(e)
  <2>1. /\ edit[e] # NoEdit /\ edit' = [edit EXCEPT ![e] = NoEdit]
        /\ UNCHANGED <<scan, overlap>>
    BY <1>1 DEF SaveForm
  <2>2. PICK dev, row : /\ SaveRows(e, dev, row) /\ dev.of = edit[e].of /\ dev.tag = edit[e].tag
                        /\ dev.found => /\ edit[e].dev \in DOMAIN devices
                                        /\ devices[edit[e].dev].found
    <3>1. PICK name, site, addr :
             SaveRows(e, [name |-> name, site |-> site, tag |-> edit[e].tag, of |-> edit[e].of,
                          found |-> /\ edit[e].dev \in DOMAIN devices
                                    /\ devices[edit[e].dev].found],
                      [id |-> edit[e].id, addr |-> addr, confirmed |-> edit[e].confirmed])
      BY <1>1 DEF SaveForm
    <3> WITNESS [name |-> name, site |-> site, tag |-> edit[e].tag, of |-> edit[e].of,
                 found |-> edit[e].dev \in DOMAIN devices /\ devices[edit[e].dev].found],
                [id |-> edit[e].id, addr |-> addr, confirmed |-> edit[e].confirmed]
    <3> QED BY <3>1
  <2>3. Claim(edit[e].dev, dev.of) /\ dev.tag \in {NoTag, Tag(dev.of)}
    BY <2>1, <2>2 DEF Claim, DupInv, OwnTags
  <2> QED BY <2>1, <2>2, <2>3, SaveRowsDup
<1>2. CASE Patch(e)
  <2>0. PICK d : d = edit[e].dev
    OBVIOUS
  <2>1. /\ edit[e] # NoEdit /\ edit' = [edit EXCEPT ![e] = NoEdit] /\ d \in DOMAIN devices
        /\ UNCHANGED <<scan, overlap>>
    BY <1>2, <2>0 DEF Patch
  <2>2. PICK confirmed, addr :
           SaveRows(e, [devices[d] EXCEPT !.found = devices[d].found
                                                    /\ (edit[e].confirmed \/ ~confirmed)],
                    [id |-> edit[e].id, addr |-> addr, confirmed |-> confirmed])
    BY <1>2, <2>0 DEF Patch
  <2> DEFINE dev == [devices[d] EXCEPT !.found = devices[d].found
                                                 /\ (edit[e].confirmed \/ ~confirmed)]
             row == [id |-> edit[e].id, addr |-> addr, confirmed |-> confirmed]
  <2>3. /\ dev.of = devices[d].of /\ dev.tag = devices[d].tag
        /\ dev.found => devices[d].found
    BY <2>1 DEF Inv, RowsOK, DeviceType
  <2>4. SaveRows(e, dev, row)
    BY <2>2
  <2> HIDE DEF dev, row
  <2>5. Claim(d, dev.of) /\ dev.tag \in {NoTag, Tag(dev.of)}
    BY <2>1, <2>3 DEF Claim, DupInv, OwnRows
  <2> QED BY <2>0, <2>1, <2>3, <2>4, <2>5, SaveRowsDup
<1>3. CASE DropEdit(e)
  <2>1. /\ edit' = [edit EXCEPT ![e] = NoEdit] /\ UNCHANGED <<devices, servers, stray, overlap>>
        /\ UNCHANGED scan
    BY <1>3 DEF DropEdit
  <2>2. edit'[e] = NoEdit /\ \A f \in Editors \ {e} : edit'[f] = edit[f]
    BY <2>1 DEF Inv, EditsOK
  <2>3. RowsShrink
    BY <2>1, RowsUnchanged
  <2> QED BY <2>1, <2>2, <2>3, RowsDup DEF DupInv, OwnTags
<1>4. ASSUME NEW d, OpenEdit(e, d) PROVE DupInv'
  <2> DEFINE new == [dev |-> d, id |-> servers[d].id, confirmed |-> servers[d].confirmed,
                     tag |-> devices[d].tag, of |-> devices[d].of]
  <2>1. /\ d \in DOMAIN servers /\ edit' = [edit EXCEPT ![e] = new]
        /\ UNCHANGED <<devices, servers, stray, overlap>> /\ UNCHANGED scan
    BY <1>4 DEF OpenEdit
  <2>2. new.dev = d /\ new.of = devices[d].of /\ new.tag = devices[d].tag
    OBVIOUS
  <2> HIDE DEF new
  <2>3. /\ edit'[e] = new /\ \A f \in Editors \ {e} : edit'[f] = edit[f]
        /\ d \in DOMAIN devices
    BY <2>1 DEF Inv, RowsOK, EditsOK
  <2>4. Claim(new.dev, new.of) /\ new.tag \in {NoTag, Tag(new.of)}
    BY <2>2, <2>3 DEF Claim, DupInv, OwnRows
  <2>5. OwnTags'
    BY <2>3, <2>4 DEF DupInv, OwnTags
  <2>6. RowsShrink
    BY <2>1, RowsUnchanged
  <2> QED BY <2>1, <2>3, <2>4, <2>5, <2>6, RowsDup
<1> QED BY <1>1, <1>2, <1>3, <1>4

LEMMA InitDup == Init => DupInv
<1> SUFFICES ASSUME Init PROVE DupInv
  OBVIOUS
<1>1. /\ servers = << >> /\ scan = [s \in Scans |-> IdleScan]
      /\ \A e \in Editors : edit[e] = NoEdit
  BY DEF Init
<1>2. \A s \in Scans : scan[s].pc = "idle"
  BY <1>1 DEF IdleScan
<1>3. \A d \in DOMAIN devices : /\ ~devices[d].found
                                /\ devices[d].tag \in {NoTag, Tag(devices[d].of)}
  <2>1. CASE devices = << >>
    BY <2>1
  <2>2. ASSUME NEW m \in Machines, NEW site \in Sites, NEW tag \in {NoTag, Tag(m)},
               devices = [d \in {1} |-> [Device(m, site, FALSE) EXCEPT !.tag = tag]]
        PROVE  \A d \in DOMAIN devices : /\ ~devices[d].found
                                         /\ devices[d].tag \in {NoTag, Tag(devices[d].of)}
    <3>1. \A d \in DOMAIN devices : devices[d] = [Device(m, site, FALSE) EXCEPT !.tag = tag]
      BY <2>2
    <3> QED BY <3>1 DEF Device
  <2> QED BY <2>1, <2>2 DEF Init
<1>4. OwnRows /\ OneEach
  BY <1>1, <1>3 DEF OwnRows, OneEach, Ours
<1>5. SameMachine /\ OwnTags
  BY <1>1, <1>2 DEF SameMachine, Claim, HasDevice, OwnTags
<1> QED BY <1>2, <1>4, <1>5 DEF DupInv, Noticed, Busy, Importing, HoldsIts, Searches

LEMMA NextDup == Inv /\ DupInv /\ [Next]_vars => DupInv'
<1> SUFFICES ASSUME Inv, DupInv, [Next]_vars PROVE DupInv'
  OBVIOUS
<1>1. ASSUME NEW s \in Scans, StartScan(s) \/ ScanStep(s) \/ Kill(s) PROVE DupInv'
  BY <1>1, OtherScanStepsDup, ProbeDup, LookupDup, CreateDeviceDup, AttachDup, SyncDeviceDup,
     SyncSaveDup, KillDup DEF ScanStep
<1>2. CASE UNCHANGED vars
  <2>1. UNCHANGED <<devices, servers>> /\ UNCHANGED scan /\ stray \subseteq stray'
        /\ overlap \subseteq overlap'
    BY <1>2 DEF vars
  <2>2. UNCHANGED edit
    BY <1>2 DEF vars
  <2> QED BY <2>1, <2>2, RowsUnchanged, RowsDup DEF DupInv, OwnTags
<1> QED BY <1>1, <1>2, OtherWritersDup, EditsDup DEF Next

LEMMA NoDuplicates == DupInv => DuplicateOnlyIfExcused
BY DEF DupInv, OneEach, Ours, Copies, DuplicateOnlyIfExcused

\* Discovery makes a second device for a machine only if two scans worked on
\* the machine at once, or the device it made before was left without its
\* server, given another, or hidden by an edit that took its serial, or its
\* address while it had no serial: after any number of faults, and of
\* requests that add, edit, confirm, sync and delete (discovery.py 92-135).
THEOREM DuplicatesExcused == Spec => []DuplicateOnlyIfExcused
BY InitInv, NextInv, InitDup, NextDup, NoDuplicates, PTL DEF Spec
=============================================================================
