----------------------------- MODULE BaysProofs -----------------------------
(***************************************************************************)
(* Theorems about Bays: type correctness, that cables and addresses go     *)
(* only with cards that are gone for certain, that they follow their       *)
(* cards, that after a full read every adapter has its bay, and that an    *)
(* adapter that is where it belongs is left there.  They hold for any      *)
(* slots, bays, cards and any number of adapters.                          *)
(***************************************************************************)
EXTENDS Bays, FiniteSetTheorems, TLAPS

LEMMA Constants ==
    /\ SlotOf \in [TypeBays -> Slots] /\ Slots \subseteq Names /\ Slots \cap Foreign = {}
    /\ TypeBays \subseteq Bays /\ NicBays \subseteq Bays /\ TypeBays \cap NicBays = {}
    /\ \A s \in Slots : NicBay(s) \in NicBays
    /\ \A s, t \in Slots : NicBay(s) = NicBay(t) => s = t
    /\ None \notin Cards \cup Bays \cup Names /\ Hand \notin Cards \cup {None}
    /\ Device \notin Bays \cup {None} /\ None \notin Tokens
BY BaysAssumption DEF NicBay, NicBays, Bays, Names, Tokens

Rep == {s \in Slots : got[s] \notin {"gone", "unread"}}
Finished == Rep \ left
OwnBays(s) == {NicBay(s)} \cup {c \in TypeBays : SlotOf[c] = s}

-----------------------------------------------------------------------------
(* A device between two adapters.                                          *)

\* A module has one interface at most.
Lone(d) == \A b \in Bays : \A n, m \in In(d, b) : n = m

\* A port that is in a module is in one of its own bays, in a card's module.
PortsPlaced(d) ==
    \A s \in Slots \cap DOMAIN d.ifc : d.ifc[s].bay # Device =>
        d.ifc[s].bay \in OwnBays(s) /\ d.mods[d.ifc[s].bay] \in Cards

\* Nothing but its adapter is in a bay of the plugin's own.
NicOK(d) == \A s \in Slots : /\ In(d, NicBay(s)) \subseteq {s}
                             /\ d.mods[NicBay(s)] \in Cards \cup {None}

Sound(d) == DeviceOK(d) /\ Lone(d) /\ PortsPlaced(d) /\ NicOK(d)

-----------------------------------------------------------------------------
(* The invariant of a sync that is under way.                              *)

Lists == /\ \A s \in Slots : (got[s] = "gone") = (hw[s] = None)
         /\ left \subseteq Rep /\ skipped \subseteq Finished

\* The plugin's own bays that are wanted have their adapters.
DesiredIs == \A b \in desired \cap NicBays :
                \E s \in Finished : b = NicBay(s) /\ dev.mods[b] = hw[s]

FinishedIn == \A s \in Finished \cap DOMAIN dev.ifc : dev.ifc[s].bay \in desired \cup {Device}

\* Interface n, and the module it is in, are as when the sync began.
Untouched(n) ==
    /\ n \in DOMAIN dev.ifc /\ dev.ifc[n] = before.ifc[n]
    /\ before.ifc[n].bay # Device =>
          dev.mods[before.ifc[n].bay] = before.mods[before.ifc[n].bay]

\* Only finished ports' interfaces are changed.
Elsewhere == \A n \in DOMAIN dev.ifc \ Finished :
                n \in DOMAIN before.ifc /\ dev.ifc[n] = before.ifc[n]

\* A token stays where it was or goes to a reported port.
TokensKept ==
    \A n \in DOMAIN before.ifc : Carries(before, n) =>
        \/ Untouched(n)
        \/ \E s \in Finished \cap DOMAIN dev.ifc : dev.ifc[s].data = before.ifc[n].data

MacsOld ==
    \A l \in DOMAIN dev.ifc : dev.ifc[l].mac # None =>
        \/ \E s \in Finished : got[s] = "own" /\ dev.ifc[l].mac = hw[s]
        \/ l \in DOMAIN before.ifc /\ before.ifc[l].mac = dev.ifc[l].mac

\* Interface n alone had the MAC of the card in slot s, and it carries data.
OneHolder(s, n) == got[s] = "own" /\ Holders(before, hw[s]) = {n} /\ Carries(before, n)

HolderGone ==
    \A s \in Finished \ skipped, n \in DOMAIN before.ifc :
        OneHolder(s, n) => n \notin DOMAIN dev.ifc \/ n \in Finished

Housing ==
    \A s \in Finished \ skipped : got[s] = "own" =>
        s \in DOMAIN dev.ifc /\ dev.ifc[s].mac = hw[s] /\ Houses(dev, s, dev.ifc[s].bay)

Followed ==
    \A s \in Rep \ skipped, n \in DOMAIN before.ifc :
        OneHolder(s, n) /\ (n \in Slots \ {s} => n \notin Rep) =>
            /\ s \in left => n \in DOMAIN dev.ifc /\ dev.ifc[n] = before.ifc[n]
            /\ s \notin left => s \in DOMAIN dev.ifc /\ dev.ifc[s].data = before.ifc[n].data

\* What holds of a sync after any number of adapters: the properties speak of
\* its end only.
During == /\ Lists /\ DesiredIs /\ FinishedIn /\ Elsewhere /\ TokensKept /\ MacsOld
          /\ HolderGone /\ Housing /\ Followed

\* The properties at the end of a sync, which the clean-up establishes.
Promises == DataLostOnlyWithGoneCard /\ DataFollowsCard /\ EachHoused

Inv == TypeOK /\ Sound(dev) /\ Sound(before) /\ (pc = "adapters" => During) /\ Promises

-----------------------------------------------------------------------------
(* The bay of an adapter.                                                  *)

LEMMA BayIs ==
    ASSUME NEW d, Sound(d), NEW s \in Slots
    PROVE  /\ BayFor(d, s) \in OwnBays(s)
           /\ Current(d, s) # None => /\ Current(d, s) \in OwnBays(s) /\ s \in DOMAIN d.ifc
                                      /\ d.ifc[s].bay = Current(d, s)
           /\ s \in DOMAIN d.ifc => d.ifc[s].bay \in {Current(d, s), Device}
           /\ BayFor(d, s) = NicBay(s) => Current(d, s) \in {None, NicBay(s)}
           /\ \A n \in In(d, BayFor(d, s)) : n # s => ~Carries(d, n)
<1> DEFINE cur == Current(d, s)
           b == BayFor(d, s)
<1>1. cur # None => s \in DOMAIN d.ifc /\ d.ifc[s].bay # Device /\ cur = d.ifc[s].bay
  BY DEF Current
<1>2. cur # None => cur \in OwnBays(s)
  BY <1>1 DEF Sound, PortsPlaced
<1>3. s \in DOMAIN d.ifc => d.ifc[s].bay \in {cur, Device}
  BY DEF Current
<1>4. OwnBays(s) \subseteq Bays
  BY Constants DEF OwnBays
<1>5. ASSUME NEW c \in TypeBayFor(d, s)
      PROVE  c \in OwnBays(s) /\ \A n \in In(d, c) : n # s => ~Carries(d, n)
  <2>1. CASE cur \in TypeBays
    <3>1. c = cur /\ cur # None
      BY <1>5, <2>1, Constants DEF TypeBayFor
    <3>2. s \in In(d, c)
      BY <1>1, <3>1 DEF In
    <3> QED BY <1>2, <1>4, <3>1, <3>2 DEF Sound, Lone
  <2>2. CASE cur \notin TypeBays
    <3>1. c \in Candidates(d, s, FALSE) \/ (c \in Candidates(d, s, TRUE) /\ Replaceable(d, c))
      BY <1>5, <2>2 DEF TypeBayFor
    <3>2. c \in TypeBays /\ SlotOf[c] = s
      BY <3>1 DEF Candidates
    <3>3. CASE c \in Candidates(d, s, FALSE)
      <4>1. d.mods[c] = None
        BY <3>3 DEF Candidates
      <4>2. c # Device
        BY <3>2, Constants
      <4>3. In(d, c) = {}
        BY <4>1, <4>2 DEF In, Sound, DeviceOK
      <4> QED BY <3>2, <4>3 DEF OwnBays
    <3>4. CASE Replaceable(d, c)
      BY <3>2, <3>4 DEF OwnBays, Replaceable, HoldsData
    <3> QED BY <3>1, <3>3, <3>4
  <2> QED BY <2>1, <2>2
<1>6. CASE TypeBayFor(d, s) # {}
  <2>1. b \in TypeBayFor(d, s)
    BY <1>6 DEF BayFor
  <2>2. b \in TypeBays
    BY <2>1 DEF TypeBayFor, Candidates
  <2>3. b # NicBay(s)
    BY <2>2, Constants
  <2> QED BY <1>1, <1>2, <1>3, <1>5, <2>1, <2>3
<1>7. CASE TypeBayFor(d, s) = {}
  <2>1. b = NicBay(s) /\ b \in OwnBays(s)
    BY <1>7 DEF BayFor, OwnBays
  <2>2. cur \notin TypeBays
    BY <1>7 DEF TypeBayFor
  <2>3. cur \in {None, NicBay(s)}
    BY <1>2, <2>2 DEF OwnBays
  <2>4. In(d, b) \subseteq {s}
    BY <2>1 DEF Sound, NicOK
  <2> QED BY <1>1, <1>2, <1>3, <2>1, <2>3, <2>4
<1> QED BY <1>6, <1>7

\* What becomes of the device when the adapter of slot s is given its bay: the
\* interfaces there, if any, go, and its own port comes with it.
LEMMA HousedIs ==
    ASSUME NEW d, Sound(d), NEW s \in Slots,
           NEW b, b = BayFor(d, s), NEW h, h = Housed(d, s, b)
    PROVE  /\ DOMAIN h = {"bays", "mods", "ifc"}
           /\ h.bays = d.bays \cup {b}
           /\ h.mods = [c \in Bays |-> IF c = b THEN hw[s]
                                       ELSE IF c = Current(d, s) THEN None ELSE d.mods[c]]
           /\ DOMAIN h.ifc = {n \in DOMAIN d.ifc : n = s \/ d.ifc[n].bay # b}
           /\ \A n \in DOMAIN h.ifc \ {s} : h.ifc[n] = d.ifc[n]
           /\ s \in DOMAIN h.ifc => h.ifc[s] = IF Current(d, s) = None THEN d.ifc[s]
                                               ELSE [d.ifc[s] EXCEPT !.bay = b]
<1> DEFINE cur == Current(d, s)
           cleared == IF b \in TypeBays \ {cur} THEN Emptied(d, {b}) ELSE d
           moved == IF b \in TypeBays /\ cur \notin {b, None} THEN Moved(cleared, cur, b)
                    ELSE cleared
<1>1. /\ DOMAIN d = {"bays", "mods", "ifc"} /\ d.mods \in [Bays -> Cards \cup {Hand, None}]
      /\ \A n \in DOMAIN d.ifc : d.ifc[n] \in Iface
  BY DEF Sound, DeviceOK
<1>2. b \in Bays /\ b \in OwnBays(s) /\ (cur # None => cur \in Bays)
  BY BayIs, Constants DEF OwnBays
<1>3. h = [moved EXCEPT !.bays = @ \cup {b}, !.mods[b] = hw[s]]
  BY DEF Housed
<1>4. CASE b \in TypeBays \ {cur}
  <2>1. /\ DOMAIN cleared = {"bays", "mods", "ifc"} /\ cleared.bays = d.bays
        /\ cleared.mods = [c \in Bays |-> IF c = b THEN None ELSE d.mods[c]]
        /\ DOMAIN cleared.ifc = {n \in DOMAIN d.ifc : d.ifc[n].bay # b}
        /\ \A n \in DOMAIN cleared.ifc : cleared.ifc[n] = d.ifc[n]
    BY <1>1, <1>4 DEF Emptied, Restrict
  <2>2. s \in DOMAIN d.ifc => d.ifc[s].bay # b
    BY <1>2, <1>4, BayIs, Constants
  <2>3. CASE cur = None
    <3>1. moved = cleared
      BY <2>3
    <3> HIDE DEF cleared, moved
    <3>2. /\ DOMAIN h = {"bays", "mods", "ifc"} /\ h.bays = d.bays \cup {b}
          /\ h.ifc = cleared.ifc
          /\ h.mods = [cleared.mods EXCEPT ![b] = hw[s]]
      BY <1>3, <2>1, <3>1
    <3>3. h.mods = [c \in Bays |-> IF c = b THEN hw[s] ELSE IF c = cur THEN None ELSE d.mods[c]]
      BY <1>2, <2>1, <2>3, <3>2, Constants
    <3> QED BY <2>1, <2>2, <2>3, <3>2, <3>3
  <2>4. CASE cur # None
    <3>1. moved = Moved(cleared, cur, b)
      BY <1>4, <2>4
    <3> HIDE DEF cleared, moved
    <3>2. /\ DOMAIN moved = {"bays", "mods", "ifc"} /\ moved.bays = d.bays
          /\ moved.mods = [c \in Bays |-> IF c = cur THEN None ELSE cleared.mods[c]]
          /\ moved.ifc = [n \in DOMAIN cleared.ifc |->
                          IF cleared.ifc[n].bay = cur THEN [cleared.ifc[n] EXCEPT !.bay = b]
                          ELSE cleared.ifc[n]]
      BY <2>1, <3>1 DEF Moved
    <3>3. /\ DOMAIN h = {"bays", "mods", "ifc"} /\ h.bays = d.bays \cup {b}
          /\ h.ifc = moved.ifc
          /\ h.mods = [moved.mods EXCEPT ![b] = hw[s]]
      BY <1>3, <3>2
    <3>4. h.mods = [c \in Bays |-> IF c = b THEN hw[s] ELSE IF c = cur THEN None ELSE d.mods[c]]
      BY <1>2, <2>1, <3>2, <3>3
    <3>5. s \in DOMAIN d.ifc /\ d.ifc[s].bay = cur
      BY <2>4, BayIs
    <3>6. ASSUME NEW n \in DOMAIN d.ifc, n # s PROVE d.ifc[n].bay # cur
      <4>1. d.ifc[n].bay = cur => n \in In(d, cur) /\ s \in In(d, cur)
        BY <3>5 DEF In
      <4> QED BY <1>2, <2>4, <3>6, <4>1 DEF Sound, Lone
    <3> QED BY <2>1, <2>2, <2>4, <3>2, <3>3, <3>4, <3>5, <3>6
  <2> QED BY <2>3, <2>4
<1>5. CASE b \notin TypeBays \ {cur}
  <2>1. moved = d
    BY <1>5
  <2>2. /\ DOMAIN h = {"bays", "mods", "ifc"} /\ h.bays = d.bays \cup {b}
        /\ h.ifc = d.ifc /\ h.mods = [d.mods EXCEPT ![b] = hw[s]]
    BY <1>1, <1>3, <2>1
  <2>3. cur \in {b, None} /\ In(d, b) \subseteq {s}
    <3>1. CASE b = cur
      <4>1. s \in In(d, b)
        BY <1>2, <3>1, BayIs, Constants DEF In
      <4> QED BY <1>2, <3>1, <4>1 DEF Sound, Lone
    <3>2. CASE b # cur
      <4>1. b = NicBay(s)
        BY <1>2, <1>5, <3>2 DEF OwnBays
      <4> QED BY <3>2, <4>1, BayIs DEF Sound, NicOK
    <3> QED BY <3>1, <3>2
  <2>4. h.mods = [c \in Bays |-> IF c = b THEN hw[s] ELSE IF c = cur THEN None ELSE d.mods[c]]
    BY <1>1, <1>2, <2>2, <2>3, Constants
  <2>5. DOMAIN d.ifc = {n \in DOMAIN d.ifc : n = s \/ d.ifc[n].bay # b}
    BY <2>3 DEF In
  <2>6. cur # None /\ s \in DOMAIN d.ifc => [d.ifc[s] EXCEPT !.bay = b] = d.ifc[s]
    <3>1. cur # None /\ s \in DOMAIN d.ifc => d.ifc[s].bay = b /\ d.ifc[s] \in Iface
      BY <1>1, <2>3, BayIs
    <3> QED BY <3>1 DEF Iface
  <2> QED BY <2>2, <2>4, <2>5, <2>6
<1> QED BY <1>4, <1>5

-----------------------------------------------------------------------------
(* One adapter.                                                            *)

\* What the adapter of slot s, in bay b, may make of device d.
Processed(d, e, s, b) ==
    /\ DOMAIN e = {"bays", "mods", "ifc"} /\ e.bays = d.bays \cup {b}
    /\ e.mods = [c \in Bays |-> IF c = b THEN hw[s]
                                ELSE IF c = Current(d, s) THEN None ELSE d.mods[c]]
    /\ \A n \in DOMAIN e.ifc \ {s} : n \in DOMAIN d.ifc /\ e.ifc[n] = d.ifc[n] /\ d.ifc[n].bay # b
    /\ s \in DOMAIN e.ifc =>
          /\ e.ifc[s] \in Iface /\ e.ifc[s].bay \in {b, Device}
          /\ \/ e.ifc[s].mac = None
             \/ got[s] = "own" /\ e.ifc[s].mac = hw[s]
             \/ s \in DOMAIN d.ifc /\ d.ifc[s].mac = e.ifc[s].mac
    /\ \A n \in DOMAIN d.ifc \ {s} : \/ n \in DOMAIN e.ifc \/ d.ifc[n].bay = b
                                     \/ got[s] = "own" /\ d.ifc[n].mac = hw[s]
    /\ \A n \in DOMAIN d.ifc : Carries(d, n) =>
          \/ n # s /\ n \in DOMAIN e.ifc
          \/ /\ s \in DOMAIN e.ifc /\ e.ifc[s].data = d.ifc[n].data
             /\ n # s => got[s] = "own" /\ d.ifc[n].mac = hw[s]

\* ... when its port has told its MAC and was not skipped.
Matched(d, e, s, b) ==
    /\ s \in DOMAIN e.ifc /\ e.ifc[s].mac = hw[s] /\ e.ifc[s].bay = b
    /\ \A n \in DOMAIN d.ifc : Holders(d, hw[s]) = {n} /\ Carries(d, n) =>
          e.ifc[s].data = d.ifc[n].data /\ (n = s \/ n \notin DOMAIN e.ifc)

LEMMA RehousedIs ==
    ASSUME NEW i \in Iface, NEW b \in Bays \cup {Device}
    PROVE  /\ [i EXCEPT !.bay = b] \in Iface /\ [i EXCEPT !.bay = b].bay = b
           /\ [i EXCEPT !.bay = b].data = i.data /\ [i EXCEPT !.bay = b].mac = i.mac
BY DEF Iface

\* The interface that becomes the port of slot s, and what it becomes.
Source(h, src) == IF src \in DOMAIN h.ifc THEN h.ifc[src] ELSE NewIface
NewMac(i, s) == IF MacOf(s) = None THEN i.mac ELSE MacOf(s)
Renewed(i, s, b) == [i EXCEPT !.bay = b, !.mac = NewMac(i, s)]

LEMMA RenewedIs ==
    ASSUME NEW i \in Iface, NEW b \in Bays \cup {Device}, NEW s, NewMac(i, s) \in Cards \cup {None}
    PROVE  /\ Renewed(i, s, b) \in Iface /\ Renewed(i, s, b).bay = b
           /\ Renewed(i, s, b).data = i.data /\ Renewed(i, s, b).mac = NewMac(i, s)
BY DEF Iface, Renewed

LEMMA NewIfaceIs == NewIface \in Iface /\ NewIface.data = None /\ NewIface.mac = None
BY DEF NewIface, Iface

LEMMA HousedProcessed ==
    ASSUME NEW d, Sound(d), NEW s \in Slots,
           NEW b, b = BayFor(d, s), NEW h, h = Housed(d, s, b)
    PROVE  /\ Processed(d, h, s, b)
           /\ \A n \in DOMAIN h.ifc : /\ n \in DOMAIN d.ifc /\ h.ifc[n] \in Iface
                                      /\ h.ifc[n].mac = d.ifc[n].mac
                                      /\ h.ifc[n].data = d.ifc[n].data
           /\ \A n \in DOMAIN d.ifc : Carries(d, n) => n \in DOMAIN h.ifc
<1>0. /\ DOMAIN h = {"bays", "mods", "ifc"} /\ h.bays = d.bays \cup {b}
      /\ h.mods = [c \in Bays |-> IF c = b THEN hw[s]
                                  ELSE IF c = Current(d, s) THEN None ELSE d.mods[c]]
      /\ DOMAIN h.ifc = {n \in DOMAIN d.ifc : n = s \/ d.ifc[n].bay # b}
      /\ \A n \in DOMAIN h.ifc \ {s} : h.ifc[n] = d.ifc[n]
      /\ s \in DOMAIN h.ifc => h.ifc[s] = IF Current(d, s) = None THEN d.ifc[s]
                                          ELSE [d.ifc[s] EXCEPT !.bay = b]
  BY HousedIs
<1>1. b \in Bays /\ b \in OwnBays(s)
  BY BayIs, Constants DEF OwnBays
<1>2. \A n \in DOMAIN d.ifc : d.ifc[n] \in Iface /\ d.ifc[n].mac \in Cards \cup {None}
  BY DEF Sound, DeviceOK, Iface
<1>3. s \in DOMAIN h.ifc =>
        /\ h.ifc[s] \in Iface /\ h.ifc[s].data = d.ifc[s].data /\ h.ifc[s].mac = d.ifc[s].mac
        /\ h.ifc[s].bay \in {b, Device} /\ s \in DOMAIN d.ifc
  <2>1. CASE Current(d, s) = None
    <3>1. s \in DOMAIN h.ifc => h.ifc[s] = d.ifc[s] /\ s \in DOMAIN d.ifc
      BY <2>1, <1>0
    <3>2. s \in DOMAIN d.ifc => d.ifc[s].bay = Device
      <4>1. s \in DOMAIN d.ifc => d.ifc[s].bay \in Bays \cup {Device}
        BY <1>2 DEF Iface
      <4>2. s \in DOMAIN d.ifc => d.ifc[s].bay \in {Current(d, s), Device}
        BY BayIs
      <4> QED BY <2>1, <4>1, <4>2, Constants
    <3> QED BY <1>2, <3>1, <3>2
  <2>2. CASE Current(d, s) # None
    <3>1. s \in DOMAIN h.ifc => h.ifc[s] = [d.ifc[s] EXCEPT !.bay = b] /\ s \in DOMAIN d.ifc
      BY <2>2, <1>0
    <3>2. s \in DOMAIN h.ifc => d.ifc[s] \in Iface /\ b \in Bays \cup {Device}
      BY <1>1, <1>2, <3>1
    <3>3. s \in DOMAIN h.ifc =>
            /\ [d.ifc[s] EXCEPT !.bay = b] \in Iface /\ [d.ifc[s] EXCEPT !.bay = b].bay = b
            /\ [d.ifc[s] EXCEPT !.bay = b].data = d.ifc[s].data
            /\ [d.ifc[s] EXCEPT !.bay = b].mac = d.ifc[s].mac
      BY <3>2, RehousedIs
    <3> QED BY <3>1, <3>3
  <2> QED BY <2>1, <2>2
<1>4. \A n \in DOMAIN h.ifc \ {s} : n \in DOMAIN d.ifc /\ h.ifc[n] = d.ifc[n] /\ d.ifc[n].bay # b
  BY <1>0
<1>5. ASSUME NEW n \in DOMAIN d.ifc, Carries(d, n)
      PROVE  \/ n # s /\ n \in DOMAIN h.ifc
             \/ n = s /\ s \in DOMAIN h.ifc /\ h.ifc[s].data = d.ifc[n].data
  <2>1. n # s => d.ifc[n].bay # b
    <3>1. b = BayFor(d, s) /\ \A x \in In(d, BayFor(d, s)) : x # s => ~Carries(d, x)
      BY BayIs
    <3> QED BY <1>5, <3>1 DEF In
  <2> QED BY <1>3, <1>5, <2>1, <1>0
<1>6. Processed(d, h, s, b)
  <2>1. \A n \in DOMAIN d.ifc \ {s} : n \in DOMAIN h.ifc \/ d.ifc[n].bay = b
    BY <1>0
  <2>2. DOMAIN h = {"bays", "mods", "ifc"} /\ h.bays = d.bays \cup {b}
    BY <1>0
  <2>3. h.mods = [c \in Bays |-> IF c = b THEN hw[s]
                                 ELSE IF c = Current(d, s) THEN None ELSE d.mods[c]]
    BY <1>0
  <2> QED BY <1>3, <1>4, <1>5, <2>1, <2>2, <2>3 DEF Processed
<1> QED BY <1>2, <1>3, <1>4, <1>5, <1>6

LEMMA MatchIs ==
    ASSUME NEW h, NEW s \in Slots, NEW m \in PortMatches(h, s), m # s
    PROVE  got[s] = "own" /\ m \in DOMAIN h.ifc /\ h.ifc[m].mac = hw[s] /\ hw[s] # None
BY DEF PortMatches, Matches, MacOf

\* The interfaces when src has become port s.
LEMMA BecomeIs ==
    ASSUME NEW h, DOMAIN h = {"bays", "mods", "ifc"}, NEW src, NEW s, NEW b,
           NEW f, f = Become(h, src, s, b)
    PROVE  /\ DOMAIN f = {"bays", "mods", "ifc"} /\ f.bays = h.bays /\ f.mods = h.mods
           /\ DOMAIN f.ifc = (DOMAIN h.ifc \ {src}) \cup {s}
           /\ \A n \in DOMAIN f.ifc \ {s} : f.ifc[n] = h.ifc[n]
           /\ f.ifc[s] = Renewed(Source(h, src), s, b)
<1> DEFINE new == Renewed(Source(h, src), s, b)
<1>1. f = [h EXCEPT !.ifc = [n \in (DOMAIN h.ifc \ {src}) \cup {s} |->
                                IF n = s THEN new ELSE h.ifc[n]]]
  BY DEF Become, Renewed, Source, NewMac
<1> HIDE DEF new
<1>2. /\ DOMAIN f = {"bays", "mods", "ifc"} /\ f.bays = h.bays /\ f.mods = h.mods
      /\ f.ifc = [n \in (DOMAIN h.ifc \ {src}) \cup {s} |-> IF n = s THEN new ELSE h.ifc[n]]
  BY <1>1
<1>3. f.ifc[s] = new
  BY <1>2
<1> QED BY <1>2, <1>3 DEF new

LEMMA TrimmedIs ==
    ASSUME NEW f, DOMAIN f = {"bays", "mods", "ifc"}, NEW s, NEW b, In(f, b) \subseteq {s},
           NEW e, e = Trimmed(f, s, b)
    PROVE  /\ DOMAIN e = {"bays", "mods", "ifc"} /\ e.bays = f.bays /\ e.mods = f.mods
           /\ DOMAIN e.ifc = DOMAIN f.ifc /\ \A n \in DOMAIN f.ifc : e.ifc[n] = f.ifc[n]
<1>1. DOMAIN f.ifc \ (In(f, b) \ {s}) = DOMAIN f.ifc
  OBVIOUS
<1> QED BY <1>1 DEF Trimmed, Restrict

\* The port of the adapter, matched by m, in the device h that already has it
\* in its bay.
LEMMA PortIs ==
    ASSUME NEW d, NEW h, NEW s \in Slots, NEW b \in Bays, Processed(d, h, s, b),
           \A n \in DOMAIN h.ifc : h.ifc[n] \in Iface,
           hw \in Layouts, hw[s] # None, Listed(s), NEW m \in PortMatches(h, s),
           NEW e, e = Trimmed(Ported(h, s, b, m), s, b)
    PROVE  /\ Processed(d, e, s, b)
           /\ got[s] = "own" /\ ~Ambiguous(h, s, m) => Matched(h, e, s, b)
<1>1. /\ DOMAIN h = {"bays", "mods", "ifc"} /\ In(h, b) \subseteq {s}
      /\ hw[s] \in Cards /\ Listed(s)
  BY Constants DEF Processed, In, Layouts
<1>2. m # s => got[s] = "own" /\ m \in DOMAIN h.ifc /\ h.ifc[m].mac = hw[s] /\ hw[s] # None
  BY MatchIs
<1>3. MacOf(s) = IF got[s] = "own" THEN hw[s] ELSE None
  BY DEF MacOf
<1>4. CASE Ambiguous(h, s, m)
  <2>1. e = Trimmed(h, s, b)
    BY <1>4 DEF Ported
  <2>2. /\ DOMAIN e = {"bays", "mods", "ifc"} /\ e.bays = h.bays /\ e.mods = h.mods
        /\ DOMAIN e.ifc = DOMAIN h.ifc /\ \A n \in DOMAIN h.ifc : e.ifc[n] = h.ifc[n]
    BY <1>1, <2>1, TrimmedIs
  <2> QED BY <1>4, <2>2 DEF Processed
<1>5. CASE ~Ambiguous(h, s, m)
  <2> DEFINE src == IF Clash(h, s, m) /\ Carries(h, s) THEN s ELSE m
             f == Become(h, src, s, b)
             old == Source(h, src)
  <2>1. e = Trimmed(f, s, b)
    BY <1>5 DEF Ported
  <2>2. /\ DOMAIN f = {"bays", "mods", "ifc"} /\ f.bays = h.bays /\ f.mods = h.mods
        /\ DOMAIN f.ifc = (DOMAIN h.ifc \ {src}) \cup {s}
        /\ \A n \in DOMAIN f.ifc \ {s} : f.ifc[n] = h.ifc[n]
        /\ f.ifc[s] = Renewed(old, s, b)
    <3> HIDE DEF src
    <3> QED BY <1>1, BecomeIs
  <2>3. In(f, b) \subseteq {s}
    BY <1>1, <2>2 DEF In
  <2>4. /\ DOMAIN e = {"bays", "mods", "ifc"} /\ e.bays = h.bays /\ e.mods = h.mods
        /\ DOMAIN e.ifc = (DOMAIN h.ifc \ {src}) \cup {s}
        /\ \A n \in DOMAIN e.ifc \ {s} : e.ifc[n] = h.ifc[n]
        /\ e.ifc[s] = Renewed(old, s, b)
    <3> HIDE DEF f
    <3> QED BY <2>1, <2>2, <2>3, TrimmedIs
  <2>5. old \in Iface /\ NewMac(old, s) \in Cards \cup {None}
    <3>1. old \in Iface
      BY NewIfaceIs DEF Source
    <3>2. old.mac \in Cards \cup {None}
      BY <3>1 DEF Iface
    <3>3. MacOf(s) \in Cards \cup {None}
      BY <1>1, <1>3
    <3> HIDE DEF old
    <3> QED BY <3>1, <3>2, <3>3 DEF NewMac
  <2>6. /\ e.ifc[s] \in Iface /\ e.ifc[s].bay = b /\ e.ifc[s].data = old.data
        /\ e.ifc[s].mac = NewMac(old, s)
    <3> HIDE DEF old
    <3> QED BY <2>4, <2>5, RenewedIs
  <2>7. /\ src \in {s, m} /\ (src # s /\ s \in DOMAIN h.ifc => ~Carries(h, s))
        /\ src = s => m = s \/ (s \in DOMAIN h.ifc /\ Carries(h, s) /\ ~Carries(h, m))
    BY <1>5 DEF Clash, Ambiguous
  <2>8. src \notin DOMAIN h.ifc => src = s
    BY <1>2, <2>7
  <2>9. \/ NewMac(old, s) = None
        \/ got[s] = "own" /\ NewMac(old, s) = hw[s]
        \/ src = s /\ s \in DOMAIN h.ifc /\ h.ifc[s].mac = NewMac(old, s)
    <3>1. CASE MacOf(s) # None
      BY <1>3, <3>1 DEF NewMac
    <3>2. CASE MacOf(s) = None
      <4>1. got[s] # "own"
        BY <1>1, <1>3, <3>2, Constants
      <4>2. src = s
        BY <1>2, <2>7, <4>1
      <4> QED BY <3>2, <4>2, NewIfaceIs DEF NewMac, Source
    <3> QED BY <3>1, <3>2
  <2>10. ASSUME NEW n \in DOMAIN h.ifc, Carries(h, n)
         PROVE  \/ n # s /\ n \in DOMAIN e.ifc
                \/ n = src /\ e.ifc[s].data = h.ifc[n].data
    BY <2>4, <2>6, <2>7, <2>10 DEF Source
  <2> HIDE DEF old, src, f
  <2>11. Processed(d, e, s, b)
    <3>1. \A n \in DOMAIN e.ifc \ {s} :
             n \in DOMAIN d.ifc /\ e.ifc[n] = d.ifc[n] /\ d.ifc[n].bay # b
      BY <2>4 DEF Processed
    <3>2. \/ e.ifc[s].mac = None
          \/ got[s] = "own" /\ e.ifc[s].mac = hw[s]
          \/ s \in DOMAIN d.ifc /\ d.ifc[s].mac = e.ifc[s].mac
      BY <2>6, <2>9 DEF Processed
    <3>3. ASSUME NEW n \in DOMAIN d.ifc, Carries(d, n)
          PROVE  \/ n # s /\ n \in DOMAIN e.ifc
                 \/ /\ e.ifc[s].data = d.ifc[n].data
                    /\ n # s => got[s] = "own" /\ d.ifc[n].mac = hw[s]
      <4>1. CASE n # s /\ n \in DOMAIN h.ifc
        <5>1. h.ifc[n] = d.ifc[n]
          BY <4>1 DEF Processed
        <5>2. n = src => got[s] = "own" /\ h.ifc[n].mac = hw[s]
          BY <1>2, <2>7, <4>1
        <5> QED BY <2>10, <3>3, <4>1, <5>1, <5>2 DEF Carries
      <4>2. CASE /\ s \in DOMAIN h.ifc /\ h.ifc[s].data = d.ifc[n].data
                 /\ n # s => got[s] = "own" /\ d.ifc[n].mac = hw[s]
        <5>1. Carries(h, s)
          BY <3>3, <4>2 DEF Carries
        <5> QED BY <2>10, <4>2, <5>1
      <4> QED BY <3>3, <4>1, <4>2 DEF Processed
    <3>4. ASSUME NEW n \in DOMAIN d.ifc \ {s}, n \notin DOMAIN e.ifc
          PROVE  d.ifc[n].bay = b \/ (got[s] = "own" /\ d.ifc[n].mac = hw[s])
      <4>1. CASE n \in DOMAIN h.ifc
        <5>1. n = src /\ n = m
          BY <2>4, <2>7, <3>4, <4>1
        <5>2. h.ifc[n] = d.ifc[n]
          BY <3>4, <4>1 DEF Processed
        <5> QED BY <1>2, <3>4, <5>1, <5>2
      <4>2. CASE n \notin DOMAIN h.ifc
        BY <3>4, <4>2 DEF Processed
      <4> QED BY <4>1, <4>2
    <3> QED BY <2>4, <2>6, <3>1, <3>2, <3>3, <3>4 DEF Processed
  <2>12. ASSUME got[s] = "own" PROVE Matched(h, e, s, b)
    <3>1. NewMac(old, s) = hw[s]
      BY <1>1, <1>3, <2>12, Constants DEF NewMac
    <3>2. ASSUME NEW n \in DOMAIN h.ifc, Holders(h, hw[s]) = {n}, Carries(h, n)
          PROVE  e.ifc[s].data = h.ifc[n].data /\ (n = s \/ n \notin DOMAIN e.ifc)
      <4>1. Matches(h, MacOf(s)) = {n}
        BY <1>1, <1>3, <2>12, <3>2, Constants DEF Matches, Holders
      <4>2. m = n
        BY <4>1 DEF PortMatches
      <4>3. src = n
        BY <2>7, <3>2, <4>2
      <4> QED BY <2>4, <2>6, <3>2, <4>3 DEF old, Source
    <3> QED BY <2>4, <2>6, <3>1, <3>2 DEF Matched
  <2> QED BY <1>5, <2>11, <2>12
<1> QED BY <1>4, <1>5

\* An interface other than the port keeps its module.
LEMMA BayKept ==
    ASSUME NEW d, Sound(d), NEW s \in Slots, NEW b, NEW e, Processed(d, e, s, b),
           NEW n \in DOMAIN e.ifc, n # s, d.ifc[n].bay # Device
    PROVE  d.ifc[n].bay \in Bays /\ e.mods[d.ifc[n].bay] = d.mods[d.ifc[n].bay]
<1>1. n \in DOMAIN d.ifc /\ d.ifc[n].bay # b
  BY DEF Processed
<1>2. d.ifc[n].bay \in Bays
  BY <1>1 DEF Sound, DeviceOK, Iface
<1>3. d.ifc[n].bay # Current(d, s)
  <2>1. SUFFICES ASSUME d.ifc[n].bay = Current(d, s) PROVE FALSE
    OBVIOUS
  <2>2. Current(d, s) # None
    BY <1>2, <2>1, Constants
  <2>3. s \in DOMAIN d.ifc /\ d.ifc[s].bay = Current(d, s)
    BY <2>2, BayIs
  <2>4. s \in In(d, d.ifc[n].bay) /\ n \in In(d, d.ifc[n].bay)
    BY <1>1, <2>1, <2>3 DEF In
  <2> QED BY <1>2, <2>4 DEF Sound, Lone
<1> QED BY <1>1, <1>2, <1>3 DEF Processed

LEMMA ProcessedSound ==
    ASSUME NEW d, Sound(d), NEW s \in Slots, NEW b \in OwnBays(s), NEW e, Processed(d, e, s, b),
           hw[s] \in Cards
    PROVE  Sound(e)
<1>1. b \in Bays
  BY Constants DEF OwnBays
<1>2. \A c \in Bays : e.mods[c] = IF c = b THEN hw[s]
                                 ELSE IF c = Current(d, s) THEN None ELSE d.mods[c]
  BY DEF Processed
<1>3. DeviceOK(e)
  <2>1. e.bays \subseteq Bays /\ \A c \in Bays \ e.bays : e.mods[c] = None
    BY <1>1, <1>2 DEF Processed, Sound, DeviceOK
  <2>2. e.mods \in [Bays -> Cards \cup {Hand, None}]
    <3>1. \A c \in Bays : d.mods[c] \in Cards \cup {Hand, None}
      BY DEF Sound, DeviceOK
    <3>2. \A c \in Bays : e.mods[c] \in Cards \cup {Hand, None}
      BY <1>2, <3>1
    <3>3. e.mods = [c \in Bays |-> e.mods[c]]
      BY DEF Processed
    <3> QED BY <3>2, <3>3
  <2>3. DOMAIN e.ifc \subseteq Names
    BY Constants DEF Processed, Sound, DeviceOK
  <2>4. ASSUME NEW n \in DOMAIN e.ifc
        PROVE  e.ifc[n] \in Iface /\ (e.ifc[n].bay # Device => e.mods[e.ifc[n].bay] # None)
    <3>1. CASE n = s
      BY <1>1, <1>2, <2>4, <3>1, Constants DEF Processed
    <3>2. CASE n # s
      <4>1. n \in DOMAIN d.ifc /\ e.ifc[n] = d.ifc[n]
        BY <2>4, <3>2 DEF Processed
      <4> QED BY <3>2, <4>1, BayKept DEF Sound, DeviceOK
    <3> QED BY <3>1, <3>2
  <2>5. DOMAIN e = {"bays", "mods", "ifc"}
    BY DEF Processed
  <2> QED BY <2>1, <2>2, <2>3, <2>4, <2>5 DEF DeviceOK
<1>4. \A c, n : n \in In(e, c) /\ n # s => n \in In(d, c) /\ c # b
  BY DEF Processed, In
<1>5. \A c \in Bays : s \in In(e, c) => c = b
  BY Constants DEF Processed, In
<1>6. Lone(e)
  BY <1>4, <1>5 DEF Sound, Lone
<1>7. PortsPlaced(e)
  <2>1. ASSUME NEW n \in Slots \cap DOMAIN e.ifc, e.ifc[n].bay # Device
        PROVE  e.ifc[n].bay \in OwnBays(n) /\ e.mods[e.ifc[n].bay] \in Cards
    <3>1. CASE n = s
      BY <1>1, <1>2, <2>1, <3>1 DEF Processed
    <3>2. CASE n # s
      <4>1. n \in DOMAIN d.ifc /\ e.ifc[n] = d.ifc[n]
        BY <2>1, <3>2 DEF Processed
      <4> QED BY <2>1, <3>2, <4>1, BayKept DEF Sound, PortsPlaced
    <3> QED BY <3>1, <3>2
  <2> QED BY <2>1 DEF PortsPlaced
<1>8. NicOK(e)
  <2>1. ASSUME NEW t \in Slots
        PROVE  In(e, NicBay(t)) \subseteq {t} /\ e.mods[NicBay(t)] \in Cards \cup {None}
    <3>1. NicBay(t) \in Bays /\ (NicBay(t) = b => t = s)
      BY Constants DEF OwnBays
    <3>2. In(d, NicBay(t)) \subseteq {t} /\ d.mods[NicBay(t)] \in Cards \cup {None}
      BY DEF Sound, NicOK
    <3> QED BY <1>2, <1>4, <1>5, <3>1, <3>2
  <2> QED BY <2>1 DEF NicOK
<1> QED BY <1>3, <1>6, <1>7, <1>8 DEF Sound

-----------------------------------------------------------------------------
(* One round of the loop.                                                  *)

Turn(s, b) ==
    /\ TypeOK /\ Sound(dev) /\ During /\ s \in left /\ b \in OwnBays(s)
    /\ left' = left \ {s} /\ desired' = desired \cup {b}
    /\ UNCHANGED <<hw, pc, got, before, changes, faults>>
    /\ skipped' = skipped \/ skipped' = skipped \cup {s}
    /\ Processed(dev, dev', s, b)
    /\ got[s] = "own" /\ s \notin skipped' => Matched(dev, dev', s, b)

LEMMA TurnIs ==
    ASSUME TypeOK, Sound(dev), During, SyncAdapter
    PROVE  \E s \in left : \E b \in Bays : Turn(s, b)
<1>1. PICK s \in left : \E b \in {BayFor(dev, s)} : \E h \in {Housed(dev, s, b)} :
          /\ \/ ~Listed(s) /\ dev' = h /\ UNCHANGED skipped
             \/ /\ Listed(s)
                /\ \E m \in PortMatches(h, s) :
                      /\ dev' = Trimmed(Ported(h, s, b, m), s, b)
                      /\ skipped' = IF Ambiguous(h, s, m) THEN skipped \cup {s} ELSE skipped
          /\ desired' = desired \cup {b}
          /\ left' = left \ {s}
  BY DEF SyncAdapter
<1> DEFINE b == BayFor(dev, s)
           h == Housed(dev, s, b)
<1>2. /\ \/ ~Listed(s) /\ dev' = h /\ UNCHANGED skipped
         \/ /\ Listed(s)
            /\ \E m \in PortMatches(h, s) :
                  /\ dev' = Trimmed(Ported(h, s, b, m), s, b)
                  /\ skipped' = IF Ambiguous(h, s, m) THEN skipped \cup {s} ELSE skipped
      /\ desired' = desired \cup {b} /\ left' = left \ {s}
  BY <1>1
<1>3. UNCHANGED <<hw, pc, got, before, changes, faults>>
  BY DEF SyncAdapter
<1>4. s \in Slots /\ s \in Rep /\ hw[s] # None /\ hw \in Layouts /\ s \notin skipped
  BY DEF During, Lists, Rep, TypeOK, Finished
<1>5. b \in OwnBays(s) /\ b \in Bays
  BY <1>4, BayIs, Constants DEF OwnBays
<1>6. /\ Processed(dev, h, s, b)
      /\ \A n \in DOMAIN h.ifc : /\ n \in DOMAIN dev.ifc /\ h.ifc[n] \in Iface
                                 /\ h.ifc[n].mac = dev.ifc[n].mac
                                 /\ h.ifc[n].data = dev.ifc[n].data
      /\ \A n \in DOMAIN dev.ifc : Carries(dev, n) => n \in DOMAIN h.ifc
  BY <1>4, HousedProcessed
<1> HIDE DEF h
<1>7. CASE ~Listed(s) /\ dev' = h /\ UNCHANGED skipped
  <2>1. got[s] # "own"
    BY <1>7 DEF Listed
  <2>2. Turn(s, b)
    BY <1>2, <1>3, <1>5, <1>6, <1>7, <2>1 DEF Turn
  <2> QED BY <1>5, <2>2
<1>8. ASSUME Listed(s), NEW m \in PortMatches(h, s), dev' = Trimmed(Ported(h, s, b, m), s, b),
             skipped' = IF Ambiguous(h, s, m) THEN skipped \cup {s} ELSE skipped
      PROVE  Turn(s, b)
  <2> DEFINE e == dev'
  <2>1. /\ Processed(dev, e, s, b)
        /\ got[s] = "own" /\ ~Ambiguous(h, s, m) => Matched(h, e, s, b)
    BY <1>4, <1>5, <1>6, <1>8, PortIs
  <2>2. ASSUME got[s] = "own", s \notin skipped' PROVE Matched(dev, dev', s, b)
    <3>1. Matched(h, e, s, b)
      BY <1>8, <2>1, <2>2
    <3>2. ASSUME NEW n \in DOMAIN dev.ifc, Holders(dev, hw[s]) = {n}, Carries(dev, n)
          PROVE  dev'.ifc[s].data = dev.ifc[n].data /\ (n = s \/ n \notin DOMAIN dev'.ifc)
      <4>1. n \in DOMAIN h.ifc /\ h.ifc[n].mac = dev.ifc[n].mac /\ h.ifc[n].data = dev.ifc[n].data
        BY <1>6, <3>2
      <4>2. Holders(h, hw[s]) = {n}
        BY <1>6, <3>2, <4>1 DEF Holders
      <4>3. Carries(h, n)
        BY <3>2, <4>1 DEF Carries
      <4> QED BY <3>1, <4>1, <4>2, <4>3 DEF Matched
    <3> QED BY <3>1, <3>2 DEF Matched
  <2> QED BY <1>2, <1>3, <1>5, <1>8, <2>1, <2>2 DEF Turn
<1> QED BY <1>2, <1>5, <1>7, <1>8

LEMMA TurnFacts ==
    ASSUME NEW s, NEW b, Turn(s, b)
    PROVE  /\ s \in Rep /\ s \in Slots /\ s \notin Finished /\ s \notin skipped
           /\ Rep' = Rep /\ Finished' = Finished \cup {s} /\ left' \subseteq left
           /\ hw[s] \in Cards /\ \A t \in Slots \ {s} : hw[t] # hw[s]
           /\ b \in Bays /\ Sound(dev') /\ skipped' \subseteq skipped \cup {s}
           /\ \A c \in Bays : dev'.mods[c] = IF c = b THEN hw[s]
                                            ELSE IF c = Current(dev, s) THEN None ELSE dev.mods[c]
<1>1. s \in Rep /\ s \in Slots /\ s \notin Finished /\ s \notin skipped
  BY DEF Turn, During, Lists, Rep, Finished
<1>2. Rep' = Rep /\ Finished' = Finished \cup {s} /\ left' \subseteq left
  BY <1>1 DEF Turn, Rep, Finished
<1>3. hw[s] \in Cards /\ \A t \in Slots \ {s} : hw[t] # hw[s]
  <2>1. hw[s] # None /\ hw \in Layouts
    BY <1>1 DEF Turn, During, Lists, Rep, TypeOK
  <2> QED BY <1>1, <2>1 DEF Layouts
<1>4. b \in Bays
  BY <1>1, Constants DEF Turn, OwnBays
<1>5. Sound(dev')
  BY <1>1, <1>3, ProcessedSound DEF Turn
<1>6. \A c \in Bays : dev'.mods[c] = IF c = b THEN hw[s]
                                   ELSE IF c = Current(dev, s) THEN None ELSE dev.mods[c]
  BY DEF Turn, Processed
<1> QED BY <1>1, <1>2, <1>3, <1>4, <1>5, <1>6 DEF Turn

LEMMA TurnType ==
    ASSUME NEW s, NEW b, Turn(s, b)
    PROVE  TypeOK' /\ Lists' /\ DesiredIs' /\ FinishedIn' /\ Elsewhere'
<1>1. TypeOK'
  <2>1. desired' \subseteq dev'.bays /\ DeviceOK(dev')
    BY TurnFacts DEF Turn, Processed, TypeOK, Sound
  <2>2. left' \subseteq Slots /\ skipped' \subseteq Slots
    BY TurnFacts DEF Turn, TypeOK
  <2>3. /\ hw' \in Layouts /\ pc' \in {"idle", "adapters", "done"}
        /\ got' \in [Slots -> Reads \cup {"gone"}]
        /\ changes' \in 0..MaxChanges /\ faults' \in 0..MaxFaults /\ DeviceOK(before')
    BY DEF Turn, TypeOK
  <2> QED BY <2>1, <2>2, <2>3 DEF TypeOK
<1>2. Lists'
  <2>1. \A t \in Slots : (got'[t] = "gone") = (hw'[t] = None)
    BY DEF Turn, During, Lists
  <2>2. left' \subseteq Rep' /\ skipped' \subseteq Finished'
    BY TurnFacts DEF Turn, During, Lists
  <2> QED BY <2>1, <2>2 DEF Lists
<1>3. DesiredIs'
  <2>1. ASSUME NEW c \in desired' \cap NicBays
        PROVE  \E t \in Finished' : c = NicBay(t) /\ dev'.mods[c] = hw[t]
    <3>1. c \in Bays
      BY Constants
    <3>2. CASE c = b
      <4>1. c = NicBay(s)
        BY <3>2, Constants DEF Turn, OwnBays
      <4> QED BY <3>1, <3>2, <4>1, TurnFacts
    <3>3. CASE c # b
      <4>1. c \in desired \cap NicBays
        BY <2>1, <3>3 DEF Turn
      <4>2. PICK t \in Finished : c = NicBay(t) /\ dev.mods[c] = hw[t]
        BY <4>1 DEF Turn, During, DesiredIs
      <4>3. t # s /\ t \in Slots /\ s \in Slots
        BY TurnFacts DEF Finished, Rep
      <4>4. c \notin OwnBays(s)
        BY <4>2, <4>3, Constants DEF OwnBays
      <4>5. c # Current(dev, s)
        <5>1. Sound(dev)
          BY DEF Turn
        <5>2. Current(dev, s) # None => Current(dev, s) \in OwnBays(s)
          BY <4>3, <5>1, BayIs
        <5> QED BY <3>1, <4>4, <5>2, Constants
      <4> QED BY <3>1, <3>3, <4>2, <4>5, TurnFacts
    <3> QED BY <3>2, <3>3
  <2>2. hw' = hw
    BY DEF Turn
  <2> QED BY <2>1, <2>2 DEF DesiredIs
<1>4. FinishedIn'
  <2>1. ASSUME NEW t \in Finished' \cap DOMAIN dev'.ifc
        PROVE  dev'.ifc[t].bay \in desired' \cup {Device}
    <3>1. CASE t = s
      BY <3>1, <2>1 DEF Turn, Processed
    <3>2. CASE t # s
      <4>1. t \in Finished /\ t \in DOMAIN dev.ifc /\ dev'.ifc[t] = dev.ifc[t]
        BY <2>1, <3>2, TurnFacts DEF Turn, Processed
      <4> QED BY <4>1 DEF Turn, During, FinishedIn
    <3> QED BY <3>1, <3>2
  <2> QED BY <2>1 DEF FinishedIn
<1>5. Elsewhere'
  <2>1. ASSUME NEW n \in DOMAIN dev'.ifc, n \notin Finished'
        PROVE  n \in DOMAIN before.ifc /\ dev'.ifc[n] = before.ifc[n]
    <3>1. n # s /\ n \notin Finished
      BY <2>1, TurnFacts
    <3>2. n \in DOMAIN dev.ifc /\ dev'.ifc[n] = dev.ifc[n]
      BY <2>1, <3>1 DEF Turn, Processed
    <3> QED BY <3>1, <3>2 DEF Turn, During, Elsewhere
  <2>2. before' = before
    BY DEF Turn
  <2> QED BY <2>1, <2>2 DEF Elsewhere
<1> QED BY <1>1, <1>2, <1>3, <1>4, <1>5

LEMMA TurnTokens ==
    ASSUME NEW s, NEW b, Turn(s, b)
    PROVE  TokensKept'
<1>1. ASSUME NEW n \in DOMAIN before.ifc, Carries(before, n)
      PROVE  \/ /\ n \in DOMAIN dev'.ifc /\ dev'.ifc[n] = before.ifc[n]
                /\ before.ifc[n].bay # Device =>
                      dev'.mods[before.ifc[n].bay] = before.mods[before.ifc[n].bay]
             \/ \E t \in Finished' \cap DOMAIN dev'.ifc : dev'.ifc[t].data = before.ifc[n].data
  <2>1. CASE Untouched(n)
    <3>1. n \in DOMAIN dev.ifc /\ dev.ifc[n] = before.ifc[n] /\ Carries(dev, n)
      BY <1>1, <2>1 DEF Untouched, Carries
    <3>2. CASE n # s /\ n \in DOMAIN dev'.ifc
      <4>1. dev'.ifc[n] = dev.ifc[n]
        BY <3>2 DEF Turn, Processed
      <4>2. dev.ifc[n].bay # Device => dev'.mods[dev.ifc[n].bay] = dev.mods[dev.ifc[n].bay]
        <5>1. Sound(dev) /\ Processed(dev, dev', s, b) /\ s \in Slots
          BY TurnFacts DEF Turn
        <5> QED BY <3>2, <5>1, BayKept
      <4> QED BY <2>1, <3>1, <3>2, <4>1, <4>2 DEF Untouched
    <3>3. CASE s \in DOMAIN dev'.ifc /\ dev'.ifc[s].data = dev.ifc[n].data
      BY <3>1, <3>3, TurnFacts
    <3> QED BY <3>1, <3>2, <3>3 DEF Turn, Processed
  <2>2. CASE \E t \in Finished \cap DOMAIN dev.ifc : dev.ifc[t].data = before.ifc[n].data
    <3>1. PICK t \in Finished \cap DOMAIN dev.ifc : dev.ifc[t].data = before.ifc[n].data
      BY <2>2
    <3>2. Carries(dev, t)
      BY <1>1, <3>1 DEF Carries
    <3>3. CASE t # s /\ t \in DOMAIN dev'.ifc
      <4>1. dev'.ifc[t] = dev.ifc[t]
        BY <3>3 DEF Turn, Processed
      <4> QED BY <3>1, <3>3, <4>1, TurnFacts
    <3>4. CASE s \in DOMAIN dev'.ifc /\ dev'.ifc[s].data = dev.ifc[t].data
      BY <3>1, <3>4, TurnFacts
    <3> QED BY <3>1, <3>2, <3>3, <3>4 DEF Turn, Processed
  <2> QED BY <1>1, <2>1, <2>2 DEF Turn, During, TokensKept
<1>2. before' = before
  BY DEF Turn
<1> QED BY <1>1, <1>2 DEF TokensKept, Untouched, Carries

LEMMA TurnMacs ==
    ASSUME NEW s, NEW b, Turn(s, b)
    PROVE  MacsOld'
<1>1. ASSUME NEW l \in DOMAIN dev'.ifc, dev'.ifc[l].mac # None
      PROVE  \/ \E t \in Finished' : got[t] = "own" /\ dev'.ifc[l].mac = hw[t]
             \/ l \in DOMAIN before.ifc /\ before.ifc[l].mac = dev'.ifc[l].mac
  <2>1. CASE l \in DOMAIN dev.ifc /\ dev.ifc[l].mac = dev'.ifc[l].mac
    BY <1>1, <2>1, TurnFacts DEF Turn, During, MacsOld
  <2>2. CASE l = s /\ got[s] = "own" /\ dev'.ifc[s].mac = hw[s]
    BY <2>2, TurnFacts
  <2> QED BY <1>1, <2>1, <2>2 DEF Turn, Processed
<1>2. before' = before /\ got' = got /\ hw' = hw
  BY DEF Turn
<1> QED BY <1>1, <1>2 DEF MacsOld

\* A port that is reconciled and whose card is its own keeps its MAC and its
\* place: no other card has that MAC.
LEMMA TurnHousing ==
    ASSUME NEW s, NEW b, Turn(s, b)
    PROVE  Housing'
<1>1. ASSUME NEW t \in Finished' \ skipped', got[t] = "own"
      PROVE  /\ t \in DOMAIN dev'.ifc /\ dev'.ifc[t].mac = hw[t]
             /\ dev'.ifc[t].bay \in dev'.bays /\ dev'.mods[dev'.ifc[t].bay] = hw[t]
             /\ dev'.ifc[t].bay \in OwnBays(t)
  <2>1. CASE t = s
    <3>1. t \in DOMAIN dev'.ifc /\ dev'.ifc[t].mac = hw[t] /\ dev'.ifc[t].bay = b
      BY <1>1, <2>1 DEF Turn, Matched
    <3>2. b \in dev'.bays /\ b \in OwnBays(s)
      BY DEF Turn, Processed
    <3> QED BY <2>1, <3>1, <3>2, TurnFacts
  <2>2. CASE t # s
    <3>1. t \in Finished \ skipped
      BY <1>1, <2>2, TurnFacts DEF Turn
    <3>2. /\ t \in DOMAIN dev.ifc /\ dev.ifc[t].mac = hw[t]
          /\ dev.ifc[t].bay \in dev.bays /\ dev.mods[dev.ifc[t].bay] = hw[t]
          /\ dev.ifc[t].bay \in OwnBays(t)
      BY <1>1, <3>1 DEF Turn, During, Housing, Houses, OwnBays
    <3>3. t \in Slots /\ t \in DOMAIN dev.ifc \ {s} /\ hw[t] # hw[s]
      BY <2>2, <3>1, <3>2, TurnFacts DEF Finished, Rep
    <3>4. dev.ifc[t].bay # b
      BY <3>2, <3>3, TurnFacts, Constants DEF Turn, OwnBays
    <3>5. t \in DOMAIN dev'.ifc /\ dev'.ifc[t] = dev.ifc[t]
      BY <3>2, <3>3, <3>4 DEF Turn, Processed
    <3>6. dev.ifc[t].bay # Device
      BY <3>2, <3>3, Constants DEF OwnBays
    <3>7. dev'.mods[dev.ifc[t].bay] = dev.mods[dev.ifc[t].bay]
      <4>1. Sound(dev) /\ Processed(dev, dev', s, b) /\ s \in Slots
        BY TurnFacts DEF Turn
      <4> QED BY <2>2, <3>5, <3>6, <4>1, BayKept
    <3>8. dev'.bays = dev.bays \cup {b}
      BY DEF Turn, Processed
    <3> QED BY <3>2, <3>5, <3>7, <3>8
  <2> QED BY <2>1, <2>2
<1>2. got' = got /\ hw' = hw
  BY DEF Turn
<1>3. ASSUME NEW t \in Finished' \ skipped', got'[t] = "own"
      PROVE  t \in DOMAIN dev'.ifc /\ dev'.ifc[t].mac = hw'[t] /\ Houses(dev, t, dev.ifc[t].bay)'
  BY <1>1, <1>2, <1>3 DEF Houses, OwnBays
<1> QED BY <1>3 DEF Housing

\* An untouched interface that alone had the MAC of a card still has it alone.
LEMMA StillAlone ==
    ASSUME NEW s, NEW b, Turn(s, b), got[s] = "own", NEW n \in DOMAIN before.ifc,
           Holders(before, hw[s]) = {n}, n \in DOMAIN dev.ifc, dev.ifc[n] = before.ifc[n]
    PROVE  Holders(dev, hw[s]) = {n}
<1>1. hw[s] # None /\ before.ifc[n].mac = hw[s]
  BY DEF Holders
<1>2. ASSUME NEW l \in DOMAIN dev.ifc, dev.ifc[l].mac = hw[s] PROVE l = n
  <2>1. \A t \in Finished : hw[t] # hw[s]
    BY TurnFacts DEF Finished, Rep
  <2>2. l \in DOMAIN before.ifc /\ before.ifc[l].mac = hw[s]
    BY <1>1, <1>2, <2>1 DEF Turn, During, MacsOld
  <2> QED BY <1>1, <2>2 DEF Holders
<1> QED BY <1>1, <1>2 DEF Holders

LEMMA TurnHolder ==
    ASSUME NEW s, NEW b, Turn(s, b)
    PROVE  HolderGone'
<1>1. before' = before /\ got' = got /\ hw' = hw
  BY DEF Turn
<1>2. ASSUME NEW t \in Finished' \ skipped', NEW n \in DOMAIN before.ifc, OneHolder(t, n)
      PROVE  n \notin DOMAIN dev'.ifc \/ n \in Finished'
  <2>1. CASE t # s
    <3>1. t \in Finished \ skipped
      BY <1>2, <2>1, TurnFacts DEF Turn
    <3>2. n \notin DOMAIN dev.ifc \/ n \in Finished
      BY <1>2, <3>1 DEF Turn, During, HolderGone
    <3> QED BY <3>2, TurnFacts DEF Turn, Processed
  <2>2. CASE t = s
    <3>1. SUFFICES ASSUME n \in DOMAIN dev'.ifc, n \notin Finished' PROVE FALSE
      OBVIOUS
    <3>2. n # s /\ n \in DOMAIN dev.ifc /\ n \notin Finished /\ dev'.ifc[n] = dev.ifc[n]
      BY <3>1, TurnFacts DEF Turn, Processed
    <3>3. dev.ifc[n] = before.ifc[n]
      BY <3>2 DEF Turn, During, Elsewhere
    <3>4. got[s] = "own" /\ Holders(before, hw[s]) = {n} /\ Carries(before, n)
      BY <1>2, <2>2 DEF OneHolder
    <3>5. Holders(dev, hw[s]) = {n} /\ Carries(dev, n)
      BY <3>2, <3>3, <3>4, StillAlone DEF Carries
    <3>6. Matched(dev, dev', s, b)
      BY <1>2, <2>2, <3>4 DEF Turn
    <3> QED BY <3>1, <3>2, <3>5, <3>6 DEF Matched
  <2> QED BY <2>1, <2>2
<1>3. ASSUME NEW t \in Finished' \ skipped', NEW n \in DOMAIN before'.ifc, OneHolder(t, n)'
      PROVE  n \notin DOMAIN dev'.ifc \/ n \in Finished'
  <2>1. OneHolder(t, n)
    BY <1>1, <1>3 DEF OneHolder, Holders, Carries
  <2> QED BY <1>1, <1>2, <2>1
<1> QED BY <1>3 DEF HolderGone

LEMMA TurnFollowed ==
    ASSUME NEW s, NEW b, Turn(s, b)
    PROVE  Followed'
<1>1. before' = before /\ got' = got /\ hw' = hw /\ left' = left \ {s} /\ Rep' = Rep
  BY TurnFacts DEF Turn
<1>2. ASSUME NEW t \in Rep \ skipped', NEW n \in DOMAIN before.ifc, OneHolder(t, n),
             n \in Slots \ {t} => n \notin Rep
      PROVE  /\ t \in left' => n \in DOMAIN dev'.ifc /\ dev'.ifc[n] = before.ifc[n]
             /\ t \notin left' => t \in DOMAIN dev'.ifc /\ dev'.ifc[t].data = before.ifc[n].data
  <2>1. /\ got[t] = "own" /\ Holders(before, hw[t]) = {n} /\ Carries(before, n)
        /\ before.ifc[n].mac = hw[t] /\ t \notin skipped
    BY <1>2 DEF OneHolder, Holders, Turn
  <2>2. /\ t \in left => n \in DOMAIN dev.ifc /\ dev.ifc[n] = before.ifc[n]
        /\ t \notin left => t \in DOMAIN dev.ifc /\ dev.ifc[t].data = before.ifc[n].data
    BY <1>2, <2>1 DEF Turn, During, Followed
  <2>3. CASE t = s
    <3>1. n \in DOMAIN dev.ifc /\ dev.ifc[n] = before.ifc[n]
      BY <2>2, <2>3 DEF Turn
    <3>2. Holders(dev, hw[s]) = {n} /\ Carries(dev, n)
      BY <2>1, <2>3, <3>1, StillAlone DEF Carries
    <3>3. Matched(dev, dev', s, b)
      BY <1>2, <2>1, <2>3 DEF Turn
    <3> QED BY <1>1, <2>3, <3>1, <3>2, <3>3 DEF Matched
  <2>4. CASE t # s /\ t \in left
    <3>1. n # s
      BY <1>2, <2>4, TurnFacts
    <3>2. n \in DOMAIN dev.ifc /\ dev.ifc[n] = before.ifc[n] /\ Carries(dev, n)
      BY <2>1, <2>2, <2>4 DEF Carries
    <3>3. dev.ifc[n].mac # hw[s]
      BY <1>2, <2>1, <2>4, <3>2, TurnFacts DEF Rep
    <3>4. n \in DOMAIN dev'.ifc
      BY <3>1, <3>2, <3>3 DEF Turn, Processed
    <3>5. dev'.ifc[n] = dev.ifc[n]
      BY <3>1, <3>4 DEF Turn, Processed
    <3> QED BY <1>1, <2>4, <3>2, <3>4, <3>5
  <2>5. CASE t # s /\ t \notin left
    <3>1. t \in DOMAIN dev.ifc /\ dev.ifc[t].data = before.ifc[n].data /\ Carries(dev, t)
      BY <2>1, <2>2, <2>5 DEF Carries
    <3>2. dev.ifc[t].mac = hw[t] /\ hw[t] # hw[s]
      <4>1. t \in Finished \ skipped
        BY <1>2, <2>1, <2>5 DEF Finished
      <4> QED BY <1>2, <2>1, <2>5, <4>1, TurnFacts DEF Turn, During, Housing, Rep
    <3>3. t \in DOMAIN dev'.ifc
      BY <2>5, <3>1, <3>2 DEF Turn, Processed
    <3>4. dev'.ifc[t] = dev.ifc[t]
      BY <2>5, <3>3 DEF Turn, Processed
    <3> QED BY <1>1, <2>5, <3>1, <3>3, <3>4
  <2> QED BY <2>3, <2>4, <2>5
<1>3. ASSUME NEW t \in Rep' \ skipped', NEW n \in DOMAIN before'.ifc, OneHolder(t, n)',
             n \in Slots \ {t} => n \notin Rep'
      PROVE  /\ t \in left' => n \in DOMAIN dev'.ifc /\ dev'.ifc[n] = before'.ifc[n]
             /\ t \notin left' => t \in DOMAIN dev'.ifc /\ dev'.ifc[t].data = before'.ifc[n].data
  <2>1. OneHolder(t, n)
    BY <1>1, <1>3 DEF OneHolder, Holders, Carries
  <2> QED BY <1>1, <1>2, <1>3, <2>1
<1> QED BY <1>3 DEF Followed
LEMMA AdapterStep == TypeOK /\ Sound(dev) /\ During /\ SyncAdapter =>
                        TypeOK' /\ Sound(dev)' /\ During' /\ pc' = pc /\ before' = before
<1> SUFFICES ASSUME TypeOK, Sound(dev), During, SyncAdapter
             PROVE  TypeOK' /\ Sound(dev)' /\ During' /\ pc' = pc /\ before' = before
  OBVIOUS
<1>1. PICK s \in left, b \in Bays : Turn(s, b)
  BY TurnIs
<1>2. TypeOK' /\ Lists' /\ DesiredIs' /\ FinishedIn' /\ Elsewhere'
  BY <1>1, TurnType
<1>3. TokensKept' /\ MacsOld' /\ Housing' /\ HolderGone' /\ Followed'
  BY <1>1, TurnTokens, TurnMacs, TurnHousing, TurnHolder, TurnFollowed
<1>4. Sound(dev')
  BY <1>1, TurnFacts
<1>5. Sound(dev)'
  BY <1>4 DEF Sound, DeviceOK, Lone, PortsPlaced, NicOK, In
<1> QED BY <1>1, <1>2, <1>3, <1>5 DEF During, Turn

-----------------------------------------------------------------------------
(* The other actions.                                                      *)

\* A sync that begins has changed nothing but the bays of the type.
LEMMA BeginStep == TypeOK /\ Sound(dev) /\ BeginSync =>
                      /\ TypeOK' /\ Sound(dev') /\ before' = dev' /\ During' /\ pc' = "adapters"
<1> SUFFICES ASSUME TypeOK, Sound(dev), BeginSync
             PROVE  TypeOK' /\ Sound(dev') /\ before' = dev' /\ During' /\ pc' = "adapters"
  OBVIOUS
<1>1. PICK made \in SUBSET (TypeBays \ dev.bays) : dev' = [dev EXCEPT !.bays = @ \cup made]
  BY DEF BeginSync
<1>2. /\ DOMAIN dev' = {"bays", "mods", "ifc"} /\ dev'.bays = dev.bays \cup made
      /\ dev'.mods = dev.mods /\ dev'.ifc = dev.ifc
  BY <1>1 DEF Sound, DeviceOK
<1>3. Sound(dev')
  <2>1. DeviceOK(dev')
    BY <1>2, Constants DEF Sound, DeviceOK
  <2>2. Lone(dev') /\ PortsPlaced(dev') /\ NicOK(dev')
    BY <1>2 DEF Sound, Lone, PortsPlaced, NicOK, In
  <2> QED BY <2>1, <2>2 DEF Sound
<1>4. /\ before' = dev' /\ desired' = {} /\ skipped' = {} /\ pc' = "adapters" /\ hw' = hw
      /\ changes' = changes /\ got' \in [Slots -> Reads \cup {"gone"}]
      /\ \A s \in Slots : (got'[s] = "gone") = (hw[s] = None)
  BY DEF BeginSync
<1>5. left' = Rep' /\ Finished' = {}
  BY DEF BeginSync, Rep, Finished
<1>6. faults' \in 0..MaxFaults
  BY BaysAssumption DEF BeginSync, TypeOK
<1>7. TypeOK'
  <2>1. DeviceOK(before')
    BY <1>3, <1>4 DEF Sound
  <2>2. left' \subseteq Slots
    BY <1>5 DEF Rep
  <2> QED BY <1>3, <1>4, <1>6, <2>1, <2>2 DEF TypeOK, Sound
<1>8. Lists' /\ DesiredIs' /\ FinishedIn' /\ HolderGone' /\ Housing'
  BY <1>4, <1>5 DEF Lists, DesiredIs, FinishedIn, HolderGone, Housing
<1>9. Elsewhere' /\ TokensKept' /\ MacsOld'
  BY <1>4 DEF Elsewhere, TokensKept, MacsOld, Untouched
<1>10. Followed'
  BY <1>4, <1>5 DEF Followed
<1> QED BY <1>3, <1>4, <1>7, <1>8, <1>9, <1>10 DEF During

\* Users enter nothing in the plugin's own bays and no port of a card.
LEMMA EnterSound ==
    ASSUME TypeOK, Sound(dev), NEW n \in Foreign, NEW b \in TypeBays \cup {Device}, Enter(n, b)
    PROVE  Sound(dev')
<1>1. PICK mac \in Cards \cup {None} :
          dev' = [dev EXCEPT
              !.mods = [c \in Bays |-> IF c = b THEN Hand ELSE dev.mods[c]],
              !.ifc = [m \in DOMAIN dev.ifc \cup {n} |->
                          IF m = n THEN [bay |-> b, data |-> None, mac |-> mac]
                                   ELSE dev.ifc[m]]]
  BY DEF Enter
<1>2. /\ DOMAIN dev' = {"bays", "mods", "ifc"} /\ dev'.bays = dev.bays
      /\ dev'.mods = [c \in Bays |-> IF c = b THEN Hand ELSE dev.mods[c]]
      /\ dev'.ifc = [m \in DOMAIN dev.ifc \cup {n} |->
                        IF m = n THEN [bay |-> b, data |-> None, mac |-> mac] ELSE dev.ifc[m]]
  BY <1>1 DEF Sound, DeviceOK
<1>3. n \notin Slots /\ n \in Names /\ b \in Bays \cup {Device} /\ b \notin NicBays
  BY Constants DEF Names, Bays, NicBays
<1>4. b = Device \/ (b \in dev.bays /\ dev.mods[b] = None)
  BY DEF Enter
<1>5. b # Device => In(dev, b) = {}
  BY <1>4 DEF In, Sound, DeviceOK
<1>6. \A m \in DOMAIN dev.ifc : m # n /\ dev'.ifc[m] = dev.ifc[m]
  BY <1>2 DEF Enter
<1>7. n \in DOMAIN dev'.ifc /\ dev'.ifc[n] \in Iface /\ dev'.ifc[n].bay = b
  BY <1>2, <1>3 DEF Iface
<1>8. DOMAIN dev'.ifc = DOMAIN dev.ifc \cup {n}
  BY <1>2
<1>9. \A m \in DOMAIN dev.ifc : dev.ifc[m].bay # Device => dev.ifc[m].bay # b
  BY <1>5 DEF In
<1>10. \A c \in Bays : dev'.mods[c] = IF c = b THEN Hand ELSE dev.mods[c]
  BY <1>2
<1>11. DeviceOK(dev')
  <2>1. dev'.mods \in [Bays -> Cards \cup {Hand, None}]
    BY <1>2 DEF Sound, DeviceOK
  <2>2. dev'.bays \subseteq Bays /\ \A c \in Bays \ dev'.bays : dev'.mods[c] = None
    BY <1>2, <1>4, <1>10, Constants DEF Sound, DeviceOK
  <2>3. ASSUME NEW m \in DOMAIN dev'.ifc
        PROVE  m \in Names /\ dev'.ifc[m] \in Iface
               /\ (dev'.ifc[m].bay # Device => dev'.mods[dev'.ifc[m].bay] # None)
    <3>1. CASE m = n
      BY <1>3, <1>7, <1>10, <3>1, Constants
    <3>2. CASE m # n
      <4>1. m \in DOMAIN dev.ifc /\ dev'.ifc[m] = dev.ifc[m]
        BY <1>6, <1>8, <2>3, <3>2
      <4>2. dev.ifc[m] \in Iface /\ m \in Names
            /\ (dev.ifc[m].bay # Device => dev.mods[dev.ifc[m].bay] # None)
        BY <4>1 DEF Sound, DeviceOK
      <4>3. dev.ifc[m].bay \in Bays \cup {Device}
        BY <4>2 DEF Iface
      <4> QED BY <1>9, <1>10, <4>1, <4>2, <4>3
    <3> QED BY <3>1, <3>2
  <2> QED BY <1>2, <2>1, <2>2, <2>3 DEF DeviceOK
<1>12. \A c \in Bays : In(dev', c) = IF c = b THEN {n} ELSE In(dev, c)
  <2>1. ASSUME NEW c \in Bays PROVE In(dev', c) = IF c = b THEN {n} ELSE In(dev, c)
    <3>1. \A m : m \in In(dev', c) <=> (m = n /\ c = b) \/ m \in In(dev, c)
      BY <1>6, <1>7, <1>8 DEF In
    <3>2. c = b => In(dev, c) = {}
      BY <1>5, Constants
    <3> QED BY <3>1, <3>2
  <2> QED BY <2>1
<1>13. Lone(dev')
  BY <1>12 DEF Sound, Lone
<1>14. PortsPlaced(dev')
  <2>1. ASSUME NEW t \in Slots \cap DOMAIN dev'.ifc, dev'.ifc[t].bay # Device
        PROVE  dev'.ifc[t].bay \in OwnBays(t) /\ dev'.mods[dev'.ifc[t].bay] \in Cards
    <3>1. t \in DOMAIN dev.ifc /\ dev'.ifc[t] = dev.ifc[t]
      BY <1>3, <1>6, <1>8, <2>1
    <3>2. dev.ifc[t].bay \in OwnBays(t) /\ dev.mods[dev.ifc[t].bay] \in Cards
      BY <2>1, <3>1 DEF Sound, PortsPlaced
    <3>3. dev.ifc[t].bay # b /\ dev.ifc[t].bay \in Bays
      BY <1>9, <2>1, <3>1, <3>2, Constants DEF OwnBays
    <3> QED BY <1>10, <3>1, <3>2, <3>3
  <2> QED BY <2>1 DEF PortsPlaced
<1>15. NicOK(dev')
  BY <1>3, <1>10, <1>12, Constants DEF Sound, NicOK
<1> QED BY <1>11, <1>13, <1>14, <1>15 DEF Sound

LEMMA ConnectSound ==
    ASSUME TypeOK, Sound(dev), NEW n \in Names, Connect(n)
    PROVE  Sound(dev')
<1> DEFINE t == IF dev.ifc[n].mac = None THEN n ELSE dev.ifc[n].mac
           new == [dev.ifc[n] EXCEPT !.data = t]
<1>1. n \in DOMAIN dev.ifc /\ dev.ifc[n] \in Iface
  BY DEF Connect, Sound, DeviceOK
<1>2. t \in Tokens
  BY <1>1 DEF Iface, Tokens
<1>3. dev' = [dev EXCEPT !.ifc = [dev.ifc EXCEPT ![n] = new]]
  BY DEF Connect
<1>4. new \in Iface /\ new.bay = dev.ifc[n].bay
  <2> HIDE DEF t
  <2> QED BY <1>1, <1>2 DEF Iface
<1> HIDE DEF new, t
<1>5. /\ DOMAIN dev' = {"bays", "mods", "ifc"} /\ dev'.bays = dev.bays
      /\ dev'.mods = dev.mods /\ DOMAIN dev'.ifc = DOMAIN dev.ifc
      /\ \A m \in DOMAIN dev.ifc : dev'.ifc[m] = IF m = n THEN new ELSE dev.ifc[m]
  BY <1>1, <1>3 DEF Sound, DeviceOK
<1>6. \A m \in DOMAIN dev.ifc : dev'.ifc[m] \in Iface /\ dev'.ifc[m].bay = dev.ifc[m].bay
  BY <1>4, <1>5 DEF Sound, DeviceOK
<1>7. DeviceOK(dev')
  BY <1>5, <1>6 DEF Sound, DeviceOK
<1>8. \A c : In(dev', c) = In(dev, c)
  BY <1>5, <1>6 DEF In
<1>9. Lone(dev') /\ NicOK(dev')
  BY <1>5, <1>8 DEF Sound, Lone, NicOK
<1>10. PortsPlaced(dev')
  BY <1>5, <1>6 DEF Sound, PortsPlaced
<1> QED BY <1>7, <1>9, <1>10 DEF Sound

\* What humans do between two syncs.
LEMMA HumanStep ==
    ASSUME Inv, \/ Rearrange
                \/ \E n \in Foreign, b \in TypeBays \cup {Device} : Enter(n, b)
                \/ \E n \in Names : Connect(n)
    PROVE  TypeOK' /\ Sound(dev') /\ before' = before /\ pc' = "idle"
<1>1. /\ UNCHANGED <<got, left, desired, skipped, before, faults>> /\ pc' = "idle"
      /\ changes' \in 0..MaxChanges
  <2>1. ByHuman
    BY DEF Rearrange, Enter, Connect
  <2> QED BY <2>1, BaysAssumption DEF ByHuman, Inv, TypeOK
<1>2. hw' \in Layouts
  BY DEF Rearrange, Enter, Connect, Inv, TypeOK
<1>3. Sound(dev')
  <2>1. CASE Rearrange
    BY <2>1 DEF Rearrange, Inv
  <2>2. CASE \E n \in Foreign, b \in TypeBays \cup {Device} : Enter(n, b)
    BY <2>2, EnterSound DEF Inv
  <2>3. CASE \E n \in Names : Connect(n)
    BY <2>3, ConnectSound DEF Inv
  <2> QED BY <2>1, <2>2, <2>3
<1>4. dev'.bays = dev.bays
  <2>1. CASE Rearrange
    BY <2>1 DEF Rearrange
  <2>2. CASE \E n \in Foreign, b \in TypeBays \cup {Device} : Enter(n, b)
    BY <2>2 DEF Enter, Inv, Sound, DeviceOK
  <2>3. CASE \E n \in Names : Connect(n)
    BY <2>3 DEF Connect, Inv, Sound, DeviceOK
  <2> QED BY <2>1, <2>2, <2>3
<1> QED BY <1>1, <1>2, <1>3, <1>4 DEF Inv, TypeOK, Sound
-----------------------------------------------------------------------------
(* The clean-up.                                                           *)

\* What it leaves: no module or interface in a bay that is gone, all else.
LEMMA FinishIs ==
    ASSUME TypeOK, Sound(dev), Finish
    PROVE  /\ DOMAIN dev' = {"bays", "mods", "ifc"} /\ dev'.bays = dev.bays \ (Gone \cap NicBays)
           /\ dev'.mods = [c \in Bays |-> IF c \in Gone THEN None ELSE dev.mods[c]]
           /\ DOMAIN dev'.ifc = {n \in DOMAIN dev.ifc : dev.ifc[n].bay \notin Gone}
           /\ \A n \in DOMAIN dev'.ifc : dev'.ifc[n] = dev.ifc[n]
           /\ Gone \subseteq dev.bays /\ Gone \cap desired = {} /\ Device \notin Gone
<1> DEFINE f == Emptied(dev, Gone)
<1>1. /\ DOMAIN f = {"bays", "mods", "ifc"} /\ f.bays = dev.bays
      /\ f.mods = [c \in Bays |-> IF c \in Gone THEN None ELSE dev.mods[c]]
      /\ DOMAIN f.ifc = {n \in DOMAIN dev.ifc : dev.ifc[n].bay \notin Gone}
      /\ \A n \in DOMAIN f.ifc : f.ifc[n] = dev.ifc[n]
  BY DEF Emptied, Restrict, Sound, DeviceOK
<1>2. dev' = [f EXCEPT !.bays = @ \ (Gone \cap NicBays)]
  BY DEF Finish
<1> HIDE DEF f
<1>3. /\ DOMAIN dev' = DOMAIN f /\ dev'.bays = dev.bays \ (Gone \cap NicBays)
      /\ dev'.mods = f.mods /\ dev'.ifc = f.ifc
  BY <1>1, <1>2
<1>4. Gone \subseteq dev.bays /\ Gone \cap desired = {}
  BY DEF Gone
<1>5. Device \notin Gone
  BY <1>4, Constants DEF Sound, DeviceOK
<1> QED BY <1>1, <1>3, <1>4, <1>5

LEMMA FinishSound ==
    ASSUME TypeOK, Sound(dev), Finish
    PROVE  TypeOK' /\ Sound(dev')
<1>1. /\ DOMAIN dev' = {"bays", "mods", "ifc"} /\ dev'.bays = dev.bays \ (Gone \cap NicBays)
      /\ dev'.mods = [c \in Bays |-> IF c \in Gone THEN None ELSE dev.mods[c]]
      /\ DOMAIN dev'.ifc = {n \in DOMAIN dev.ifc : dev.ifc[n].bay \notin Gone}
      /\ \A n \in DOMAIN dev'.ifc : dev'.ifc[n] = dev.ifc[n]
      /\ Gone \subseteq dev.bays /\ Gone \cap desired = {} /\ Device \notin Gone
  BY FinishIs
<1>2. \A c \in Bays : dev'.mods[c] = IF c \in Gone THEN None ELSE dev.mods[c]
  BY <1>1
<1>3. \A n \in DOMAIN dev'.ifc : /\ n \in DOMAIN dev.ifc /\ dev'.ifc[n].bay \notin Gone
                                 /\ dev'.ifc[n] = dev.ifc[n] /\ dev'.ifc[n] \in Iface
                                 /\ dev'.ifc[n].bay \in Bays \cup {Device}
  BY <1>1 DEF Sound, DeviceOK, Iface
<1>4. \A c \in Bays : In(dev', c) \subseteq In(dev, c)
  BY <1>3 DEF In
<1>5. DeviceOK(dev')
  <2>1. dev'.bays \subseteq Bays /\ \A c \in Bays \ dev'.bays : dev'.mods[c] = None
    BY <1>1, <1>2 DEF Sound, DeviceOK
  <2>2. dev'.mods \in [Bays -> Cards \cup {Hand, None}]
    BY <1>1 DEF Sound, DeviceOK
  <2>3. DOMAIN dev'.ifc \subseteq Names
    BY <1>1 DEF Sound, DeviceOK
  <2>4. ASSUME NEW n \in DOMAIN dev'.ifc
        PROVE  /\ dev'.ifc[n] \in Iface
               /\ dev'.ifc[n].bay # Device => dev'.mods[dev'.ifc[n].bay] # None
    BY <1>2, <1>3 DEF Sound, DeviceOK
  <2> QED BY <1>1, <2>1, <2>2, <2>3, <2>4 DEF DeviceOK
<1>6. Lone(dev')
  BY <1>4 DEF Sound, Lone
<1>7. PortsPlaced(dev')
  BY <1>2, <1>3 DEF Sound, PortsPlaced
<1>8. NicOK(dev')
  BY <1>2, <1>4, Constants DEF Sound, NicOK
<1>9. TypeOK'
  <2>1. desired' \subseteq dev'.bays
    BY <1>1 DEF Finish, TypeOK
  <2> QED BY <1>5, <2>1 DEF Finish, TypeOK, DeviceOK
<1> QED BY <1>5, <1>6, <1>7, <1>8, <1>9 DEF Sound

\* What is in a desired bay, or in none, survives the clean-up.
LEMMA Survives ==
    ASSUME TypeOK, Sound(dev), Finish, NEW n \in DOMAIN dev.ifc,
           dev.ifc[n].bay \in desired \cup {Device}
    PROVE  n \in DOMAIN dev'.ifc /\ dev'.ifc[n] = dev.ifc[n]
BY FinishIs

\* A lost token was on an untouched interface in a bay that is gone, and no
\* reported card took it along.
LEMMA FinishLost ==
    ASSUME TypeOK, Sound(dev), Sound(before), During, Finish
    PROVE  DataLostOnlyWithGoneCard'
<1>1. before' = before /\ got' = got /\ hw' = hw /\ skipped' = skipped /\ left = {}
      /\ ReadAll' = ReadAll
  BY DEF Finish, ReadAll
<1>2. ASSUME NEW n \in DOMAIN before.ifc, before.ifc[n].data \notin Kept(dev') \cup {None}
      PROVE  LET i == before.ifc[n]
             IN  /\ ReadAll
                 /\ i.bay # Device /\ before.mods[i.bay] # Hand
                 /\ n \in Slots => got[n] = "gone"
                 /\ Holders(before, i.mac) = {n} =>
                       \A s \in Slots \ skipped : got[s] = "own" => hw[s] # i.mac
  <2> DEFINE i == before.ifc[n]
  <2>1. Carries(before, n)
    BY <1>2 DEF Carries
  <2>2. \A m \in DOMAIN dev'.ifc : dev'.ifc[m].data # i.data
    BY <1>2 DEF Kept
  <2>3. Untouched(n)
    <3>1. SUFFICES ASSUME NEW s \in Finished \cap DOMAIN dev.ifc, dev.ifc[s].data = i.data
                   PROVE  FALSE
      BY <2>1 DEF During, TokensKept
    <3>2. dev.ifc[s].bay \in desired \cup {Device}
      BY DEF During, FinishedIn
    <3>3. s \in DOMAIN dev'.ifc /\ dev'.ifc[s] = dev.ifc[s]
      BY <3>2, Survives
    <3> QED BY <2>2, <3>1, <3>3
  <2>4. n \in DOMAIN dev.ifc /\ dev.ifc[n] = i
    BY <2>3 DEF Untouched
  <2>5. i.bay \in Gone /\ i.bay # Device
    <3>1. i.bay \in Gone
      BY <2>2, <2>4, FinishIs
    <3> QED BY <3>1, FinishIs
  <2>6. ReadAll /\ (i.bay \in NicBays \/ IsPlugin(dev, i.bay)) /\ i.bay \notin desired
    BY <2>5 DEF Gone
  <2>7. i.bay \in Bays
    BY <2>4, <2>5 DEF Sound, DeviceOK, Iface
  <2>8. before.mods[i.bay] = dev.mods[i.bay]
    BY <2>3, <2>5 DEF Untouched
  <2>9. dev.mods[i.bay] # Hand
    <3>1. CASE i.bay \in NicBays
      BY <3>1, Constants DEF Sound, NicOK, NicBays
    <3>2. CASE IsPlugin(dev, i.bay)
      <4>1. PICK m \in Slots : m \in In(dev, i.bay)
        BY <3>2 DEF IsPlugin
      <4>2. m \in DOMAIN dev.ifc /\ dev.ifc[m].bay = i.bay
        BY <4>1 DEF In
      <4> QED BY <2>5, <4>2, Constants DEF Sound, PortsPlaced
    <3> QED BY <2>6, <3>1, <3>2
  <2>10. n \notin Finished
    <3>1. n \in Finished => i.bay \in desired \cup {Device}
      BY <2>4 DEF During, FinishedIn
    <3> QED BY <2>5, <2>6, <3>1
  <2>11. n \in Slots => got[n] = "gone"
    BY <1>1, <2>6, <2>10 DEF ReadAll, Finished, Rep
  <2>12. ASSUME Holders(before, i.mac) = {n}, NEW s \in Slots \ skipped, got[s] = "own"
         PROVE  hw[s] # i.mac
    <3>1. s \in Finished \ skipped
      BY <1>1, <2>12 DEF Finished, Rep
    <3>2. hw[s] = i.mac => OneHolder(s, n)
      BY <2>1, <2>12 DEF OneHolder
    <3> QED BY <2>4, <2>10, <3>1, <3>2 DEF During, HolderGone
  <2> QED BY <2>5, <2>6, <2>8, <2>9, <2>11, <2>12
<1>3. Kept(dev)' = Kept(dev')
  BY DEF Kept
<1> QED BY <1>1, <1>2, <1>3 DEF DataLostOnlyWithGoneCard, Holders

\* The token of a reported card ends on its port, which is in a desired bay.
LEMMA FinishFollows ==
    ASSUME TypeOK, Sound(dev), Sound(before), During, Finish
    PROVE  DataFollowsCard'
<1>1. before' = before /\ got' = got /\ hw' = hw /\ skipped' = skipped /\ left = {}
  BY DEF Finish
<1>2. ASSUME NEW s \in Slots \ skipped, NEW n \in DOMAIN before.ifc,
             got[s] = "own", Holders(before, hw[s]) = {n}, Carries(before, n),
             n \in Slots \ {s} => got[n] \in {"gone", "unread"}
      PROVE  s \in DOMAIN dev'.ifc /\ dev'.ifc[s].data = before.ifc[n].data
  <2>1. s \in Finished /\ s \in Rep /\ (n \in Slots \ {s} => n \notin Rep)
    BY <1>1, <1>2 DEF Finished, Rep
  <2>2. OneHolder(s, n)
    BY <1>2 DEF OneHolder
  <2>3. s \in DOMAIN dev.ifc /\ dev.ifc[s].data = before.ifc[n].data
    BY <1>1, <2>1, <2>2 DEF During, Followed
  <2>4. dev.ifc[s].bay \in desired \cup {Device}
    BY <2>1, <2>3 DEF During, FinishedIn
  <2>5. s \in DOMAIN dev'.ifc /\ dev'.ifc[s] = dev.ifc[s]
    BY <2>3, <2>4, Survives
  <2> QED BY <2>3, <2>5
<1> QED BY <1>1, <1>2 DEF DataFollowsCard, Holders, Carries

LEMMA FinishHouses ==
    ASSUME TypeOK, Sound(dev), Sound(before), During, Finish
    PROVE  EachHoused'
<1>1. before' = before /\ got' = got /\ hw' = hw /\ skipped' = skipped /\ left = {}
      /\ ReadAll' = ReadAll /\ desired' = desired
  BY DEF Finish, ReadAll
<1>2. /\ dev'.bays = dev.bays \ (Gone \cap NicBays) /\ Gone \cap desired = {}
      /\ \A c \in Bays : c \notin Gone => dev'.mods[c] = dev.mods[c]
  BY FinishIs
<1>3. ASSUME NEW s \in Slots, NEW c \in Bays \ Gone, Houses(dev, s, c) PROVE Houses(dev, s, c)'
  <2>1. /\ c \in dev.bays /\ dev.mods[c] = hw[s]
        /\ c \in {NicBay(s)} \cup {d \in TypeBays : SlotOf[d] = s}
    BY <1>3 DEF Houses
  <2>2. c \in dev'.bays /\ dev'.mods[c] = hw'[s]
    BY <1>1, <1>2, <2>1
  <2> QED BY <2>1, <2>2 DEF Houses
<1>4. ASSUME NEW s \in Slots \ skipped, got[s] = "own"
      PROVE  /\ s \in DOMAIN dev'.ifc /\ dev'.ifc[s].mac = hw[s]
             /\ Houses(dev, s, dev.ifc[s].bay)'
  <2>1. s \in Finished \ skipped
    BY <1>1, <1>4 DEF Finished, Rep
  <2>2. s \in DOMAIN dev.ifc /\ dev.ifc[s].mac = hw[s] /\ Houses(dev, s, dev.ifc[s].bay)
    BY <1>4, <2>1 DEF During, Housing
  <2>3. dev.ifc[s].bay \in desired \cup {Device}
    BY <2>1, <2>2 DEF During, FinishedIn
  <2>4. s \in DOMAIN dev'.ifc /\ dev'.ifc[s] = dev.ifc[s]
    BY <2>2, <2>3, Survives
  <2>5. dev.ifc[s].bay \in Bays
    BY <2>2 DEF Houses, Sound, DeviceOK
  <2>6. dev.ifc[s].bay \notin Gone
    BY <1>2, <2>3, <2>5, Constants
  <2>7. Houses(dev, s, dev.ifc[s].bay)'
    <3>1. Houses(dev, s, dev.ifc[s].bay)
      BY <2>2
    <3> DEFINE c == dev.ifc[s].bay
    <3>2. /\ c \in dev.bays /\ dev.mods[c] = hw[s]
          /\ c \in {NicBay(s)} \cup {d \in TypeBays : SlotOf[d] = s}
      BY <3>1 DEF Houses
    <3>3. c \in dev'.bays /\ dev'.mods[c] = hw'[s] /\ c = dev'.ifc[s].bay
      BY <1>1, <1>2, <2>4, <2>5, <2>6, <3>2
    <3> QED BY <3>2, <3>3 DEF Houses
  <2> QED BY <2>2, <2>4, <2>7
<1>5. ASSUME ReadAll, desired # {}, NEW c \in dev'.bays \cap NicBays
      PROVE  \E s \in Slots : c = NicBay(s) /\ Houses(dev, s, c)'
  <2>1. c \in dev.bays \cap NicBays /\ c \notin Gone /\ c \in Bays
    BY <1>2, Constants
  <2>2. c \in desired
    BY <1>5, <2>1 DEF Gone
  <2>3. PICK s \in Finished : c = NicBay(s) /\ dev.mods[c] = hw[s]
    BY <2>1, <2>2 DEF During, DesiredIs
  <2>4. s \in Slots /\ Houses(dev, s, c)
    BY <2>1, <2>3 DEF Finished, Rep, Houses
  <2> QED BY <1>3, <2>1, <2>3, <2>4
<1> QED BY <1>1, <1>4, <1>5 DEF EachHoused

-----------------------------------------------------------------------------
(* The invariant.                                                          *)

LEMMA InitInv == Init => Inv
<1> SUFFICES ASSUME Init PROVE Inv
  OBVIOUS
<1>1. PICK B \in {{}, TypeBays} : dev = [bays |-> B, mods |-> [b \in Bays |-> None],
                                         ifc |-> [n \in {} |-> NewIface]]
  BY DEF Init
<1>2. /\ DOMAIN dev = {"bays", "mods", "ifc"} /\ dev.bays = B /\ DOMAIN dev.ifc = {}
      /\ dev.mods = [b \in Bays |-> None]
  BY <1>1
<1>3. Sound(dev)
  <2>1. DeviceOK(dev)
    BY <1>2, Constants DEF DeviceOK
  <2>2. \A b : In(dev, b) = {}
    BY <1>2 DEF In
  <2> QED BY <1>2, <2>1, <2>2, Constants DEF Sound, Lone, PortsPlaced, NicOK
<1>4. TypeOK
  <2>1. got \in [Slots -> Reads \cup {"gone"}] /\ 0 \in 0..MaxChanges /\ 0 \in 0..MaxFaults
    BY BaysAssumption DEF Init
  <2>2. DeviceOK(dev) /\ DeviceOK(before)
    BY <1>3 DEF Init, Sound
  <2>3. hw \in Layouts /\ pc \in {"idle", "adapters", "done"} /\ left = {} /\ desired = {}
        /\ skipped = {} /\ changes = 0 /\ faults = 0
    BY DEF Init
  <2> QED BY <2>1, <2>2, <2>3 DEF TypeOK
<1>5. before = dev /\ pc = "idle"
  BY DEF Init
<1> QED BY <1>3, <1>4, <1>5
        DEF Inv, Promises, DataLostOnlyWithGoneCard, DataFollowsCard, EachHoused

LEMMA NextInv == Inv /\ [Next]_vars => Inv'
<1> SUFFICES ASSUME Inv, [Next]_vars PROVE Inv'
  OBVIOUS
<1>1. Sound(dev)' = Sound(dev') /\ Sound(before)' = Sound(before')
  BY DEF Sound, DeviceOK, Lone, PortsPlaced, NicOK, In
<1>2. pc' # "done" => Promises'
  BY DEF Promises, DataLostOnlyWithGoneCard, DataFollowsCard, EachHoused
<1>3. CASE BeginSync
  <2>1. TypeOK' /\ Sound(dev') /\ before' = dev' /\ During' /\ pc' = "adapters"
    BY <1>3, BeginStep DEF Inv
  <2>2. Sound(before')
    BY <2>1
  <2> QED BY <1>1, <1>2, <2>1, <2>2 DEF Inv
<1>4. CASE SyncAdapter
  <2>1. pc = "adapters"
    BY <1>4 DEF SyncAdapter
  <2>2. TypeOK' /\ Sound(dev)' /\ During' /\ pc' = pc /\ before' = before
    BY <1>4, <2>1, AdapterStep DEF Inv
  <2>3. Sound(before')
    BY <2>2 DEF Inv
  <2> QED BY <1>1, <1>2, <2>1, <2>2, <2>3 DEF Inv
<1>5. CASE Finish
  <2>1. TypeOK /\ Sound(dev) /\ Sound(before) /\ During /\ pc' = "done" /\ before' = before
    BY <1>5 DEF Inv, Finish
  <2>2. TypeOK' /\ Sound(dev')
    BY <1>5, <2>1, FinishSound
  <2>3. Promises'
    BY <1>5, <2>1, FinishLost, FinishFollows, FinishHouses DEF Promises
  <2>4. Sound(before')
    BY <2>1
  <2> QED BY <1>1, <2>1, <2>2, <2>3, <2>4 DEF Inv
<1>6. CASE Abort
  <2>1. dev' = before /\ before' = before /\ pc' = "idle"
    BY <1>6 DEF Abort
  <2>2. Sound(dev') /\ Sound(before')
    BY <2>1 DEF Inv
  <2>3. faults' \in 0..MaxFaults
    BY <1>6, BaysAssumption DEF Abort, Inv, TypeOK
  <2>4. TypeOK'
    <3>1. DeviceOK(dev') /\ DeviceOK(before')
      BY <2>2 DEF Sound
    <3>2. /\ hw' \in Layouts /\ got' \in [Slots -> Reads \cup {"gone"}]
          /\ left' = {} /\ desired' = {} /\ skipped' = {} /\ changes' \in 0..MaxChanges
      BY <1>6 DEF Abort, Inv, TypeOK
    <3> QED BY <2>1, <2>3, <3>1, <3>2 DEF TypeOK
  <2> QED BY <1>1, <1>2, <2>1, <2>2, <2>4 DEF Inv
<1>7. CASE \/ Rearrange
           \/ \E n \in Foreign, b \in TypeBays \cup {Device} : Enter(n, b)
           \/ \E n \in Names : Connect(n)
  <2>1. TypeOK' /\ Sound(dev') /\ before' = before /\ pc' = "idle"
    BY <1>7, HumanStep
  <2>2. Sound(before')
    BY <2>1 DEF Inv
  <2> QED BY <1>1, <1>2, <2>1, <2>2 DEF Inv
<1>8. CASE UNCHANGED vars
  <2>1. /\ hw' = hw /\ dev' = dev /\ pc' = pc /\ got' = got /\ left' = left
        /\ desired' = desired /\ skipped' = skipped /\ before' = before
        /\ changes' = changes /\ faults' = faults
    BY <1>8 DEF vars
  <2>2. TypeOK'
    BY <2>1 DEF Inv, TypeOK, DeviceOK
  <2>3. Sound(dev') /\ Sound(before')
    BY <2>1 DEF Inv
  <2>4. pc = "adapters" => During'
    <3>1. pc = "adapters" => During
      BY DEF Inv
    <3>2. Lists' = Lists /\ DesiredIs' = DesiredIs /\ FinishedIn' = FinishedIn
      BY <2>1 DEF Lists, DesiredIs, FinishedIn, Finished, Rep
    <3>3. Elsewhere' = Elsewhere /\ TokensKept' = TokensKept /\ MacsOld' = MacsOld
      BY <2>1 DEF Elsewhere, TokensKept, MacsOld, Untouched, Carries, Finished, Rep
    <3>4. HolderGone' = HolderGone /\ Housing' = Housing /\ Followed' = Followed
      BY <2>1 DEF HolderGone, Housing, Followed, OneHolder, Holders, Carries, Houses,
                  Finished, Rep
    <3> QED BY <3>1, <3>2, <3>3, <3>4 DEF During
  <2>5. Promises'
    <3>1. DataLostOnlyWithGoneCard'
      BY <2>1 DEF Inv, Promises, DataLostOnlyWithGoneCard, Kept, Holders, ReadAll
    <3>2. DataFollowsCard'
      BY <2>1 DEF Inv, Promises, DataFollowsCard, Holders, Carries
    <3>3. EachHoused'
      BY <2>1 DEF Inv, Promises, EachHoused, Houses, ReadAll
    <3> QED BY <3>1, <3>2, <3>3 DEF Promises
  <2> QED BY <1>1, <2>1, <2>2, <2>3, <2>4, <2>5 DEF Inv
<1> QED BY <1>3, <1>4, <1>5, <1>6, <1>7, <1>8 DEF Next

LEMMA Invariance == Spec => []Inv
<1> QED BY InitInv, NextInv, PTL DEF Spec

\* Every module is in a bay of the device and every interface in a module or
\* on the device itself: emptying and deleting bays leaves nothing dangling
\* (sync.py 463-530, 664-694).
THEOREM TypeCorrect == Spec => []TypeOK
<1>1. Inv => TypeOK
  BY DEF Inv
<1> QED BY <1>1, Invariance, PTL

\* A sync, complete or not, loses a cable or address only with a card that is
\* gone for certain (sync.py 480-500, 664-694).
THEOREM OnlyWithGoneCard == Spec => []DataLostOnlyWithGoneCard
<1>1. Inv => DataLostOnlyWithGoneCard
  BY DEF Inv, Promises
<1> QED BY <1>1, Invariance, PTL

\* Cables and addresses follow their cards between slots, bays and names
\* (sync.py 463-530, 640-648).
THEOREM FollowsCard == Spec => []DataFollowsCard
<1>1. Inv => DataFollowsCard
  BY DEF Inv, Promises
<1> QED BY <1>1, Invariance, PTL

\* After a full read every adapter is in a bay of its slot, with its port, and
\* the plugin's own bays are those of adapters (sync.py 582-694).
THEOREM AdaptersHoused == Spec => []EachHoused
<1>1. Inv => EachHoused
  BY DEF Inv, Promises
<1> QED BY <1>1, Invariance, PTL

-----------------------------------------------------------------------------
(* Adapters that are settled stay.  This is relative to the invariant: what  *)
(* holds of the device between two adapters is used and not proved again.    *)

\* So far in this sync.
StayDuring == pc = "adapters" =>
    \A s \in Slots : SettledIn(before, s) => SettledIn(dev, s) /\ dev.ifc[s] = before.ifc[s]

\* The adapter is found in its bay, and that bay is its own.
LEMMA SettledMeans ==
    ASSUME NEW d, Sound(d), NEW s \in Slots, SettledIn(d, s)
    PROVE  /\ s \in DOMAIN d.ifc /\ d.ifc[s] \in Iface /\ hw[s] # None /\ d.ifc[s].mac = hw[s]
           /\ d.ifc[s].bay \in Bays \cap d.bays /\ d.ifc[s].bay \in OwnBays(s)
           /\ d.mods[d.ifc[s].bay] = hw[s] /\ In(d, d.ifc[s].bay) = {s}
           /\ Current(d, s) = d.ifc[s].bay /\ d.ifc[s].bay # Device
           /\ \A n \in DOMAIN d.ifc : n # s => d.ifc[n].mac # hw[s]
<1>1. s \in Holders(d, hw[s]) /\ hw[s] # None
  BY DEF SettledIn
<1>2. s \in DOMAIN d.ifc /\ d.ifc[s].mac = hw[s] /\ d.ifc[s] \in Iface
  BY <1>1 DEF Holders, Sound, DeviceOK
<1>3. /\ d.ifc[s].bay \in d.bays /\ d.ifc[s].bay \in OwnBays(s)
      /\ d.mods[d.ifc[s].bay] = hw[s] /\ In(d, d.ifc[s].bay) = {s}
  BY DEF SettledIn, Houses, OwnBays
<1>4. d.ifc[s].bay \in Bays /\ d.ifc[s].bay # Device
  BY <1>3, Constants DEF Sound, DeviceOK
<1>5. ASSUME NEW n \in DOMAIN d.ifc, d.ifc[n].mac = hw[s] PROVE n = s
  <2>1. n \in Holders(d, hw[s])
    BY <1>1, <1>5 DEF Holders
  <2> QED BY <2>1 DEF SettledIn
<1>6. Current(d, s) = d.ifc[s].bay
  BY <1>2, <1>4 DEF Current
<1> QED BY <1>1, <1>2, <1>3, <1>4, <1>5, <1>6

\* It is given the bay it has.
LEMMA SettledBay ==
    ASSUME NEW d, Sound(d), NEW s \in Slots, SettledIn(d, s)
    PROVE  BayFor(d, s) = d.ifc[s].bay
<1> DEFINE c == d.ifc[s].bay
<1>1. Current(d, s) = c /\ c \in OwnBays(s)
  BY SettledMeans
<1>2. CASE c \in TypeBays
  <2>1. TypeBayFor(d, s) = {c}
    BY <1>1, <1>2 DEF TypeBayFor
  <2>2. BayFor(d, s) \in TypeBayFor(d, s)
    BY <2>1 DEF BayFor
  <2> QED BY <2>1, <2>2
<1>3. CASE c \notin TypeBays
  <2>1. c = NicBay(s)
    BY <1>1, <1>3 DEF OwnBays
  <2>2. \A b \in TypeBays \cap d.bays : SlotOf[b] # s
    BY <2>1 DEF SettledIn
  <2>3. Candidates(d, s, FALSE) = {} /\ Candidates(d, s, TRUE) = {}
    BY <2>2 DEF Candidates
  <2>4. Cardinality(Candidates(d, s, FALSE)) # 1
    <3>1. Cardinality({}) # 1
      BY FS_EmptySet
    <3> QED BY <2>3, <3>1
  <2>5. TypeBayFor(d, s) = {}
    BY <1>1, <1>3, <2>3, <2>4 DEF TypeBayFor
  <2> QED BY <2>1, <2>5 DEF BayFor
<1> QED BY <1>2, <1>3

LEMMA SameIface ==
    ASSUME NEW i \in Iface
    PROVE  [i EXCEPT !.bay = i.bay] = i /\ [i EXCEPT !.bay = i.bay, !.mac = i.mac] = i
BY DEF Iface

\* Its own turn finds its port by MAC or by name, and changes nothing of it.
LEMMA OwnTurn ==
    ASSUME TypeOK, Sound(dev), During, SyncAdapter, NEW s \in left, left' = left \ {s},
           SettledIn(dev, s)
    PROVE  s \in DOMAIN dev'.ifc /\ dev'.ifc[s] = dev.ifc[s]
<1> DEFINE b == BayFor(dev, s)
           h == Housed(dev, s, b)
<1>1. \/ ~Listed(s) /\ dev' = h
      \/ Listed(s) /\ \E m \in PortMatches(h, s) : dev' = Trimmed(Ported(h, s, b, m), s, b)
  <2>1. PICK t \in left : \E c \in {BayFor(dev, t)} : \E g \in {Housed(dev, t, c)} :
          /\ \/ ~Listed(t) /\ dev' = g
             \/ /\ Listed(t)
                /\ \E m \in PortMatches(g, t) : dev' = Trimmed(Ported(g, t, c, m), t, c)
          /\ left' = left \ {t}
    BY DEF SyncAdapter
  <2>2. t = s
    BY <2>1
  <2> QED BY <2>1, <2>2
<1>2. s \in Slots
  BY DEF TypeOK
<1>3. /\ s \in DOMAIN dev.ifc /\ dev.ifc[s] \in Iface /\ hw[s] # None /\ dev.ifc[s].mac = hw[s]
      /\ Current(dev, s) = dev.ifc[s].bay /\ b = dev.ifc[s].bay /\ b \in Bays
      /\ \A n \in DOMAIN dev.ifc : n # s => dev.ifc[n].mac # hw[s]
  BY <1>2, SettledMeans, SettledBay
<1>4. /\ Processed(dev, h, s, b)
      /\ \A n \in DOMAIN h.ifc : n \in DOMAIN dev.ifc /\ h.ifc[n].mac = dev.ifc[n].mac
  BY <1>2, HousedProcessed
<1>5. s \in DOMAIN h.ifc /\ h.ifc[s] = dev.ifc[s]
  <2>1. /\ DOMAIN h = {"bays", "mods", "ifc"} /\ h.bays = dev.bays \cup {b}
        /\ h.mods = [c \in Bays |-> IF c = b THEN hw[s]
                                    ELSE IF c = Current(dev, s) THEN None ELSE dev.mods[c]]
        /\ DOMAIN h.ifc = {n \in DOMAIN dev.ifc : n = s \/ dev.ifc[n].bay # b}
        /\ \A n \in DOMAIN h.ifc \ {s} : h.ifc[n] = dev.ifc[n]
        /\ s \in DOMAIN h.ifc => h.ifc[s] = IF Current(dev, s) = None THEN dev.ifc[s]
                                            ELSE [dev.ifc[s] EXCEPT !.bay = b]
    BY <1>2, HousedIs
  <2> HIDE DEF h, b
  <2> QED BY <1>3, <2>1, SameIface
<1> HIDE DEF h, b
<1>6. ASSUME Listed(s), NEW m \in PortMatches(h, s), dev' = Trimmed(Ported(h, s, b, m), s, b)
      PROVE  s \in DOMAIN dev'.ifc /\ dev'.ifc[s] = dev.ifc[s]
  <2> DEFINE f == Become(h, s, s, b)
  <2>1. m = s
    <3>1. SUFFICES ASSUME m # s PROVE FALSE
      OBVIOUS
    <3>2. m \in DOMAIN h.ifc /\ h.ifc[m].mac = hw[s]
      BY <1>2, <1>6, <3>1, MatchIs
    <3> QED BY <1>3, <1>4, <3>1, <3>2
  <2>2. dev' = Trimmed(f, s, b)
    BY <1>6, <2>1 DEF Ported, Ambiguous, Clash
  <2>3. DOMAIN h = {"bays", "mods", "ifc"} /\ In(h, b) \subseteq {s}
    BY <1>4 DEF Processed, In
  <2>4. /\ DOMAIN f = {"bays", "mods", "ifc"} /\ DOMAIN f.ifc = (DOMAIN h.ifc \ {s}) \cup {s}
        /\ \A n \in DOMAIN f.ifc \ {s} : f.ifc[n] = h.ifc[n]
        /\ f.ifc[s] = Renewed(Source(h, s), s, b)
    BY <2>3, BecomeIs
  <2>5. NewMac(dev.ifc[s], s) = dev.ifc[s].mac
    BY <1>3 DEF NewMac, MacOf
  <2>6. f.ifc[s] = dev.ifc[s]
    <3>1. Source(h, s) = dev.ifc[s]
      BY <1>5 DEF Source
    <3>2. Renewed(dev.ifc[s], s, b) = dev.ifc[s]
      BY <1>3, <2>5, SameIface DEF Renewed
    <3> QED BY <2>4, <3>1, <3>2
  <2>7. In(f, b) \subseteq {s}
    BY <2>3, <2>4 DEF In
  <2> HIDE DEF f
  <2>8. DOMAIN dev'.ifc = DOMAIN f.ifc /\ \A n \in DOMAIN f.ifc : dev'.ifc[n] = f.ifc[n]
    BY <2>2, <2>4, <2>7, TrimmedIs
  <2> QED BY <2>4, <2>6, <2>8
<1> QED BY <1>1, <1>5, <1>6

LEMMA BaysApart ==
    ASSUME NEW s \in Slots, NEW t \in Slots, s # t
    PROVE  OwnBays(s) \cap OwnBays(t) = {}
BY Constants DEF OwnBays

\* No other turn takes it its bay, its name or its MAC.
LEMMA OtherTurn ==
    ASSUME NEW t, NEW b, Turn(t, b), NEW s \in Slots, s # t, SettledIn(dev, s)
    PROVE  s \in DOMAIN dev'.ifc /\ dev'.ifc[s] = dev.ifc[s]
<1>1. /\ s \in DOMAIN dev.ifc /\ dev.ifc[s].mac = hw[s] /\ dev.ifc[s].bay \in OwnBays(s)
  BY SettledMeans DEF Turn
<1>2. dev.ifc[s].bay # b
  BY <1>1, BaysApart, TurnFacts DEF Turn
<1>3. hw[s] # hw[t]
  BY TurnFacts
<1>4. s \in DOMAIN dev'.ifc
  BY <1>1, <1>2, <1>3 DEF Turn, Processed
<1> QED BY <1>4 DEF Turn, Processed

\* An adapter whose port a turn leaves as it is stays settled.
LEMMA TurnSettled ==
    ASSUME NEW t, NEW b, Turn(t, b), NEW s \in Slots, SettledIn(dev, s),
           s \in DOMAIN dev'.ifc, dev'.ifc[s] = dev.ifc[s]
    PROVE  SettledIn(dev', s)
<1> DEFINE c == dev.ifc[s].bay
<1>1. /\ s \in DOMAIN dev.ifc /\ hw[s] # None /\ dev.ifc[s].mac = hw[s]
      /\ c \in Bays \cap dev.bays /\ c \in OwnBays(s) /\ c # Device
      /\ dev.mods[c] = hw[s] /\ In(dev, c) = {s}
      /\ \A n \in DOMAIN dev.ifc : n # s => dev.ifc[n].mac # hw[s]
  BY SettledMeans DEF Turn
<1>2. /\ t \in Slots /\ b \in OwnBays(t) /\ (t # s => hw[s] # hw[t])
      /\ dev'.mods[c] = IF c = b THEN hw[t]
                        ELSE IF c = Current(dev, t) THEN None ELSE dev.mods[c]
      /\ dev'.bays = dev.bays \cup {b}
      /\ \A n \in DOMAIN dev'.ifc \ {t} : n \in DOMAIN dev.ifc /\ dev'.ifc[n] = dev.ifc[n]
      /\ t \in DOMAIN dev'.ifc =>
            /\ dev'.ifc[t].bay \in {b, Device}
            /\ \/ dev'.ifc[t].mac \in {None, hw[t]}
               \/ t \in DOMAIN dev.ifc /\ dev.ifc[t].mac = dev'.ifc[t].mac
  BY <1>1, TurnFacts DEF Turn, Processed
<1>3. t = s => c = b
  BY <1>1, <1>2
<1>4. t # s => c # b /\ c # Current(dev, t)
  <2>1. Current(dev, t) # None => Current(dev, t) \in OwnBays(t)
    BY <1>2, BayIs DEF Turn
  <2> QED BY <1>1, <1>2, <2>1, BaysApart, Constants
<1>5. c \in dev'.bays /\ dev'.mods[c] = hw[s]
  BY <1>1, <1>2, <1>3, <1>4
<1>6. In(dev', c) = {s}
  <2>1. ASSUME NEW n \in DOMAIN dev'.ifc, n # s PROVE dev'.ifc[n].bay # c
    <3>1. CASE n = t
      BY <1>1, <1>2, <1>4, <2>1, <3>1
    <3>2. CASE n # t
      <4>1. n \in DOMAIN dev.ifc /\ dev'.ifc[n] = dev.ifc[n]
        BY <1>2, <2>1, <3>2
      <4> QED BY <1>1, <2>1, <4>1 DEF In
    <3> QED BY <3>1, <3>2
  <2> QED BY <2>1 DEF In
<1>7. Holders(dev', hw[s]) = {s}
  <2>1. ASSUME NEW n \in DOMAIN dev'.ifc, n # s PROVE dev'.ifc[n].mac # hw[s]
    <3>1. CASE n = t
      BY <1>1, <1>2, <2>1, <3>1
    <3>2. CASE n # t
      BY <1>1, <1>2, <2>1, <3>2
    <3> QED BY <3>1, <3>2
  <2> QED BY <1>1, <2>1 DEF Holders
<1>8. ASSUME c = NicBay(s), NEW e \in TypeBays \cap dev'.bays PROVE SlotOf[e] # s
  <2>1. CASE e \in dev.bays
    BY <1>8, <2>1 DEF SettledIn
  <2>2. CASE e = b
    <3>1. b # NicBay(t) /\ SlotOf[b] = t
      BY <1>2, <1>8, <2>2, Constants DEF OwnBays
    <3>2. t # s
      BY <1>3, <1>8, <2>2, Constants
    <3> QED BY <2>2, <3>1, <3>2
  <2> QED BY <1>2, <1>8, <2>1, <2>2
<1>9. Houses(dev', s, c)
  BY <1>1, <1>5 DEF Houses, OwnBays
<1> QED BY <1>1, <1>6, <1>7, <1>8, <1>9 DEF SettledIn

\* The clean-up leaves the bays of adapters that were reported, and of all of
\* them when one could not be read.
LEMMA FinishSettled ==
    ASSUME TypeOK, Sound(dev), During, Finish, NEW s \in Slots, SettledIn(dev, s)
    PROVE  SettledIn(dev', s) /\ dev'.ifc[s] = dev.ifc[s]
<1> DEFINE c == dev.ifc[s].bay
<1>1. /\ s \in DOMAIN dev.ifc /\ hw[s] # None /\ dev.ifc[s].mac = hw[s]
      /\ c \in Bays \cap dev.bays /\ c \in OwnBays(s) /\ c # Device
      /\ dev.mods[c] = hw[s] /\ In(dev, c) = {s}
      /\ \A n \in DOMAIN dev.ifc : n # s => dev.ifc[n].mac # hw[s]
  BY SettledMeans
<1>2. /\ dev'.bays = dev.bays \ (Gone \cap NicBays)
      /\ dev'.mods = [b \in Bays |-> IF b \in Gone THEN None ELSE dev.mods[b]]
      /\ DOMAIN dev'.ifc = {n \in DOMAIN dev.ifc : dev.ifc[n].bay \notin Gone}
      /\ \A n \in DOMAIN dev'.ifc : dev'.ifc[n] = dev.ifc[n]
      /\ Gone \cap desired = {}
  BY FinishIs
<1>3. c \notin Gone
  <2>1. got[s] # "gone"
    BY <1>1 DEF During, Lists
  <2>2. CASE got[s] = "unread"
    BY <2>2 DEF Gone, ReadAll
  <2>3. CASE got[s] # "unread"
    <3>1. s \in Finished
      BY <2>1, <2>3 DEF Finish, Finished, Rep
    <3>2. c \in desired
      BY <1>1, <3>1 DEF During, FinishedIn
    <3> QED BY <1>2, <3>2
  <2> QED BY <2>2, <2>3
<1>4. s \in DOMAIN dev'.ifc /\ dev'.ifc[s] = dev.ifc[s]
  BY <1>1, <1>2, <1>3
<1>5. c \in dev'.bays /\ dev'.mods[c] = hw[s]
  BY <1>1, <1>2, <1>3
<1>6. In(dev', c) = {s}
  BY <1>1, <1>2, <1>4 DEF In
<1>7. Holders(dev', hw[s]) = {s}
  BY <1>1, <1>2, <1>4 DEF Holders
<1>8. c = NicBay(s) => \A b \in TypeBays \cap dev'.bays : SlotOf[b] # s
  BY <1>2 DEF SettledIn
<1>9. Houses(dev', s, c)
  BY <1>1, <1>5 DEF Houses, OwnBays
<1> QED BY <1>1, <1>4, <1>6, <1>7, <1>8, <1>9 DEF SettledIn

LEMMA StayStep == Inv /\ StayDuring /\ SettledStays /\ [Next]_vars
                     => StayDuring' /\ SettledStays'
<1> SUFFICES ASSUME Inv, StayDuring, SettledStays, [Next]_vars
             PROVE  StayDuring' /\ SettledStays'
  OBVIOUS
<1>1. ASSUME hw' = hw, NEW s \in Slots
      PROVE  /\ SettledIn(dev, s)' <=> SettledIn(dev', s)
             /\ SettledIn(before, s)' <=> SettledIn(before', s)
  BY <1>1 DEF SettledIn, Houses, Holders, In
<1>2. CASE BeginSync
  <2>1. before' = dev' /\ hw' = hw /\ pc' = "adapters"
    BY <1>2 DEF BeginSync
  <2> QED BY <1>1, <2>1 DEF StayDuring, SettledStays
<1>3. CASE SyncAdapter
  <2>1. pc = "adapters" /\ TypeOK /\ Sound(dev) /\ During
    BY <1>3 DEF SyncAdapter, Inv
  <2>2. PICK t \in left, b \in Bays : Turn(t, b)
    BY <1>3, <2>1, TurnIs
  <2>3. hw' = hw /\ before' = before /\ pc' = "adapters" /\ left' = left \ {t}
    BY <2>1, <2>2 DEF Turn
  <2>4. ASSUME NEW s \in Slots, SettledIn(before, s)
        PROVE  SettledIn(dev', s) /\ dev'.ifc[s] = before.ifc[s]
    <3>1. SettledIn(dev, s) /\ dev.ifc[s] = before.ifc[s]
      BY <2>1, <2>4 DEF StayDuring
    <3>2. s \in DOMAIN dev'.ifc /\ dev'.ifc[s] = dev.ifc[s]
      <4>1. CASE s = t
        BY <1>3, <2>1, <2>3, <3>1, <4>1, OwnTurn
      <4>2. CASE s # t
        BY <2>2, <3>1, <4>2, OtherTurn
      <4> QED BY <4>1, <4>2
    <3> QED BY <2>2, <3>1, <3>2, TurnSettled
  <2> QED BY <1>1, <2>3, <2>4 DEF StayDuring, SettledStays
<1>4. CASE Finish
  <2>1. pc = "adapters" /\ TypeOK /\ Sound(dev) /\ During
    BY <1>4 DEF Finish, Inv
  <2>2. hw' = hw /\ before' = before /\ pc' = "done"
    BY <1>4 DEF Finish
  <2>3. ASSUME NEW s \in Slots, SettledIn(before, s)
        PROVE  SettledIn(dev', s) /\ dev'.ifc[s] = before.ifc[s]
    BY <1>4, <2>1, <2>3, FinishSettled DEF StayDuring
  <2> QED BY <1>1, <2>2, <2>3 DEF StayDuring, SettledStays
<1>5. CASE Abort
  BY <1>5 DEF Abort, StayDuring, SettledStays
<1>6. CASE \/ Rearrange
           \/ \E n \in Foreign, b \in TypeBays \cup {Device} : Enter(n, b)
           \/ \E n \in Names : Connect(n)
  BY <1>6 DEF Rearrange, Enter, Connect, ByHuman, StayDuring, SettledStays
<1>7. CASE UNCHANGED vars
  <2>1. hw' = hw /\ dev' = dev /\ before' = before /\ pc' = pc
    BY <1>7 DEF vars
  <2> QED BY <1>1, <2>1 DEF StayDuring, SettledStays
<1> QED BY <1>2, <1>3, <1>4, <1>5, <1>6, <1>7 DEF Next

\* A sync leaves an adapter that is where it belongs alone, in whatever order
\* the others are moved around it and however it was read (sync.py 463-530,
\* 640-694).
THEOREM AdaptersStay == Spec => []SettledStays
<1>1. Init => StayDuring /\ SettledStays
  BY DEF Init, StayDuring, SettledStays
<1> QED BY <1>1, StayStep, Invariance, PTL DEF Spec
=============================================================================
