-------------------------------- MODULE Bays --------------------------------
(***************************************************************************)
(* The network adapters of one server as modules in the module bays of its *)
(* device: what iDRAC reports of the slots, the bays of the device type,   *)
(* the bays the plugin makes itself, named after the adapters, the modules *)
(* users enter by hand, and where the interfaces with their cables and     *)
(* addresses end up (idrac/sync.py, _ensure_template_bays to               *)
(* _sync_network_adapters).                                                *)
(*                                                                         *)
(* Every card has one port, named after the slot the card is in: several   *)
(* ports of one adapter are the subject of PortSync.  Two syncs of one     *)
(* server take turns here, since both first lock its component rows.       *)
(***************************************************************************)
EXTENDS Integers, Sequences, FiniteSets, Functions, SequencesExt

CONSTANTS
    SlotOrder,      \* the slots in the order iDRAC lists their adapters
    TypeBays,       \* the module bays of the device type
    SlotOf,         \* SlotOf[b]: the slot the position of bay b names
    PatternOf,      \* PatternOf[b]: which of its slot's position patterns it matches
    Cards,          \* network cards; a card stands for its serial, MAC and cable too
    Foreign,        \* interface names users choose
    Hand,           \* a module entered by hand
    Device,         \* in no module: the device itself
    None,
    MaxChanges,     \* bound on what humans change, in the server or in NetBox
    MaxFaults       \* bound on syncs that read or write less than all

Slots == Range(SlotOrder)
Precedes(s, t) == \E i, j \in DOMAIN SlotOrder : i < j /\ s = SlotOrder[i] /\ t = SlotOrder[j]
Names == Slots \cup Foreign

NicBay(s) == <<"NIC", s>>
NicBays == {NicBay(s) : s \in Slots}
Bays == TypeBays \cup NicBays

(* How the read of an occupied slot may end: its adapter with its port and  *)
(* MAC, with a port that lists no MAC, with its ports unread or unlisted,   *)
(* or not at all.  An empty slot is not listed.                             *)
Reads == {"own", "nomac", "noports", "unread"}

ASSUME BaysAssumption ==
    /\ SlotOrder \in Seq(Slots) /\ IsInjective(SlotOrder)
    /\ IsFiniteSet(TypeBays) /\ TypeBays \cap NicBays = {}
    /\ SlotOf \in [TypeBays -> Slots] /\ PatternOf \in [TypeBays -> Nat]
    /\ Slots \cap Foreign = {} /\ Cards \cap Names = {}
    /\ Hand \notin Cards /\ Device \notin Bays
    /\ None \notin Cards \cup Names \cup Bays \cup {Hand, Device}
    /\ MaxChanges \in Nat /\ MaxFaults \in Nat

VARIABLES
    hw,         \* hw[s]: the card in slot s
    dev,        \* the device in NetBox: its bays, modules and interfaces
    pc,         \* "idle", "adapters" (in the transaction) or "done" (committed)
    got,        \* got[s]: how the read of slot s ended in this sync
    left,       \* the reported adapters not yet reconciled
    desired,    \* the bays of those reconciled
    skipped,    \* the slots whose port was skipped as ambiguous
    before,     \* the device when the transaction began
    changes, faults

vars == <<hw, dev, pc, got, left, desired, skipped, before, changes, faults>>

\* What is in the slots: a card is in one slot at most.
Layouts == {h \in [Slots -> Cards \cup {None}] :
               \A s, t \in Slots : s # t /\ h[s] = h[t] => h[s] = None}

\* A cable or address is one token, named after the card it was entered for.
Tokens == Cards \cup Names

Iface == [bay : Bays \cup {Device}, data : Tokens \cup {None}, mac : Cards \cup {None}]

In(d, b) == {n \in DOMAIN d.ifc : d.ifc[n].bay = b}
Carries(d, n) == d.ifc[n].data # None

-----------------------------------------------------------------------------
(* The bay of an adapter.                                                  *)

\* Ports keep their FQDD names, so a module with such an interface is the sync's.
IsPlugin(d, b) == In(d, b) \cap Slots # {}
HoldsData(d, b) == \E n \in In(d, b) : Carries(d, n)

Replaceable(d, b) == ~IsPlugin(d, b) /\ ~HoldsData(d, b)

\* The bay of the module that has the adapter's port from an earlier sync.
Current(d, s) == IF s \in DOMAIN d.ifc /\ d.ifc[s].bay # Device
                 THEN d.ifc[s].bay ELSE None

\* The free, or the occupied, device-type bays of slot s; earlier patterns win.
Candidates(d, s, occupied) ==
    LET B == {b \in TypeBays \cap d.bays : SlotOf[b] = s /\ (d.mods[b] # None) = occupied}
    IN  {b \in B : \A c \in B : PatternOf[b] <= PatternOf[c]}

\* Mutant: an adapter that has a bay is not recognised there.
TypeBayForAnew(d, s) ==
    LET free == Candidates(d, s, FALSE)
        taken == Candidates(d, s, TRUE)
    IN  IF Cardinality(free) = 1 THEN free
        ELSE {b \in taken : Cardinality(taken) = 1 /\ Replaceable(d, b)}

\* Mutant: a module entered by hand keeps its bay, whatever it holds.
TypeBayForFree(d, s) ==
    IF Current(d, s) \in TypeBays THEN {Current(d, s)}
    ELSE {b \in Candidates(d, s, FALSE) : Cardinality(Candidates(d, s, FALSE)) = 1}

\* The device-type bay for slot s: where the adapter is, the free one, or one
\* whose module may be replaced -- unless several match alike.
TypeBayFor(d, s) ==
    LET free == Candidates(d, s, FALSE)
        taken == Candidates(d, s, TRUE)
    IN  IF Current(d, s) \in TypeBays THEN {Current(d, s)}
        ELSE IF Cardinality(free) = 1 THEN free
        ELSE {b \in taken : Cardinality(taken) = 1 /\ Replaceable(d, b)}

BayFor(d, s) ==
    IF TypeBayFor(d, s) = {} THEN NicBay(s) ELSE CHOOSE b \in TypeBayFor(d, s) : TRUE

\* The device without the modules in the bays B; their interfaces go with them.
Emptied(d, B) ==
    [d EXCEPT !.mods = [b \in Bays |-> IF b \in B THEN None ELSE d.mods[b]],
              !.ifc = Restrict(d.ifc, {n \in DOMAIN d.ifc : d.ifc[n].bay \notin B})]

\* The module in bay from, if any, with its interfaces in bay b.
Moved(d, from, b) ==
    [d EXCEPT !.mods = [c \in Bays |-> IF c = from THEN None ELSE d.mods[c]],
              !.ifc = [n \in DOMAIN d.ifc |->
                          IF d.ifc[n].bay = from THEN [d.ifc[n] EXCEPT !.bay = b]
                                                 ELSE d.ifc[n]]]

\* _bay_for_adapter and the module entered in that bay.
Housed(d, s, b) ==
    LET cleared == IF b \in TypeBays \ {Current(d, s)} THEN Emptied(d, {b}) ELSE d
        moved == IF b \in TypeBays /\ Current(d, s) \notin {b, None}
                 THEN Moved(cleared, Current(d, s), b) ELSE cleared
    IN  [moved EXCEPT !.bays = @ \cup {b}, !.mods[b] = hw[s]]

-----------------------------------------------------------------------------
(* Its port, as in PortSync.                                               *)

Listed(s) == got[s] \in {"own", "nomac"}
MacOf(s) == IF got[s] = "own" THEN hw[s] ELSE None

\* Mutant: ports are matched by name alone.
MatchesNone(d, mac) == {n \in DOMAIN d.ifc : mac # mac}

Matches(d, mac) == {n \in DOMAIN d.ifc : mac # None /\ d.ifc[n].mac = mac}

\* By MAC, else the interface of the port's name, which may be yet to be made.
PortMatches(d, s) ==
    IF Matches(d, MacOf(s)) = {} THEN {s} ELSE Matches(d, MacOf(s))

Clash(d, s, m) == m # s /\ s \in DOMAIN d.ifc
Ambiguous(d, s, m) == Clash(d, s, m) /\ Carries(d, s) /\ Carries(d, m)

NewIface == [bay |-> Device, data |-> None, mac |-> None]

\* src becomes port s of the module in bay b; what held that name is dropped.
Become(d, src, s, b) ==
    LET old == IF src \in DOMAIN d.ifc THEN d.ifc[src] ELSE NewIface
        mac == IF MacOf(s) = None THEN old.mac ELSE MacOf(s)
    IN  [d EXCEPT !.ifc = [n \in (DOMAIN d.ifc \ {src}) \cup {s} |->
            IF n = s THEN [old EXCEPT !.bay = b, !.mac = mac] ELSE d.ifc[n]]]

\* _sync_interface for the match m (s itself when nothing matched).
Ported(d, s, b, m) ==
    IF Ambiguous(d, s, m) THEN d
    ELSE Become(d, IF Clash(d, s, m) /\ Carries(d, s) THEN s ELSE m, s, b)

\* The interfaces of the module its adapter does not report are dropped.
Trimmed(d, s, b) ==
    [d EXCEPT !.ifc = Restrict(d.ifc, DOMAIN d.ifc \ (In(d, b) \ {s}))]

-----------------------------------------------------------------------------
\* A device as it was entered, with or without the bays of its type.
Init ==
    /\ hw \in Layouts
    /\ \E B \in {{}, TypeBays} :
          dev = [bays |-> B, mods |-> [b \in Bays |-> None],
                 ifc |-> [n \in {} |-> NewIface]]
    /\ pc = "idle" /\ left = {} /\ desired = {} /\ skipped = {}
    /\ got = [s \in Slots |-> "gone"] /\ before = dev
    /\ changes = 0 /\ faults = 0

\* What humans do between two syncs.
Resting == pc \in {"idle", "done"}
ByHuman ==
    /\ Resting /\ changes < MaxChanges
    /\ changes' = changes + 1 /\ pc' = "idle"
    /\ UNCHANGED <<got, left, desired, skipped, before, faults>>

\* Cards are added, removed, moved or exchanged.
Rearrange ==
    /\ ByHuman
    /\ hw' \in Layouts \ {hw}
    /\ UNCHANGED dev

\* An interface is entered, of the device or with a new module in a free bay.
Enter(n, b) ==
    /\ ByHuman
    /\ n \notin DOMAIN dev.ifc
    /\ b = Device \/ (b \in dev.bays \cap TypeBays /\ dev.mods[b] = None)
    /\ \E mac \in Cards \cup {None} :
          dev' = [dev EXCEPT
              !.mods = [c \in Bays |-> IF c = b THEN Hand ELSE dev.mods[c]],
              !.ifc = [m \in DOMAIN dev.ifc \cup {n} |->
                          IF m = n THEN [bay |-> b, data |-> None, mac |-> mac]
                                   ELSE dev.ifc[m]]]
    /\ UNCHANGED hw

\* The interface gets a cable or an address.
Connect(n) ==
    /\ ByHuman
    /\ n \in DOMAIN dev.ifc /\ ~Carries(dev, n)
    /\ LET t == IF dev.ifc[n].mac = None THEN n ELSE dev.ifc[n].mac
       IN  /\ \A m \in DOMAIN dev.ifc : dev.ifc[m].data # t
           /\ dev' = [dev EXCEPT !.ifc[n].data = t]
    /\ UNCHANGED hw

Full == \A s \in Slots : got[s] \in {"own", "gone"}
ReadAll == \A s \in Slots : got[s] # "unread"

\* The bays of the type are created, best effort and at once; then the
\* transaction begins and the adapters are read in it.
BeginSync ==
    /\ Resting
    /\ got' \in {g \in [Slots -> Reads \cup {"gone"}] :
                    \A s \in Slots : (g[s] = "gone") = (hw[s] = None)}
    /\ \E made \in SUBSET (TypeBays \ dev.bays) :
          /\ dev' = [dev EXCEPT !.bays = @ \cup made]
          /\ IF Full' /\ TypeBays \subseteq dev.bays \cup made THEN UNCHANGED faults
             ELSE faults < MaxFaults /\ faults' = faults + 1
    /\ left' = {s \in Slots : got'[s] \notin {"gone", "unread"}}
    /\ before' = dev' /\ desired' = {} /\ skipped' = {}
    /\ pc' = "adapters"
    /\ UNCHANGED <<hw, changes>>

\* One round of the loop of _sync_network_adapters.
SyncAdapter ==
    /\ pc = "adapters"
    /\ \E s \in left : \E b \in {BayFor(dev, s)} : \E d \in {Housed(dev, s, b)} :
          /\ \A t \in left \ {s} : Precedes(s, t)
          /\ \/ ~Listed(s) /\ dev' = d /\ UNCHANGED skipped
             \/ /\ Listed(s)
                /\ \E m \in PortMatches(d, s) :
                      /\ dev' = Trimmed(Ported(d, s, b, m), s, b)
                      /\ skipped' = IF Ambiguous(d, s, m) THEN skipped \cup {s}
                                                          ELSE skipped
          /\ desired' = desired \cup {b}
          /\ left' = left \ {s}
    /\ UNCHANGED <<hw, pc, got, before, changes, faults>>

\* Mutant: the state before 0.3.6, an unread adapter is taken for a removed one.
GoneUnread == {b \in dev.bays \ desired : desired # {} /\ (b \in NicBays \/ IsPlugin(dev, b))}

\* Mutant: only modules with ports are cleaned up.
GonePorts == {b \in dev.bays \ desired : ReadAll /\ desired # {} /\ IsPlugin(dev, b)}

\* The bays of adapters that are gone; none on a partial or empty read.
Gone == {b \in dev.bays \ desired : ReadAll /\ desired # {}
                                    /\ (b \in NicBays \/ IsPlugin(dev, b))}

\* Mutant: a bay is deleted without its module.
FinishBaysOnly ==
    /\ pc = "adapters" /\ left = {}
    /\ dev' = [dev EXCEPT !.bays = @ \ (Gone \cap NicBays)]
    /\ pc' = "done"
    /\ UNCHANGED <<hw, got, left, desired, skipped, before, changes, faults>>

\* The clean-up, then the sync commits.
Finish ==
    /\ pc = "adapters" /\ left = {}
    /\ dev' = [Emptied(dev, Gone) EXCEPT !.bays = @ \ (Gone \cap NicBays)]
    /\ pc' = "done"
    /\ UNCHANGED <<hw, got, left, desired, skipped, before, changes, faults>>

\* Anything that raises in the transaction rolls all of it back.
Abort ==
    /\ pc = "adapters" /\ faults < MaxFaults /\ faults' = faults + 1
    /\ dev' = before /\ pc' = "idle"
    /\ left' = {} /\ desired' = {} /\ skipped' = {}
    /\ UNCHANGED <<hw, got, before, changes>>

Next ==
    \/ BeginSync \/ SyncAdapter \/ Finish \/ Abort
    \/ Rearrange
    \/ \E n \in Foreign, b \in TypeBays \cup {Device} : Enter(n, b)
    \/ \E n \in Names : Connect(n)

Spec == Init /\ [][Next]_vars

\* The server is synced again and again, and a sync that began goes on.
FairSpec == Spec /\ WF_vars(BeginSync \/ SyncAdapter \/ Finish)

-----------------------------------------------------------------------------
\* Types, and the database's references: modules are in bays of the device,
\* and interfaces in its modules.
DeviceOK(d) ==
    /\ DOMAIN d = {"bays", "mods", "ifc"}
    /\ d.bays \subseteq Bays
    /\ d.mods \in [Bays -> Cards \cup {Hand, None}]
    /\ \A b \in Bays \ d.bays : d.mods[b] = None
    /\ DOMAIN d.ifc \subseteq Names
    /\ \A n \in DOMAIN d.ifc : /\ d.ifc[n] \in Iface
                               /\ d.ifc[n].bay # Device => d.mods[d.ifc[n].bay] # None

TypeOK ==
    /\ hw \in Layouts /\ DeviceOK(dev) /\ DeviceOK(before)
    /\ pc \in {"idle", "adapters", "done"}
    /\ got \in [Slots -> Reads \cup {"gone"}]
    /\ left \subseteq Slots /\ desired \subseteq dev.bays /\ skipped \subseteq Slots
    /\ changes \in 0..MaxChanges /\ faults \in 0..MaxFaults

\* The interfaces recorded with a card's MAC.
Holders(d, card) == {n \in DOMAIN d.ifc : card # None /\ d.ifc[n].mac = card}

Kept(d) == {d.ifc[n].data : n \in DOMAIN d.ifc} \ {None}

\* A cable or address is lost only with an adapter that is gone for certain:
\* every adapter was read, its slot is empty, its card is in no slot that was
\* read in full (when no second interface has its MAC), and nobody had entered
\* its module by hand (sync.py 480-500, 664-694).
DataLostOnlyWithGoneCard ==
    pc = "done" =>
        \A n \in DOMAIN before.ifc : before.ifc[n].data \notin Kept(dev) \cup {None} =>
            LET i == before.ifc[n]
            IN  /\ ReadAll
                /\ i.bay # Device /\ before.mods[i.bay] # Hand
                /\ n \in Slots => got[n] = "gone"
                /\ Holders(before, i.mac) = {n} =>
                      \A s \in Slots \ skipped : got[s] = "own" => hw[s] # i.mac

\* The cable of a card that is the only one recorded with its MAC stays with
\* the card when it changes slots, bays or interface names -- unless another
\* adapter's port takes that interface's name (sync.py 463-530, 640-648).
DataFollowsCard ==
    pc = "done" =>
        \A s \in Slots \ skipped, n \in DOMAIN before.ifc :
            /\ got[s] = "own" /\ Holders(before, hw[s]) = {n}
            /\ Carries(before, n)
            /\ n \in Slots \ {s} => got[n] \in {"gone", "unread"}
            => s \in DOMAIN dev.ifc /\ dev.ifc[s].data = before.ifc[n].data

\* After a sync that read every adapter each has its module, its port is on
\* that module, and no bay of the plugin's own is left without its adapter
\* (sync.py 582-694).
Houses(d, s, b) == b \in d.bays /\ d.mods[b] = hw[s]
                   /\ b \in {NicBay(s)} \cup {c \in TypeBays : SlotOf[c] = s}
EachHoused ==
    pc = "done" /\ ReadAll /\ desired # {} =>
        /\ \A s \in Slots \ skipped : got[s] = "own" =>
              /\ s \in DOMAIN dev.ifc /\ dev.ifc[s].mac = hw[s]
              /\ Houses(dev, s, dev.ifc[s].bay)
        /\ \A b \in dev.bays \cap NicBays : \E s \in Slots : b = NicBay(s) /\ Houses(dev, s, b)

\* The adapter of slot s has its module, with its port and nothing else in it,
\* in a bay of the type or, if that has none for the slot, in the plugin's own.
SettledIn(d, s) ==
    /\ hw[s] # None /\ Holders(d, hw[s]) = {s}
    /\ Houses(d, s, d.ifc[s].bay) /\ In(d, d.ifc[s].bay) = {s}
    /\ d.ifc[s].bay = NicBay(s) => \A b \in TypeBays \cap d.bays : SlotOf[b] # s

\* A sync leaves such an adapter there with its data and its MAC, however it
\* and the others were read and whatever became of the others, which may trade
\* bays and ports in any order (sync.py 463-530, 640-694).
SettledStays ==
    pc = "done" => \A s \in Slots :
        SettledIn(before, s) => SettledIn(dev, s) /\ dev.ifc[s] = before.ifc[s]

\* Once cards and readings are stable every adapter is in the device-type bay
\* of its slot, with its port, unless a module with data or an ambiguous match
\* is in the way (sync.py 503-566).
InTypeBay(s) == \E b \in TypeBays : Houses(dev, s, b)
Hindered(s) ==
    \/ s \in skipped
    \/ Cardinality(Candidates(dev, s, FALSE)) # 1
         /\ \A b \in Candidates(dev, s, TRUE) :
               \/ Cardinality(Candidates(dev, s, TRUE)) # 1
               \/ dev.mods[b] = Hand /\ HoldsData(dev, b)
Settles == <>[](pc = "done" => \A s \in Slots : hw[s] # None => InTypeBay(s) \/ Hindered(s))

\* ... and syncs change nothing any more: no two of them pull a module or a
\* port back and forth.
Quiesces == <>[][dev' = dev]_vars

-----------------------------------------------------------------------------
(* What the repository's own texts claim, stated as they claim it.         *)

\* CHANGELOG 0.3.6: when an adapter is removed, its module is removed from the
\* model bay.
GoneCardLeaves ==
    pc = "done" /\ ReadAll /\ desired # {} =>
        \A b \in Bays : dev.mods[b] \in Cards => dev.mods[b] \in Range(hw)
=============================================================================
