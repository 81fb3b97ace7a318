---------------------------- MODULE PortSyncProofs ----------------------------
(* Proofs about PortSync: for any ports, foreign interfaces, MACs, outcomes  *)
(* of reads and number of syncs, no cable or address is lost other than with *)
(* a removed port, ports converge, data follows its MAC and a settled port   *)
(* stays.                                                                    *)
EXTENDS PortSync, TLAPS

-----------------------------------------------------------------------------
(* The constants and the report.                                           *)

LEMMA Constants ==
    /\ NoMac \notin Macs /\ NoData \notin Names /\ Ports \subseteq Names /\ MaxSyncs \in Nat
    /\ \A p \in Ports : OwnMac[p] \in Macs
    /\ \A p, q \in Ports : OwnMac[p] = OwnMac[q] => p = q
    /\ PortOrder[1] \in Ports /\ Outcomes \subseteq Reads
<1>1. OwnMac \in [Ports -> Macs] /\ IsInjective(OwnMac)
  BY PortsAssumption
<1>2. \A p, q \in Ports : OwnMac[p] = OwnMac[q] => p = q
  BY <1>1 DEF IsInjective
<1>3. PortOrder[1] \in Ports
  BY PortsAssumption DEF Ports, Range
<1> QED BY <1>1, <1>2, <1>3, PortsAssumption DEF Names

LEMMA MacIs ==
    ASSUME TypeOK, NEW p \in Ports
    PROVE  /\ ReportedMac(p) \in Macs \cup {NoMac}
           /\ read[p] # "shared" => ReportedMac(p) \in {OwnMac[p], NoMac}
BY Constants DEF ReportedMac, TypeOK

Rep == {p \in Ports : Reported(p)}
Finished == Rep \ (left \cup skipped)
Known(p) == ReportedMac(p) # NoMac

-----------------------------------------------------------------------------
(* The invariant of a sync that is under way.                              *)

Lists == left \subseteq Rep /\ skipped \subseteq Rep \ left

\* Only finished ports have been touched, or have taken the place of others.
Untouched ==
    \A n \in DOMAIN ifc \ Finished : n \in DOMAIN before /\ ifc[n] = before[n]

OnAdapter(i) == [i EXCEPT !.mod = "adapter"]

FinishedIs ==
    \A p \in Finished \cap DOMAIN ifc :
        IF Known(p)
        THEN /\ ifc[p].mod = "adapter" /\ ifc[p].macs = {ReportedMac(p)}
             /\ ifc[p].primary = ReportedMac(p)
        ELSE \/ ifc[p] = OnAdapter(NewIface)
             \/ p \in DOMAIN before /\ ifc[p] = OnAdapter(before[p])

\* A token stays where it was or goes to a reported port.
TokensKept ==
    \A n \in DOMAIN before : before[n].data # NoData =>
        \E l \in DOMAIN ifc : ifc[l].data = before[n].data /\ (l = n \/ l \in Rep)

FinishedThere == Distinct => \A p \in Finished : Known(p) => p \in DOMAIN ifc

\* The one interface that carries data and has the MAC of a finished port has
\* become that port, unless it is a reported port itself.
HolderGone ==
    \A p \in Finished, n \in DOMAIN before \ Rep :
        Known(p) /\ PrimaryOf(before, ReportedMac(p)) = {n} /\ before[n].data # NoData =>
            n \notin DOMAIN ifc

Followed ==
    Distinct =>
        \A p \in Rep, n \in DOMAIN before :
            /\ Known(p) /\ PrimaryOf(before, ReportedMac(p)) = {n}
            /\ before[n].data # NoData /\ n \in Foreign \cup {p}
            => /\ p \in left => n \in DOMAIN ifc /\ ifc[n] = before[n]
               /\ p \in Finished => p \in DOMAIN ifc /\ ifc[p].data = before[n].data

SettledKept ==
    (\A p \in Ports : read[p] # "shared") =>
        \A p \in Rep : Settled(before, p) =>
            /\ p \in DOMAIN ifc /\ ifc[p] = before[p]
            /\ \A n \in DOMAIN ifc \ {p} : OwnMac[p] \notin ifc[n].macs

During == /\ Lists /\ Untouched /\ FinishedIs /\ TokensKept /\ FinishedThere /\ HolderGone
          /\ Followed /\ SettledKept

Promises == DataLostOnlyWithRemovedPort /\ PortsConverge /\ DataFollowsMac /\ SettledStays

Inv == TypeOK /\ (pc = "ports" => During) /\ Promises

-----------------------------------------------------------------------------
(* What one port does.                                                     *)

\* Port p is skipped: it and a match both carry data.
Skips(p) ==
    /\ ifc' = ifc /\ skipped' = skipped \cup {p}

\* Interface src, or a new one, becomes port p.
Becomes(src, p) ==
    /\ skipped' = skipped
    /\ DOMAIN ifc' = (DOMAIN ifc \ {src}) \cup {p}
    /\ \A n \in DOMAIN ifc \ {src, p} : ifc'[n] = ifc[n]
    /\ src \in DOMAIN ifc => ifc'[p] = Updated(ifc[src], ReportedMac(p))
    /\ src \notin DOMAIN ifc => ifc'[p] = Updated(NewIface, ReportedMac(p))
    /\ src # p => src \in Match(ReportedMac(p)) /\ (p \in DOMAIN ifc => ~Carries(p))
    /\ src = p => \/ Match(ReportedMac(p)) = {} \/ p \in Match(ReportedMac(p))
                  \/ \E m \in Match(ReportedMac(p)) : ~Carries(m)

LEMMA StepIs ==
    ASSUME TypeOK, SyncPort
    PROVE  \E p \in left : /\ left' = left \ {p} /\ UNCHANGED <<pc, read, before, syncs>>
                           /\ Skips(p) \/ (\E src \in Names : Becomes(src, p))
<1>0. PICK p \in left :
        /\ \E m \in IF Match(ReportedMac(p)) = {} THEN {p} ELSE Match(ReportedMac(p)) :
              SyncInterface(p, m)
        /\ left' = left \ {p} /\ UNCHANGED <<pc, read, before, syncs>>
  BY DEF SyncPort
<1>1. PICK m :
        /\ m \in Match(ReportedMac(p)) \/ (m = p /\ Match(ReportedMac(p)) = {})
        /\ SyncInterface(p, m)
  BY <1>0
<1>2. m \in Names /\ p \in Names
  BY <1>1, Constants DEF Match, TypeOK
<1>3. ASSUME NEW src, ifc' = Become(src, p, ReportedMac(p))
      PROVE  /\ DOMAIN ifc' = (DOMAIN ifc \ {src}) \cup {p}
             /\ \A n \in DOMAIN ifc \ {src, p} : ifc'[n] = ifc[n]
             /\ src \in DOMAIN ifc => ifc'[p] = Updated(ifc[src], ReportedMac(p))
             /\ src \notin DOMAIN ifc => ifc'[p] = Updated(NewIface, ReportedMac(p))
  BY <1>3 DEF Become
<1>4. CASE ifc' = ifc /\ skipped' = skipped \cup {p}
  BY <1>0, <1>4 DEF Skips
<1>5. CASE m # p /\ ~Carries(m) /\ ifc' = Become(p, p, ReportedMac(p)) /\ UNCHANGED skipped
  <2>1. Becomes(p, p)
    BY <1>1, <1>3, <1>5 DEF Becomes
  <2> QED BY <1>0, <1>2, <2>1
<1>6. CASE /\ ~(m # p /\ p \in DOMAIN ifc /\ Carries(p))
           /\ ifc' = Become(m, p, ReportedMac(p)) /\ UNCHANGED skipped
  <2>1. Becomes(m, p)
    BY <1>1, <1>3, <1>6 DEF Becomes
  <2> QED BY <1>0, <1>2, <2>1
<1> QED BY <1>1, <1>4, <1>5, <1>6 DEF SyncInterface

LEMMA UpdatedIs ==
    ASSUME NEW i \in Iface, NEW mac \in Macs \cup {NoMac}
    PROVE  /\ Updated(i, mac) \in Iface /\ Updated(i, mac).data = i.data
           /\ Updated(i, mac).mod = "adapter"
           /\ mac # NoMac => Updated(i, mac).macs = {mac} /\ Updated(i, mac).primary = mac
           /\ mac = NoMac => Updated(i, mac) = OnAdapter(i)
BY DEF Updated, Iface, OnAdapter

LEMMA UpdatedSame ==
    ASSUME NEW i \in Iface, NEW mac, mac # NoMac, i.mod = "adapter", i.macs = {mac},
           i.primary = mac
    PROVE  Updated(i, mac) = i
<1>1. i = [mod |-> i.mod, data |-> i.data, macs |-> i.macs, primary |-> i.primary]
  BY DEF Iface
<1>2. Updated(i, mac) = [mod |-> "adapter", data |-> i.data, macs |-> {mac}, primary |-> mac]
  BY <1>1 DEF Updated
<1> QED BY <1>1, <1>2

LEMMA NewIfaceIs == NewIface \in Iface /\ NewIface.data = NoData
BY DEF NewIface, Iface

LEMMA OnAdapterIs ==
    ASSUME NEW i \in Iface
    PROVE  /\ OnAdapter(i).macs = i.macs /\ OnAdapter(i).primary = i.primary
           /\ OnAdapter(i).data = i.data /\ OnAdapter(i) \in Iface
           /\ i.mod = "adapter" => OnAdapter(i) = i
BY DEF OnAdapter, Iface

LEMMA ReportKept ==
    ASSUME read' = read
    PROVE  /\ Rep' = Rep /\ (Distinct <=> Distinct')
           /\ \A p : (ReportedMac(p))' = ReportedMac(p) /\ (Known(p))' = Known(p)
BY DEF Rep, Reported, Distinct, ReportedMac, Known

\* Port p becomes finished, by way of src.
Turn(p, src) ==
    /\ TypeOK /\ During /\ p \in left /\ src \in Names
    /\ left' = left \ {p} /\ UNCHANGED <<pc, read, before, syncs>>
    /\ Becomes(src, p)

\* What a match is, in the middle of a sync.
LEMMA MatchIs ==
    ASSUME TypeOK, NEW mac, NEW n \in Match(mac)
    PROVE  /\ mac # NoMac /\ n \in DOMAIN ifc /\ ifc[n] \in Iface
           /\ \/ ifc[n].primary = mac
              \/ /\ ifc[n].primary = NoMac /\ mac \in ifc[n].macs
                 /\ \A x \in DOMAIN ifc : ifc[x].primary # mac
BY DEF Match, TypeOK

LEMMA TurnIs ==
    ASSUME NEW p, NEW src, Turn(p, src)
    PROVE  /\ p \in Rep /\ p \notin Finished /\ p \in Ports /\ p \in Names
           /\ Finished' = Finished \cup {p} /\ p \notin skipped
           /\ ReportedMac(p) \in Macs \cup {NoMac}
           /\ p \in DOMAIN ifc => p \in DOMAIN before /\ ifc[p] = before[p]
           /\ ifc'[p] \in Iface /\ ifc'[p].mod = "adapter"
           /\ src \in DOMAIN ifc => ifc'[p].data = ifc[src].data
           /\ src \notin DOMAIN ifc => src = p
           /\ Known(p) => ifc'[p].macs = {ReportedMac(p)} /\ ifc'[p].primary = ReportedMac(p)
           /\ ~Known(p) => src = p
<1>1. p \in Rep /\ p \notin Finished /\ p \in Ports /\ p \in Names /\ p \notin skipped
  BY Constants DEF Turn, During, Lists, Finished, Rep
<1>2. Finished' = Finished \cup {p}
  BY <1>1, ReportKept DEF Turn, Becomes, Finished
<1>3. ReportedMac(p) \in Macs \cup {NoMac}
  BY <1>1, MacIs DEF Turn
<1>4. p \in DOMAIN ifc => p \in DOMAIN before /\ ifc[p] = before[p]
  BY <1>1 DEF Turn, During, Untouched
<1>5. src \in DOMAIN ifc => ifc[src] \in Iface
  BY DEF Turn, TypeOK
<1>6. src # p => src \in DOMAIN ifc /\ Known(p)
  BY MatchIs DEF Turn, Becomes, Known
<1>7. CASE src \in DOMAIN ifc
  <2>1. ifc'[p] = Updated(ifc[src], ReportedMac(p))
    BY <1>7 DEF Turn, Becomes
  <2> QED BY <1>1, <1>2, <1>3, <1>4, <1>5, <1>6, <1>7, <2>1, UpdatedIs DEF Known
<1>8. CASE src \notin DOMAIN ifc
  <2>1. ifc'[p] = Updated(NewIface, ReportedMac(p))
    BY <1>8 DEF Turn, Becomes
  <2> QED BY <1>1, <1>2, <1>3, <1>4, <1>6, <1>8, <2>1, NewIfaceIs, UpdatedIs DEF Known
<1> QED BY <1>7, <1>8

LEMMA TurnType ==
    ASSUME NEW p, NEW src, Turn(p, src)
    PROVE  TypeOK'
<1>1. DOMAIN ifc' \subseteq Names /\ \A n \in DOMAIN ifc' : ifc'[n] \in Iface
  BY TurnIs DEF Turn, Becomes, TypeOK
<1>2. left' \subseteq Ports /\ skipped' \subseteq Ports
  BY DEF Turn, Becomes, TypeOK
<1> QED BY <1>1, <1>2 DEF Turn, TypeOK

LEMMA TurnLists ==
    ASSUME NEW p, NEW src, Turn(p, src)
    PROVE  Lists' /\ Untouched'
<1>1. Lists'
  BY ReportKept DEF Turn, Becomes, During, Lists
<1>2. Untouched'
  <2>1. ASSUME NEW n \in DOMAIN ifc' \ Finished'
        PROVE  n \in DOMAIN before /\ ifc'[n] = before[n]
    <3>1. n # p /\ n \in DOMAIN ifc \ {src, p} /\ n \notin Finished
      BY <2>1, TurnIs DEF Turn, Becomes
    <3> QED BY <3>1 DEF Turn, Becomes, During, Untouched
  <2>2. before' = before
    BY DEF Turn
  <2> QED BY <2>1, <2>2 DEF Untouched
<1> QED BY <1>1, <1>2

LEMMA TurnFinishedIs ==
    ASSUME NEW p, NEW src, Turn(p, src)
    PROVE  FinishedIs'
<1> DEFINE Is(q) ==
        IF Known(q)
        THEN /\ ifc'[q].mod = "adapter" /\ ifc'[q].macs = {ReportedMac(q)}
             /\ ifc'[q].primary = ReportedMac(q)
        ELSE \/ ifc'[q] = OnAdapter(NewIface)
             \/ q \in DOMAIN before /\ ifc'[q] = OnAdapter(before[q])
<1>1. Is(p)
  <2>1. CASE Known(p)
    BY <2>1, TurnIs
  <2>2. CASE ~Known(p)
    <3>1. src = p /\ ReportedMac(p) = NoMac
      BY <2>2, TurnIs DEF Known
    <3>2. CASE p \in DOMAIN ifc
      <4>1. ifc'[p] = Updated(before[p], NoMac) /\ before[p] \in Iface /\ p \in DOMAIN before
        BY <3>1, <3>2, TurnIs DEF Turn, Becomes, TypeOK
      <4> QED BY <2>2, <4>1, UpdatedIs
    <3>3. CASE p \notin DOMAIN ifc
      <4>1. ifc'[p] = Updated(NewIface, NoMac)
        BY <3>1, <3>3 DEF Turn, Becomes
      <4> QED BY <2>2, <4>1, NewIfaceIs, UpdatedIs
    <3> QED BY <3>2, <3>3
  <2> QED BY <2>1, <2>2
<1>2. ASSUME NEW q \in Finished \cap DOMAIN ifc', q # p PROVE Is(q)
  <2>1. q \in Finished \cap DOMAIN ifc /\ ifc'[q] = ifc[q]
    BY <1>2 DEF Turn, Becomes
  <2> QED BY <2>1 DEF Turn, During, FinishedIs
<1>3. \A q \in Finished' \cap DOMAIN ifc' : Is(q)
  BY <1>1, <1>2, TurnIs
<1> HIDE DEF Is
<1>4. read' = read /\ before' = before
  BY DEF Turn
<1>5. \A q : (Known(q))' = Known(q) /\ (ReportedMac(q))' = ReportedMac(q)
  BY <1>4, ReportKept
<1> QED BY <1>3, <1>4, <1>5 DEF FinishedIs, Is

LEMMA TurnTokens ==
    ASSUME NEW p, NEW src, Turn(p, src)
    PROVE  TokensKept'
<1>1. ASSUME NEW l \in DOMAIN ifc, ifc[l].data # NoData
      PROVE  \E k \in DOMAIN ifc' : ifc'[k].data = ifc[l].data /\ (k = l \/ k = p)
  <2>1. CASE l = src
    BY <1>1, <2>1, TurnIs DEF Turn, Becomes
  <2>2. CASE l # src /\ l # p
    BY <1>1, <2>2 DEF Turn, Becomes
  <2>3. CASE l # src /\ l = p
    BY <1>1, <2>3 DEF Turn, Becomes, Carries
  <2> QED BY <2>1, <2>2, <2>3
<1>2. p \in Rep /\ Rep' = Rep /\ before' = before
  BY TurnIs, ReportKept DEF Turn
<1>3. ASSUME NEW n \in DOMAIN before, before[n].data # NoData
      PROVE  \E l \in DOMAIN ifc' : ifc'[l].data = before[n].data /\ (l = n \/ l \in Rep)
  <2>1. PICK l \in DOMAIN ifc : ifc[l].data = before[n].data /\ (l = n \/ l \in Rep)
    BY <1>3 DEF Turn, During, TokensKept
  <2> QED BY <1>1, <1>2, <1>3, <2>1
<1> QED BY <1>2, <1>3 DEF TokensKept

\* When ports report different MACs, nothing becomes of a finished one.
LEMMA FinishedStay ==
    ASSUME NEW p, NEW src, Turn(p, src), Distinct, NEW q \in Finished, Known(q)
    PROVE  q \in DOMAIN ifc /\ q \in DOMAIN ifc' /\ ifc'[q] = ifc[q]
<1>1. q \in DOMAIN ifc /\ ifc[q].primary = ReportedMac(q) /\ q # p
  BY TurnIs DEF Turn, During, FinishedThere, FinishedIs
<1>2. q # src
  <2>1. SUFFICES ASSUME q = src PROVE FALSE
    OBVIOUS
  <2>2. q \in Match(ReportedMac(p))
    BY <1>1, <2>1 DEF Turn, Becomes
  <2>3. ReportedMac(p) # NoMac /\ ifc[q].primary \in {ReportedMac(p), NoMac}
    BY <2>2, MatchIs DEF Turn
  <2>4. ReportedMac(q) = ReportedMac(p)
    BY <1>1, <2>3 DEF Known
  <2>5. p \in Ports /\ q \in Ports /\ Reported(p) /\ Reported(q)
    BY TurnIs DEF Finished, Rep
  <2> QED BY <1>1, <2>3, <2>4, <2>5 DEF Distinct
<1> QED BY <1>1, <1>2 DEF Turn, Becomes

\* The interface that alone had the MAC of p matches alone.
LEMMA OnlyHolder ==
    ASSUME NEW p, NEW src, Turn(p, src), Known(p), NEW n \in DOMAIN before,
           PrimaryOf(before, ReportedMac(p)) = {n}, before[n].data # NoData,
           n \in DOMAIN ifc, ifc[n] = before[n], n \notin Rep \/ Distinct
    PROVE  Match(ReportedMac(p)) = {n}
<1> DEFINE mac == ReportedMac(p)
<1>1. ifc[n].primary = mac /\ mac # NoMac
  BY DEF PrimaryOf, Known
<1>2. ASSUME NEW x \in DOMAIN ifc, ifc[x].primary = mac PROVE x = n
  <2>1. CASE x \notin Finished
    BY <1>2, <2>1 DEF Turn, During, Untouched, PrimaryOf
  <2>2. CASE x \in Finished /\ Known(x)
    <3>1. ReportedMac(x) = mac
      BY <1>2, <2>2 DEF Turn, During, FinishedIs
    <3>2. x # p /\ x \in Ports /\ p \in Ports /\ Reported(x) /\ Reported(p)
      BY <2>2, TurnIs DEF Finished, Rep
    <3>3. ~Distinct
      BY <1>1, <3>1, <3>2 DEF Distinct
    <3>4. n \notin DOMAIN ifc
      BY <2>2, <3>1, <3>3 DEF Turn, During, HolderGone
    <3> QED BY <3>4
  <2>3. CASE x \in Finished /\ ~Known(x)
    <3>1. \/ ifc[x] = OnAdapter(NewIface)
          \/ x \in DOMAIN before /\ ifc[x] = OnAdapter(before[x])
      BY <2>3 DEF Turn, During, FinishedIs
    <3>2. OnAdapter(NewIface).primary = NoMac
      BY DEF OnAdapter, NewIface
    <3>3. x \in DOMAIN before => before[x] \in Iface
      BY DEF Turn, TypeOK
    <3> QED BY <1>1, <1>2, <3>1, <3>2, <3>3, OnAdapterIs DEF PrimaryOf
  <2> QED BY <2>1, <2>2, <2>3
<1> HIDE DEF mac
<1>3. {x \in DOMAIN ifc : ifc[x].primary = mac} = {n}
  BY <1>1, <1>2
<1>4. Match(mac) = {n}
  BY <1>1, <1>3 DEF Match
<1> QED BY <1>4 DEF mac

LEMMA TurnThere ==
    ASSUME NEW p, NEW src, Turn(p, src)
    PROVE  FinishedThere'
<1>1. ASSUME Distinct, NEW q \in Finished', Known(q) PROVE q \in DOMAIN ifc'
  <2>1. CASE q = p
    BY <2>1 DEF Turn, Becomes
  <2>2. CASE q \in Finished
    BY <1>1, <2>2, FinishedStay
  <2> QED BY <2>1, <2>2, TurnIs
<1>2. (Distinct <=> Distinct') /\ \A q : (Known(q))' = Known(q)
  BY ReportKept DEF Turn
<1> QED BY <1>1, <1>2 DEF FinishedThere

LEMMA TurnGone ==
    ASSUME NEW p, NEW src, Turn(p, src)
    PROVE  HolderGone'
<1>1. ASSUME NEW q \in Finished', NEW n \in DOMAIN before \ Rep, Known(q),
             PrimaryOf(before, ReportedMac(q)) = {n}, before[n].data # NoData,
             n \in DOMAIN ifc'
      PROVE  FALSE
  <2>1. n # p /\ n \in DOMAIN ifc /\ n # src /\ n \notin Finished
    BY <1>1, TurnIs DEF Turn, Becomes, Finished
  <2>2. CASE q \in Finished
    BY <1>1, <2>1, <2>2 DEF Turn, During, HolderGone
  <2>3. CASE q = p
    <3>1. ifc[n] = before[n]
      BY <2>1 DEF Turn, During, Untouched
    <3>2. Match(ReportedMac(p)) = {n}
      BY <1>1, <2>1, <2>3, <3>1, OnlyHolder
    <3> QED BY <1>1, <2>1, <3>1, <3>2 DEF Turn, Becomes, Carries
  <2> QED BY <2>2, <2>3, TurnIs
<1>2. Rep' = Rep /\ before' = before /\ \A q : (Known(q))' = Known(q) /\ (ReportedMac(q))' = ReportedMac(q)
  BY ReportKept DEF Turn
<1>3. \A q : (PrimaryOf(before, ReportedMac(q)))' = PrimaryOf(before, ReportedMac(q))
  BY <1>2 DEF PrimaryOf
<1> QED BY <1>1, <1>2, <1>3 DEF HolderGone

LEMMA TurnFollowed ==
    ASSUME NEW p, NEW src, Turn(p, src)
    PROVE  Followed'
<1>1. ASSUME Distinct, NEW q \in Rep, NEW n \in DOMAIN before, Known(q),
             PrimaryOf(before, ReportedMac(q)) = {n}, before[n].data # NoData,
             n \in Foreign \cup {q}
      PROVE  /\ q \in left' => n \in DOMAIN ifc' /\ ifc'[n] = before[n]
             /\ q \in Finished' => q \in DOMAIN ifc' /\ ifc'[q].data = before[n].data
  <2>1. q \in left => n \in DOMAIN ifc /\ ifc[n] = before[n]
    BY <1>1 DEF Turn, During, Followed
  <2>2. q \in Finished => q \in DOMAIN ifc /\ ifc[q].data = before[n].data
    BY <1>1 DEF Turn, During, Followed
  <2>3. ASSUME q \in left' PROVE n \in DOMAIN ifc' /\ ifc'[n] = before[n]
    <3>1. q \in left /\ q # p
      BY <2>3 DEF Turn
    <3>2. n # p
      BY <1>1, <3>1, TurnIs, PortsAssumption
    <3>3. before[n].primary = ReportedMac(q)
      BY <1>1 DEF PrimaryOf
    <3>4. n # src
      <4>1. SUFFICES ASSUME n = src PROVE FALSE
        OBVIOUS
      <4>2. n \in Match(ReportedMac(p))
        BY <3>2, <4>1 DEF Turn, Becomes
      <4>3. ReportedMac(p) # NoMac /\ ifc[n].primary \in {ReportedMac(p), NoMac}
        BY <4>2, MatchIs DEF Turn
      <4>4. p \in Ports /\ q \in Ports /\ Reported(p) /\ Reported(q)
        BY <1>1, TurnIs DEF Rep
      <4> QED BY <1>1, <2>1, <3>1, <3>3, <4>3, <4>4 DEF Distinct, Known
    <3> QED BY <2>1, <3>1, <3>2, <3>4 DEF Turn, Becomes
  <2>4. ASSUME q \in Finished PROVE q \in DOMAIN ifc' /\ ifc'[q].data = before[n].data
    BY <1>1, <2>2, <2>4, FinishedStay
  <2>5. ASSUME q = p PROVE q \in DOMAIN ifc' /\ ifc'[q].data = before[n].data
    <3>1. n \in DOMAIN ifc /\ ifc[n] = before[n]
      BY <2>1, <2>5 DEF Turn
    <3>2. Match(ReportedMac(p)) = {n}
      BY <1>1, <2>5, <3>1, OnlyHolder
    <3>3. src = n
      BY <1>1, <3>1, <3>2 DEF Turn, Becomes, Carries
    <3> QED BY <2>5, <3>1, <3>3, TurnIs DEF Turn, Becomes
  <2> QED BY <2>3, <2>4, <2>5, TurnIs
<1>2. /\ Rep' = Rep /\ before' = before /\ (Distinct <=> Distinct')
      /\ \A q : (Known(q))' = Known(q) /\ (ReportedMac(q))' = ReportedMac(q)
  BY ReportKept DEF Turn
<1>3. \A q : (PrimaryOf(before, ReportedMac(q)))' = PrimaryOf(before, ReportedMac(q))
  BY <1>2 DEF PrimaryOf
<1> QED BY <1>1, <1>2, <1>3 DEF Followed

LEMMA TurnSettled ==
    ASSUME NEW p, NEW src, Turn(p, src)
    PROVE  SettledKept'
<1>1. ASSUME \A x \in Ports : read[x] # "shared", NEW q \in Rep, Settled(before, q)
      PROVE  /\ q \in DOMAIN ifc' /\ ifc'[q] = before[q]
             /\ \A n \in DOMAIN ifc' \ {q} : OwnMac[q] \notin ifc'[n].macs
  <2>1. /\ q \in DOMAIN ifc /\ ifc[q] = before[q]
        /\ \A n \in DOMAIN ifc \ {q} : OwnMac[q] \notin ifc[n].macs
    BY <1>1 DEF Turn, During, SettledKept
  <2>2. /\ before[q].mod = "adapter" /\ before[q].primary = OwnMac[q]
        /\ before[q].macs = {OwnMac[q]} /\ before[q] \in Iface
    BY <1>1 DEF Settled, Turn, TypeOK
  <2>3. q \in Ports /\ p \in Ports /\ OwnMac[q] \in Macs /\ NoMac \notin Macs
        /\ ReportedMac(p) \in {OwnMac[p], NoMac}
    BY <1>1, Constants, TurnIs, MacIs DEF Rep, Turn
  <2>4. src = p \/ (src \in Match(ReportedMac(p)) /\ src \in DOMAIN ifc /\ ReportedMac(p) # NoMac)
    BY MatchIs DEF Turn, Becomes
  <2>5. CASE q = p
    <3>1. src = p
      <4>1. SUFFICES ASSUME src # p PROVE FALSE
        OBVIOUS
      <4>2. src \in DOMAIN ifc /\ ReportedMac(p) = OwnMac[p]
            /\ ifc[src].primary = OwnMac[p] /\ ifc[src] \in Iface
        BY <2>1, <2>2, <2>3, <2>4, <2>5, <4>1, MatchIs DEF Turn
      <4>3. OwnMac[p] \in ifc[src].macs
        BY <2>3, <2>5, <4>2 DEF Iface
      <4> QED BY <2>1, <2>5, <4>1, <4>2, <4>3
    <3>2. ifc'[p] = Updated(before[p], ReportedMac(p))
      BY <2>1, <2>5, <3>1 DEF Turn, Becomes
    <3>3. ifc'[p] = before[p]
      <4>1. CASE ReportedMac(p) = NoMac
        BY <2>2, <3>2, <4>1, <2>5, UpdatedIs, OnAdapterIs
      <4>2. CASE ReportedMac(p) = OwnMac[p] /\ ReportedMac(p) # NoMac
        BY <2>2, <2>5, <3>2, <4>2, UpdatedSame
      <4> QED BY <2>3, <4>1, <4>2
    <3> QED BY <2>1, <2>5, <3>1, <3>3 DEF Turn, Becomes
  <2>6. CASE q # p
    <3>1. OwnMac[p] # OwnMac[q]
      BY <2>3, <2>6, Constants
    <3>2. q # src
      BY <2>1, <2>2, <2>3, <2>4, <2>6, <3>1, MatchIs DEF Turn
    <3>3. q \in DOMAIN ifc' /\ ifc'[q] = before[q]
      BY <2>1, <2>6, <3>2 DEF Turn, Becomes
    <3>4. OwnMac[q] \notin ifc'[p].macs
      <4>1. CASE Known(p)
        BY <2>3, <3>1, <4>1, TurnIs DEF Known
      <4>2. CASE ~Known(p)
        <5>1. src = p /\ ReportedMac(p) = NoMac
          BY <4>2, TurnIs DEF Known
        <5>2. CASE p \in DOMAIN ifc
          <6>1. ifc'[p] = OnAdapter(ifc[p]) /\ ifc[p] \in Iface
            BY <5>1, <5>2, UpdatedIs DEF Turn, Becomes, TypeOK
          <6> QED BY <2>1, <2>6, <5>2, <6>1, OnAdapterIs
        <5>3. CASE p \notin DOMAIN ifc
          BY <5>1, <5>3 DEF Turn, Becomes, Updated, NewIface
        <5> QED BY <5>2, <5>3
      <4> QED BY <4>1, <4>2
    <3> QED BY <2>1, <3>3, <3>4 DEF Turn, Becomes
  <2> QED BY <2>5, <2>6
<1>2. Rep' = Rep /\ before' = before /\ read' = read
  BY ReportKept DEF Turn
<1>3. \A q : Settled(before, q)' <=> Settled(before, q)
  BY <1>2 DEF Settled
<1> QED BY <1>1, <1>2, <1>3 DEF SettledKept

LEMMA SyncPortInv == Inv /\ SyncPort => Inv'
<1> SUFFICES ASSUME Inv, SyncPort PROVE Inv'
  OBVIOUS
<1>1. pc = "ports" /\ TypeOK /\ During
  BY DEF Inv, SyncPort
<1>2. PICK p \in left :
        /\ left' = left \ {p} /\ UNCHANGED <<pc, read, before, syncs>>
        /\ Skips(p) \/ (\E src \in Names : Becomes(src, p))
  BY <1>1, StepIs
<1>3. TypeOK' /\ During'
  <2>1. CASE Skips(p)
    <3>1. TypeOK'
      BY <1>1, <1>2, <2>1 DEF TypeOK, Skips
    <3>2. /\ Rep' = Rep /\ (Distinct <=> Distinct') /\ ifc' = ifc /\ before' = before /\ read' = read
          /\ \A q : (ReportedMac(q))' = ReportedMac(q) /\ (Known(q))' = Known(q)
      BY <1>2, <2>1, ReportKept DEF Skips
    <3>3. Finished' = Finished /\ Lists' /\ left' \subseteq left
      BY <1>1, <1>2, <2>1, <3>2 DEF Finished, Lists, Skips, During
    <3>4. Untouched' /\ FinishedIs'
      BY <1>1, <3>2, <3>3 DEF During, Untouched, FinishedIs
    <3>5. TokensKept' /\ FinishedThere' /\ HolderGone'
      BY <1>1, <3>2, <3>3 DEF During, TokensKept, FinishedThere, HolderGone, PrimaryOf
    <3>6. Followed'
      BY <1>1, <3>2, <3>3 DEF During, Followed, PrimaryOf
    <3>7. SettledKept'
      BY <1>1, <3>2, <3>3 DEF During, SettledKept, Settled
    <3> QED BY <3>1, <3>3, <3>4, <3>5, <3>6, <3>7 DEF During
  <2>2. ASSUME NEW src \in Names, Becomes(src, p) PROVE TypeOK' /\ During'
    <3>1. Turn(p, src)
      BY <1>1, <1>2, <2>2 DEF Turn
    <3> QED BY <3>1, TurnType, TurnLists, TurnFinishedIs, TurnTokens, TurnThere, TurnGone,
               TurnFollowed, TurnSettled DEF During
  <2> QED BY <1>2, <2>1, <2>2
<1>4. pc' = "ports"
  BY <1>1, <1>2
<1>5. Promises'
  BY <1>4 DEF Promises, DataLostOnlyWithRemovedPort, PortsConverge, DataFollowsMac, SettledStays
<1> QED BY <1>3, <1>5 DEF Inv

-----------------------------------------------------------------------------
(* The other steps.                                                        *)

LEMMA ReadAdapterInv == Inv /\ ReadAdapter => Inv'
<1> SUFFICES ASSUME Inv, ReadAdapter PROVE Inv'
  OBVIOUS
<1>1. /\ syncs < MaxSyncs /\ read' \in [Ports -> Outcomes] /\ left' = Rep' /\ pc' = "ports"
      /\ skipped' = {} /\ before' = ifc /\ syncs' = syncs + 1 /\ ifc' = ifc /\ TypeOK
  BY DEF ReadAdapter, Rep, Reported, Inv
<1>2. TypeOK'
  BY <1>1, Constants DEF TypeOK, Rep
<1>3. Finished' = {}
  BY <1>1 DEF Finished
<1>4. Lists' /\ Untouched' /\ FinishedIs' /\ TokensKept'
  BY <1>1, <1>3 DEF Lists, Untouched, FinishedIs, TokensKept
<1>5. FinishedThere' /\ HolderGone'
  BY <1>3 DEF FinishedThere, HolderGone
<1>6. Followed' /\ SettledKept'
  BY <1>1, <1>3 DEF Followed, SettledKept, Settled
<1>7. Promises'
  BY <1>1 DEF Promises, DataLostOnlyWithRemovedPort, PortsConverge, DataFollowsMac, SettledStays
<1> QED BY <1>2, <1>4, <1>5, <1>6, <1>7 DEF Inv, During

LEMMA CleanupInv == Inv /\ Cleanup => Inv'
<1> SUFFICES ASSUME Inv, Cleanup PROVE Inv'
  OBVIOUS
<1>1. /\ pc = "ports" /\ left = {} /\ ifc' = Restrict(ifc, DOMAIN ifc \ Dropped) /\ pc' = "done"
      /\ UNCHANGED <<left, read, skipped, before, syncs>> /\ TypeOK /\ During
  BY DEF Cleanup, Inv
<1>2. /\ DOMAIN ifc' = DOMAIN ifc \ Dropped /\ \A n \in DOMAIN ifc' : ifc'[n] = ifc[n]
  BY <1>1 DEF Restrict
<1>3. \A n \in Dropped : /\ n \in DOMAIN ifc /\ n \notin Rep /\ PortsComplete
                         /\ ifc[n].mod = "adapter"
  BY DEF Dropped, Stale, Rep
<1>4. Finished = Rep \ skipped /\ Finished \subseteq Ports
  BY <1>1 DEF Finished, Rep
<1>5. /\ Rep' = Rep /\ (Distinct <=> Distinct') /\ (PortsComplete <=> PortsComplete')
      /\ \A q : (ReportedMac(q))' = ReportedMac(q) /\ Reported(q)' = Reported(q)
  BY <1>1, ReportKept DEF PortsComplete, Reported
<1>6. TypeOK'
  BY <1>1, <1>2 DEF TypeOK
<1>7. DataLostOnlyWithRemovedPort'
  <2>1. ASSUME NEW n \in DOMAIN before, before[n].data # NoData,
               before[n].data \notin {ifc'[l].data : l \in DOMAIN ifc'}
        PROVE  /\ PortsComplete /\ before[n].mod = "adapter" /\ n \notin Rep
               /\ \A p \in Finished : ReportedMac(p) # NoMac =>
                     PrimaryOf(before, ReportedMac(p)) # {n}
    <3>1. PICK l \in DOMAIN ifc : ifc[l].data = before[n].data /\ (l = n \/ l \in Rep)
      BY <1>1, <2>1 DEF During, TokensKept
    <3>2. l \in Dropped
      BY <1>2, <2>1, <3>1
    <3>3. l = n /\ n \notin Rep /\ PortsComplete /\ ifc[n].mod = "adapter" /\ n \in DOMAIN ifc
      BY <1>3, <3>1, <3>2
    <3>4. ifc[n] = before[n]
      BY <1>1, <3>3 DEF During, Untouched, Finished
    <3> QED BY <1>1, <2>1, <3>3, <3>4 DEF During, HolderGone, Known
  <2>2. ASSUME NEW d \in Kept(before) \ Kept(ifc'), NEW n \in Holds(before, d)
        PROVE  n \in DOMAIN before /\ before[n].data # NoData
               /\ before[n].data \notin {ifc'[l].data : l \in DOMAIN ifc'}
    BY DEF Kept, Holds
  <2>3. ASSUME NEW d \in Kept(before) \ Kept(ifc'), NEW n \in Holds(before, d)
        PROVE  /\ PortsComplete /\ before[n].mod = "adapter" /\ ~(n \in Ports /\ Reported(n))
               /\ \A p \in Ports \ skipped : Reported(p) /\ ReportedMac(p) # NoMac =>
                     PrimaryOf(before, ReportedMac(p)) # {n}
    BY <1>4, <2>1, <2>2 DEF Rep
  <2>4. before' = before /\ skipped' = skipped /\ \A d : Holds(before, d)' = Holds(before, d)
    BY <1>1 DEF Holds
  <2>5. \A q : PrimaryOf(before, ReportedMac(q))' = PrimaryOf(before, ReportedMac(q))
    BY <1>1, <1>5 DEF PrimaryOf
  <2>6. Kept(before)' = Kept(before) /\ Kept(ifc)' = Kept(ifc')
    BY <1>1 DEF Kept
  <2> QED BY <1>5, <2>3, <2>4, <2>5, <2>6 DEF DataLostOnlyWithRemovedPort
<1>8. ASSUME Distinct, NEW p \in Ports \ skipped, Reported(p), ReportedMac(p) # NoMac
      PROVE  /\ p \in DOMAIN ifc' /\ ifc'[p] = ifc[p] /\ ifc'[p].mod = "adapter"
             /\ ifc'[p].macs = {ReportedMac(p)} /\ ifc'[p].primary = ReportedMac(p)
  <2>1. p \in Finished /\ Known(p) /\ p \notin Dropped
    BY <1>3, <1>4, <1>8 DEF Rep, Known
  <2>2. p \in DOMAIN ifc
    BY <1>1, <1>8, <2>1 DEF During, FinishedThere
  <2> QED BY <1>1, <1>2, <2>1, <2>2 DEF During, FinishedIs
<1>9. PortsConverge'
  BY <1>1, <1>5, <1>8 DEF PortsConverge
<1>10. DataFollowsMac'
  <2>1. ASSUME Distinct, NEW p \in Ports \ skipped, NEW n \in DOMAIN before, Reported(p),
               ReportedMac(p) # NoMac, PrimaryOf(before, ReportedMac(p)) = {n},
               before[n].data # NoData, n \in Foreign \cup {p}
        PROVE  p \in DOMAIN ifc' /\ ifc'[p].data = before[n].data
    <3>1. p \in Finished /\ p \in Rep /\ Known(p)
      BY <1>4, <2>1 DEF Rep, Known
    <3>2. p \in DOMAIN ifc /\ ifc[p].data = before[n].data
      BY <1>1, <2>1, <3>1 DEF During, Followed
    <3> QED BY <1>8, <2>1, <3>2
  <2>2. before' = before /\ skipped' = skipped
    BY <1>1
  <2>3. \A q : PrimaryOf(before, ReportedMac(q))' = PrimaryOf(before, ReportedMac(q))
    BY <1>1, <1>5 DEF PrimaryOf
  <2> QED BY <1>5, <2>1, <2>2, <2>3 DEF DataFollowsMac
<1>11. SettledStays'
  <2>1. ASSUME \A p \in Ports : read[p] # "shared", NEW p \in Ports, Settled(before, p), Reported(p)
        PROVE  p \in DOMAIN ifc' /\ ifc'[p] = before[p]
    <3>1. p \in Rep /\ p \notin Dropped
      BY <1>3, <2>1 DEF Rep
    <3>2. p \in DOMAIN ifc /\ ifc[p] = before[p]
      BY <1>1, <2>1, <3>1 DEF During, SettledKept
    <3> QED BY <1>2, <3>1, <3>2
  <2>2. before' = before /\ read' = read /\ \A q : Settled(before, q)' <=> Settled(before, q)
    BY <1>1 DEF Settled
  <2> QED BY <1>5, <2>1, <2>2 DEF SettledStays
<1> QED BY <1>1, <1>6, <1>7, <1>9, <1>10, <1>11 DEF Inv, Promises

\* Outside a sync nothing is promised yet.
LEMMA IdleInv == TypeOK /\ pc = "idle" => Inv
BY DEF Inv, Promises, DataLostOnlyWithRemovedPort, PortsConverge, DataFollowsMac, SettledStays

LEMMA AbortInv == Inv /\ (Abort \/ Rest) => Inv'
<1> SUFFICES ASSUME Inv, Abort \/ Rest PROVE Inv'
  OBVIOUS
<1>1. TypeOK' /\ pc' = "idle"
  BY DEF Abort, Rest, Inv, TypeOK
<1> QED BY <1>1 DEF Inv, Promises, DataLostOnlyWithRemovedPort, PortsConverge, DataFollowsMac,
                    SettledStays

LEMMA InitInv == Init => Inv
<1> SUFFICES ASSUME Init PROVE Inv
  OBVIOUS
<1>1. PICK S \in SUBSET Names : ifc \in [S -> Iface]
  BY DEF Init
<1>2. TypeOK /\ pc = "idle"
  BY <1>1, Constants DEF Init, TypeOK, Reads
<1> QED BY <1>2, IdleInv

LEMMA StutterInv == Inv /\ UNCHANGED vars => Inv'
<1> SUFFICES ASSUME Inv, UNCHANGED vars PROVE Inv'
  OBVIOUS
<1>1. /\ UNCHANGED <<ifc, pc, left, read, skipped, before, syncs>> /\ Rep' = Rep
      /\ (Distinct <=> Distinct') /\ (PortsComplete <=> PortsComplete')
      /\ \A q : /\ (ReportedMac(q))' = ReportedMac(q) /\ (Known(q))' = Known(q)
                /\ Reported(q)' = Reported(q)
  BY ReportKept DEF vars, PortsComplete, Reported
<1>2. Finished' = Finished
  BY <1>1 DEF Finished
<1>3. TypeOK'
  BY <1>1 DEF Inv, TypeOK
<1>4. pc = "ports" => During'
  <2> SUFFICES ASSUME pc = "ports" PROVE During'
    OBVIOUS
  <2>1. During
    BY DEF Inv
  <2>2. Lists' /\ Untouched' /\ FinishedIs'
    BY <1>1, <1>2, <2>1 DEF During, Lists, Untouched, FinishedIs
  <2>3. TokensKept' /\ FinishedThere' /\ HolderGone'
    BY <1>1, <1>2, <2>1 DEF During, TokensKept, FinishedThere, HolderGone, PrimaryOf
  <2>4. Followed' /\ SettledKept'
    BY <1>1, <1>2, <2>1 DEF During, Followed, SettledKept, Settled, PrimaryOf
  <2> QED BY <2>2, <2>3, <2>4 DEF During
<1>5. DataLostOnlyWithRemovedPort' /\ PortsConverge'
  BY <1>1 DEF Inv, Promises, DataLostOnlyWithRemovedPort, PortsConverge, Kept, Holds, PrimaryOf
<1>6. DataFollowsMac' /\ SettledStays'
  BY <1>1 DEF Inv, Promises, DataFollowsMac, SettledStays, Settled, PrimaryOf
<1> QED BY <1>1, <1>3, <1>4, <1>5, <1>6 DEF Inv, Promises

LEMMA NextInv == Inv /\ [Next]_vars => Inv'
BY ReadAdapterInv, SyncPortInv, CleanupInv, AbortInv, StutterInv DEF Next

\* The inductive invariant holds in every reachable state.
THEOREM AlwaysInv == Spec => []Inv
BY InitInv, NextInv, PTL DEF Spec

-----------------------------------------------------------------------------
\* Every reachable state has the types TypeOK gives it: interfaces hold their
\* primary MAC, and only reported ports are worked on.
THEOREM TypeCorrect == Spec => []TypeOK
<1>1. Inv => TypeOK
  BY DEF Inv
<1> QED BY <1>1, AlwaysInv, PTL

\* _sync_interface and the clean-up lose a cable or an address only with an
\* interface of the adapter that no port is named after, after a complete
\* read, and never the one whose MAC a reconciled port reported.
THEOREM OnlyWithRemovedPort == Spec => []DataLostOnlyWithRemovedPort
<1>1. Inv => DataLostOnlyWithRemovedPort
  BY DEF Inv, Promises
<1> QED BY <1>1, AlwaysInv, PTL

\* After a sync every reconciled port has its interface with its MAC alone,
\* when the MACs reported differ.
THEOREM Converge == Spec => []PortsConverge
<1>1. Inv => PortsConverge
  BY DEF Inv, Promises
<1> QED BY <1>1, AlwaysInv, PTL

\* The interface that alone has a port's MAC becomes that port with its cable.
THEOREM FollowsMac == Spec => []DataFollowsMac
<1>1. Inv => DataFollowsMac
  BY DEF Inv, Promises
<1> QED BY <1>1, AlwaysInv, PTL

\* A settled port is left exactly as it is, whatever the other ports do.
THEOREM Stays == Spec => []SettledStays
<1>1. Inv => SettledStays
  BY DEF Inv, Promises
<1> QED BY <1>1, AlwaysInv, PTL
=============================================================================
