--------------------------- MODULE SelectionProofs ---------------------------
(***************************************************************************)
(* The properties of Selection for any ports, nodes, units and bounds.     *)
(*                                                                         *)
(* OnlyConfirmed and SerialBound do not rest on what discovery found:      *)
(* IInv says what the comparison established about the device in hand, and *)
(* that no change of the bus alters it.                                    *)
(*                                                                         *)
(* ReadinessStands and GateStands compare two runs on a bus that does not  *)
(* change.  Known says of one run what its verdict, its discovery and its  *)
(* selection mean for the bus as it is; the two follow from the meanings.  *)
(***************************************************************************)
EXTENDS Selection, TLAPS, WellFoundedInduction

\* What later steps use of a summary.
FoundPlaces == \A d \in found : d.port \in Ports /\ d.serial \in Serials

Acquirable == {"enumerate", "open", "compare", "use"}

\* The selection passed the live profile of what it is for.
Passed ==
  pc \in Acquirable =>
    /\ op \in Ops
    /\ dmi.supported
    /\ op # "status" => dmi.confirmed
    /\ op \in KeyboardOps => selection \in [path : Nodes]
    /\ op \in AwElcOps => selection \in [port : Ports, serial : Serials]

\* A device is in hand from its enumeration on.
InHandType == pc \in {"open", "compare", "use"} => view \in Views

\* The comparison holds of the opened device.
Compared ==
  pc = "use" => IF op \in KeyboardOps THEN OpenedKeyboard ELSE OpenedAwElc

\* A hidraw node belongs to an interface of a plugged unit.
NodesBacked ==
  \A n \in Nodes :
    node[n] # None => /\ node[n] \in Ports \X Nat
                      /\ bus[node[n][1]] \in Units
                      /\ node[n][2] \in Interfaces[bus[node[n][1]]]

Places ==
  /\ bus \in [Ports -> Units \cup {None}]
  /\ node \in [Nodes -> (Ports \X Nat) \cup {None}]
  /\ NodesBacked
  /\ view \in Views \cup {None}
  /\ FoundPlaces
  /\ todo \subseteq Ports

IInv == Places /\ Passed /\ InHandType /\ Compared /\ OnlyConfirmed /\ SerialBound
-----------------------------------------------------------------------------
\* Nothing is discovered, acquired or written at first.
LEMMA Initially == Init => IInv
<1>. SUFFICES ASSUME Init PROVE IInv
  OBVIOUS
<1>1. Places
  BY DEF Init, Places, NodesBacked, FoundPlaces
<1>2. Passed /\ InHandType /\ Compared
  BY DEF Init, Passed, InHandType, Compared, Acquirable
<1>3. OnlyConfirmed /\ SerialBound
  BY DEF Init, OnlyConfirmed, SerialBound
<1>. QED
  BY <1>1, <1>2, <1>3 DEF IInv

\* What was written stays confirmed while it is not written again.
LEMMA WritesStay ==
  ASSUME OnlyConfirmed, SerialBound, UNCHANGED <<wrote, dmi>>
  PROVE  OnlyConfirmed' /\ SerialBound'
BY DEF OnlyConfirmed, SerialBound

\* What the process knows survives what the bus does to the device in hand.
LEMMA KnowledgeStays ==
  ASSUME Passed, InHandType, Compared, view \in Views \cup {None},
         UNCHANGED <<dmi, pc, op, selection>>,
         \/ UNCHANGED view
         \/ view' = [view EXCEPT !.alive = FALSE]
  PROVE  Passed' /\ InHandType' /\ Compared'
<1>1. Passed'
  BY DEF Passed, Acquirable
<1>2. InHandType'
  BY DEF InHandType, Views
<1>3. CASE pc = "use"
  <2>1. view \in Views
    BY <1>3 DEF InHandType
  <2>2. view'.unit = view.unit /\ view'.interface = view.interface
    BY <2>1 DEF Views
  <2>3. Compared'
    BY <1>3, <2>2 DEF Compared, OpenedKeyboard, OpenedAwElc
  <2>. QED
    BY <1>1, <1>2, <2>3
<1>4. CASE pc # "use"
  BY <1>1, <1>2, <1>4 DEF Compared
<1>. QED
  BY <1>3, <1>4

\* Plugging a unit in gives its interfaces nodes that were free.
LEMMA PlugStep ==
  ASSUME IInv, NEW p \in Ports, NEW u \in Units, Plug(p, u)
  PROVE  IInv'
<1>. USE SelectionAssumption
<1>1. bus' \in [Ports -> Units \cup {None}]
  BY DEF Plug, IInv, Places
<1>2. PICK at \in [Interfaces[u] -> {n \in Nodes : node[n] = None} \cup {None}] :
        node' = [n \in Nodes |->
                   IF \E i \in DOMAIN at : at[i] = n
                   THEN <<p, CHOOSE i \in DOMAIN at : at[i] = n>> ELSE node[n]]
  BY DEF Plug
<1>3. Interfaces[u] \subseteq Nat
  OBVIOUS
<1>4. ASSUME NEW n \in Nodes
      PROVE  /\ node'[n] \in (Ports \X Nat) \cup {None}
             /\ node'[n] # None =>
                  /\ node'[n] \in Ports \X Nat
                  /\ bus'[node'[n][1]] \in Units
                  /\ node'[n][2] \in Interfaces[bus'[node'[n][1]]]
  <2>1. CASE \E i \in DOMAIN at : at[i] = n
    <3>1. (CHOOSE i \in DOMAIN at : at[i] = n) \in Interfaces[u]
      BY <2>1
    <3>2. PICK k \in Interfaces[u] : node'[n] = <<p, k>>
      BY <2>1, <1>2, <3>1
    <3>3. /\ <<p, k>> \in Ports \X Nat
          /\ <<p, k>>[1] = p /\ <<p, k>>[2] = k
      BY <1>3
    <3>4. bus'[p] = u
      BY DEF Plug, IInv, Places
    <3>. QED
      BY <3>2, <3>3, <3>4
  <2>2. CASE ~ \E i \in DOMAIN at : at[i] = n
    <3>1. node'[n] = node[n]
      BY <2>2, <1>2
    <3>2. ASSUME node[n] # None
          PROVE  /\ node[n] \in Ports \X Nat
                 /\ bus'[node[n][1]] \in Units
                 /\ node[n][2] \in Interfaces[bus'[node[n][1]]]
      <4>1. /\ node[n] \in Ports \X Nat
            /\ bus[node[n][1]] \in Units
            /\ node[n][2] \in Interfaces[bus[node[n][1]]]
        BY <3>2 DEF IInv, Places, NodesBacked
      <4>2. bus[p] = None /\ bus' = [bus EXCEPT ![p] = u]
        BY DEF Plug
      <4>3. None \notin Units
        BY DEF SelectionAssumption
      <4>4. bus'[node[n][1]] = bus[node[n][1]]
        BY <4>1, <4>2, <4>3 DEF IInv, Places
      <4>. QED
        BY <4>1, <4>4
    <3>. QED
      BY <3>1, <3>2 DEF IInv, Places
  <2>. QED
    BY <2>1, <2>2
<1>5. node' \in [Nodes -> (Ports \X Nat) \cup {None}]
  BY <1>2, <1>4
<1>6. NodesBacked'
  BY <1>4 DEF NodesBacked
<1>7. UNCHANGED <<dmi, pc, op, selection, view, todo, found, wrote>>
  BY DEF Plug, Changed, search
<1>8. Places'
  BY <1>1, <1>5, <1>6, <1>7 DEF IInv, Places, FoundPlaces
<1>. QED
  BY <1>7, <1>8, KnowledgeStays, WritesStay DEF IInv, Places

\* An unplugged unit takes its nodes along, and the device in hand dies.
LEMMA GoneStep ==
  ASSUME IInv, NEW p \in Ports, Gone(p), UNCHANGED <<pc, op, selection, wrote>>,
         FoundPlaces', todo' \subseteq Ports
  PROVE  IInv'
<1>. USE SelectionAssumption
<1>1. bus' = [bus EXCEPT ![p] = None]
  BY DEF Gone
<1>2. bus' \in [Ports -> Units \cup {None}]
  BY <1>1 DEF IInv, Places
<1>3. node' = [n \in Nodes |->
                 IF node[n] # None /\ node[n][1] = p THEN None ELSE node[n]]
  BY DEF Gone
<1>4. node' \in [Nodes -> (Ports \X Nat) \cup {None}]
  BY <1>3 DEF IInv, Places
<1>5. NodesBacked'
  <2>. SUFFICES ASSUME NEW n \in Nodes, node'[n] # None
                PROVE  /\ node'[n] \in Ports \X Nat
                       /\ bus'[node'[n][1]] \in Units
                       /\ node'[n][2] \in Interfaces[bus'[node'[n][1]]]
    BY DEF NodesBacked
  <2>1. node'[n] = node[n] /\ node[n] # None /\ node[n][1] # p
    BY <1>3
  <2>2. /\ node[n] \in Ports \X Nat
        /\ bus[node[n][1]] \in Units
        /\ node[n][2] \in Interfaces[bus[node[n][1]]]
    BY <2>1 DEF IInv, Places, NodesBacked
  <2>3. bus'[node[n][1]] = bus[node[n][1]]
    BY <1>1, <2>1, <2>2 DEF IInv, Places
  <2>. QED
    BY <2>1, <2>2, <2>3
<1>6. UNCHANGED view \/ view' = [view EXCEPT !.alive = FALSE]
  BY DEF Gone
<1>7. view' \in Views \cup {None}
  <2>1. CASE UNCHANGED view
    BY <2>1 DEF IInv, Places
  <2>2. CASE view # None /\ view' = [view EXCEPT !.alive = FALSE]
    BY <2>2 DEF IInv, Places, Views
  <2>. QED
    BY <2>1, <2>2 DEF Gone
<1>8. Places'
  BY <1>2, <1>4, <1>5, <1>7 DEF Places
<1>9. UNCHANGED dmi
  BY DEF Gone, Changed
<1>10. Passed' /\ InHandType' /\ Compared'
  BY <1>6, <1>9, KnowledgeStays DEF IInv, Places
<1>11. OnlyConfirmed' /\ SerialBound'
  BY <1>9, WritesStay DEF IInv
<1>. QED
  BY <1>8, <1>10, <1>11 DEF IInv

\* A summary names its port and a serial, whatever it could not read.
LEMMA SummaryPlaces ==
  ASSUME IInv, NEW p \in Ports, NEW I, NEW lost, bus[p] # None
  PROVE  /\ Summary(p, I, lost).port \in Ports
         /\ Summary(p, I, lost).serial \in Serials
<1>1. bus[p] \in Units
  BY DEF IInv, Places
<1>2. Summary(p, I, lost).port = p
  BY DEF Summary
<1>3. Summary(p, I, lost).serial =
        IF "serial" \in lost THEN None ELSE Serial[bus[p]]
  BY DEF Summary
<1>. QED
  BY <1>1, <1>2, <1>3 DEF Serials

\* A step of the process leaves the bus and its nodes alone.
LEMMA ProcessStep ==
  ASSUME IInv, UNCHANGED world, view' \in Views \cup {None}, FoundPlaces',
         todo' \subseteq Ports
  PROVE  Places'
BY DEF IInv, Places, NodesBacked, world

\* The steps after which nothing is being acquired.
LEMMA AtRest ==
  ASSUME IInv, pc' \notin Acquirable, UNCHANGED world,
         view' \in Views \cup {None}, FoundPlaces', todo' \subseteq Ports,
         OnlyConfirmed', SerialBound'
  PROVE  IInv'
<1>1. Places'
  BY ProcessStep
<1>2. Passed' /\ InHandType' /\ Compared'
  BY DEF Passed, InHandType, Compared, Acquirable
<1>. QED
  BY <1>1, <1>2 DEF IInv

\* A run ends, however it went.
LEMMA EndStep ==
  ASSUME IInv, NEW how, NEW ready, End(how, ready), OnlyConfirmed', SerialBound'
  PROVE  IInv'
<1>1. pc' \notin Acquirable /\ UNCHANGED world /\ view' = None
  BY DEF End, Acquirable
<1>2. FoundPlaces' /\ todo' \subseteq Ports
  BY DEF End, FoundPlaces
<1>. QED
  BY <1>1, <1>2, AtRest

\* ... without a write.
LEMMA QuietEnd ==
  ASSUME IInv, NEW how, NEW ready, End(how, ready), UNCHANGED wrote
  PROVE  IInv'
<1>1. UNCHANGED <<wrote, dmi>>
  BY DEF End, world
<1>2. OnlyConfirmed' /\ SerialBound'
  BY <1>1, WritesStay DEF IInv
<1>. QED
  BY <1>2, EndStep

-----------------------------------------------------------------------------
LEMMA EnvironmentStep == IInv /\ Environment => IInv'
<1>. SUFFICES ASSUME IInv, Environment PROVE IInv'
  OBVIOUS
<1>1. ASSUME NEW p \in Ports, NEW u \in Units, Plug(p, u) PROVE IInv'
  BY <1>1, PlugStep
<1>2. ASSUME NEW p \in Ports, Unplug(p) PROVE IInv'
  <2>1. FoundPlaces' /\ todo' \subseteq Ports
    BY <1>2 DEF Unplug, search, IInv, Places, FoundPlaces
  <2>2. Gone(p) /\ UNCHANGED <<pc, op, selection, wrote>>
    BY <1>2 DEF Unplug
  <2>. QED
    BY <2>1, <2>2, GoneStep
<1>3. ASSUME NEW n \in Nodes, Grant(n) PROVE IInv'
  <2>1. UNCHANGED <<bus, node, dmi, pc, op, selection, view, todo, found, wrote>>
    BY <1>3 DEF Grant, search
  <2>2. Places'
    BY <2>1 DEF IInv, Places, NodesBacked, FoundPlaces
  <2>. QED
    BY <2>1, <2>2, KnowledgeStays, WritesStay DEF IInv, Places
<1>. QED
  BY <1>1, <1>2, <1>3 DEF Environment

\* Discovery collects ports and serials.
LEMMA DiscoverStep == IInv /\ Discover => IInv'
<1>. SUFFICES ASSUME IInv, Discover PROVE IInv'
  OBVIOUS
<1>1. CASE List
  <2>1. FoundPlaces' /\ todo' \subseteq Ports
    BY <1>1 DEF List, FoundPlaces
  <2>2. pc' \notin Acquirable /\ UNCHANGED <<world, view, wrote>>
    BY <1>1 DEF List, Acquirable
  <2>. QED
    BY <2>1, <2>2, AtRest, WritesStay DEF IInv, Places, world
<1>2. ASSUME NEW p \in Ports, Visit(p) PROVE IInv'
  <2>1. todo' \subseteq Ports
    BY <1>2 DEF Visit, IInv, Places
  <2>2. FoundPlaces'
    <3>1. CASE bus[p] = None
      BY <1>2, <3>1 DEF Visit, FoundPlaces, IInv, Places
    <3>2. CASE bus[p] # None
      <4>1. found' = found \cup {Whole(p)}
        BY <1>2, <3>2 DEF Visit
      <4>2. Whole(p).port \in Ports /\ Whole(p).serial \in Serials
        BY <3>2, SummaryPlaces DEF Whole
      <4>. QED
        BY <4>1, <4>2 DEF FoundPlaces, IInv, Places
    <3>. QED
      BY <3>1, <3>2
  <2>3. pc' \notin Acquirable /\ UNCHANGED <<world, view, wrote>>
    BY <1>2 DEF Visit, Acquirable
  <2>. QED
    BY <2>1, <2>2, <2>3, AtRest, WritesStay DEF IInv, Places, world
<1>3. ASSUME NEW p \in Ports, VisitTorn(p)
      PROVE  IInv'
  <2>1. Gone(p) /\ UNCHANGED <<pc, op, selection, wrote>>
    BY <1>3 DEF VisitTorn
  <2>2. todo' \subseteq Ports
    BY <1>3 DEF VisitTorn, IInv, Places
  <2>3. bus[p] # None
    BY <2>1 DEF Gone
  <2>4. \A I, lost : /\ Summary(p, I, lost).port \in Ports
                     /\ Summary(p, I, lost).serial \in Serials
    BY <2>3, SummaryPlaces
  <2>5. FoundPlaces'
    BY <1>3, <2>4 DEF VisitTorn, FoundPlaces, IInv, Places
  <2>. QED
    BY <2>1, <2>2, <2>5, GoneStep
<1>. QED
  BY <1>1, <1>2, <1>3 DEF Discover

\* A run begins with discovery, also after its gate.
LEMMA StartStep ==
  ASSUME IInv, NEW what, NEW why, Start(what, why)
  PROVE  IInv'
<1>1. pc' \notin Acquirable /\ UNCHANGED <<world, view, search>> /\ wrote' = None
  BY DEF Start, Acquirable
<1>2. OnlyConfirmed' /\ SerialBound'
  BY <1>1 DEF OnlyConfirmed, SerialBound
<1>. QED
  BY <1>1, <1>2, AtRest DEF IInv, Places, FoundPlaces, search

\* A selection of the right kind, on a system that passed its live profile.
LEMMA ChooseStep ==
  ASSUME IInv, NEW s, Choose(s), op \in Ops, op # "status" => dmi.confirmed,
         op \in KeyboardOps => s \in [path : Nodes],
         op \in AwElcOps => s \in [port : Ports, serial : Serials]
  PROVE  IInv'
<1>1. UNCHANGED <<world, op, search, view, wrote>> /\ pc' = "enumerate"
  BY DEF Choose
<1>2. Places'
  BY <1>1, ProcessStep DEF IInv, Places, FoundPlaces, search
<1>3. Passed'
  BY DEF Choose, Passed, world
<1>4. InHandType' /\ Compared'
  BY <1>1 DEF InHandType, Compared
<1>. QED
  BY <1>1, <1>2, <1>3, <1>4, WritesStay DEF IInv, world

LEMMA JudgeStep == IInv /\ Judge => IInv'
<1>. SUFFICES ASSUME IInv, Judge PROVE IInv'
  OBVIOUS
<1>1. CASE Answer
  BY <1>1, QuietEnd DEF Answer
<1>2. CASE Gate
  <2>1. pc' \notin Acquirable /\ UNCHANGED <<world, view, search, wrote>>
    BY <1>2 DEF Gate, Acquirable
  <2>. QED
    BY <2>1, AtRest, WritesStay DEF IInv, Places, FoundPlaces, search, world
<1>3. CASE SelectKeyboard
  <2>1. PICK n \in Nodes : KeyboardSelected(n) /\ Choose([path |-> n])
    BY <1>3 DEF SelectKeyboard
  <2>2. op \in Ops /\ op \notin AwElcOps /\ (op # "status" => op = "keyboard")
    BY <1>3 DEF SelectKeyboard, Ops, KeyboardOps, AwElcOps
  <2>3. op # "status" => dmi.confirmed
    BY <2>1, <2>2 DEF KeyboardSelected
  <2>. QED
    BY <2>1, <2>2, <2>3, ChooseStep
<1>4. CASE SelectAwElc
  <2>1. PICK d \in found :
          AwElcSelected(d) /\ Choose([port |-> d.port, serial |-> d.serial])
    BY <1>4 DEF SelectAwElc
  <2>2. op \in Ops /\ op \notin KeyboardOps
    BY <1>4 DEF SelectAwElc, Ops, KeyboardOps, AwElcOps
  <2>3. d.port \in Ports /\ d.serial \in Serials
    BY DEF IInv, Places, FoundPlaces
  <2>4. dmi.confirmed
    BY <2>1 DEF AwElcSelected
  <2>. QED
    BY <2>1, <2>2, <2>3, <2>4, ChooseStep
<1>5. CASE Refuse
  <2>1. PICK how \in {"gated", "unselected"} : End(how, {}) /\ UNCHANGED wrote
    BY <1>5 DEF Refuse
  <2>. QED
    BY <2>1, QuietEnd
<1>. QED
  BY <1>1, <1>2, <1>3, <1>4, <1>5 DEF Judge

\* Acquisition goes on with a device in hand.
LEMMA AcquireStepOn ==
  ASSUME IInv, pc \in Acquirable, view' \in Views,
         UNCHANGED <<world, op, search, selection, wrote>>,
         pc' \in {"open", "compare", "use"}, Compared'
  PROVE  IInv'
<1>1. Places'
  BY ProcessStep DEF IInv, Places, FoundPlaces, search
<1>2. Passed' /\ InHandType'
  BY DEF IInv, Passed, InHandType, Acquirable, world
<1>3. OnlyConfirmed' /\ SerialBound'
  BY WritesStay DEF IInv, world
<1>. QED
  BY <1>1, <1>2, <1>3 DEF IInv

\* The interface a node belongs to is one of a plugged unit.
LEMMA BehindType ==
  ASSUME IInv, NEW n \in Nodes, node[n] # None
  PROVE  Behind(n) \in Views
<1>1. node[n] \in Ports \X Nat /\ bus[node[n][1]] \in Units
  BY DEF IInv, Places, NodesBacked
<1>. QED
  BY <1>1 DEF Behind, InHand, Views

LEMMA AcquireStep == IInv /\ Acquire => IInv'
<1>. SUFFICES ASSUME IInv, Acquire PROVE IInv'
  OBVIOUS
<1>1. ASSUME op \in KeyboardOps, pc \in Acquirable
      PROVE  selection.path \in Nodes
  BY <1>1 DEF IInv, Passed
<1>2. ASSUME op \in AwElcOps, pc \in Acquirable
      PROVE  selection.port \in Ports /\ op \notin KeyboardOps
  BY <1>2 DEF IInv, Passed, KeyboardOps, AwElcOps
<1>3. CASE EnumerateKeyboard
  <2>1. pc \in Acquirable /\ op \in KeyboardOps
    BY <1>3 DEF EnumerateKeyboard, Acquiring, Acquirable
  <2>2. view' \in Views
    BY <1>1, <1>3, <2>1, BehindType DEF EnumerateKeyboard
  <2>3. Compared'
    BY <1>3 DEF EnumerateKeyboard, Compared
  <2>. QED
    BY <1>3, <2>1, <2>2, <2>3, AcquireStepOn DEF EnumerateKeyboard
<1>4. CASE OpenKeyboard
  <2>1. pc \in Acquirable /\ op \in KeyboardOps
    BY <1>4 DEF OpenKeyboard, Acquiring, Acquirable
  <2>2. view' \in Views
    BY <1>1, <1>4, <2>1, BehindType DEF OpenKeyboard
  <2>3. Compared'
    BY <1>4 DEF OpenKeyboard, Compared
  <2>. QED
    BY <1>4, <2>1, <2>2, <2>3, AcquireStepOn DEF OpenKeyboard
<1>5. CASE EnumerateAwElc
  <2>1. pc \in Acquirable /\ op \in AwElcOps
    BY <1>5 DEF EnumerateAwElc, Acquiring, Acquirable
  <2>2. bus[selection.port] \in Units
    BY <1>2, <1>5, <2>1 DEF EnumerateAwElc, IInv, Places
  <2>3. view' \in Views
    BY <1>2, <1>5, <2>1, <2>2 DEF EnumerateAwElc, InHand, Views
  <2>4. Compared'
    BY <1>5 DEF EnumerateAwElc, Compared
  <2>. QED
    BY <1>5, <2>1, <2>3, <2>4, AcquireStepOn DEF EnumerateAwElc
<1>6. CASE OpenAwElc
  <2>1. pc \in Acquirable /\ pc = "open"
    BY <1>6 DEF OpenAwElc, Acquiring, Acquirable
  <2>2. view' \in Views
    BY <1>6, <2>1 DEF OpenAwElc, IInv, InHandType
  <2>3. Compared'
    BY <1>6 DEF OpenAwElc, Compared
  <2>. QED
    BY <1>6, <2>1, <2>2, <2>3, AcquireStepOn DEF OpenAwElc
<1>7. CASE Compare
  <2>1. pc \in Acquirable /\ pc = "compare"
    BY <1>7 DEF Compare, Acquirable
  <2>2. view' \in Views
    BY <1>7, <2>1 DEF Compare, IInv, InHandType
  <2>3. Compared'
    BY <1>7 DEF Compare, Compared, OpenedKeyboard, OpenedAwElc
  <2>. QED
    BY <1>7, <2>1, <2>2, <2>3, AcquireStepOn DEF Compare
<1>8. CASE AcquireFails
  BY <1>8, QuietEnd DEF AcquireFails
<1>9. CASE Use
  <2>1. /\ wrote' = [op |-> op, unit |-> view.unit, interface |-> view.interface,
                     serial |-> IF op \in AwElcOps THEN selection.serial ELSE None]
        /\ UNCHANGED dmi
    BY <1>9 DEF Use, End, world
  <2>2. /\ dmi.supported
        /\ op # "status" => dmi.confirmed
        /\ op \in Ops
        /\ IF op \in KeyboardOps THEN OpenedKeyboard ELSE OpenedAwElc
    BY <1>9 DEF Use, IInv, Passed, Compared, Acquirable
  <2>3. OnlyConfirmed'
    BY <2>1, <2>2 DEF OnlyConfirmed, OpenedKeyboard, OpenedAwElc
  <2>4. SerialBound'
    <3>1. CASE op \in AwElcOps
      <4>1. op \notin KeyboardOps
        BY <3>1 DEF AwElcOps, KeyboardOps
      <4>. QED
        BY <2>1, <2>2, <3>1, <4>1 DEF SerialBound, OpenedAwElc
    <3>2. CASE op \notin AwElcOps
      BY <2>1, <3>2 DEF SerialBound
    <3>. QED
      BY <3>1, <3>2
  <2>. QED
    BY <1>9, <2>3, <2>4, EndStep DEF Use
<1>10. CASE UseFails
  BY <1>10, QuietEnd DEF UseFails
<1>. QED
  BY <1>3, <1>4, <1>5, <1>6, <1>7, <1>8, <1>9, <1>10 DEF Acquire

LEMMA Stutter == IInv /\ UNCHANGED vars => IInv'
BY DEF IInv, vars, world, search, past, Places, NodesBacked, FoundPlaces, Passed,
   InHandType, Compared, OpenedKeyboard, OpenedAwElc, OnlyConfirmed, SerialBound

LEMMA Inductive == IInv /\ [Next]_vars => IInv'
<1>. SUFFICES ASSUME IInv, Next PROVE IInv'
  BY Stutter
<1>1. CASE Doctor
  BY <1>1, StartStep DEF Doctor
<1>2. ASSUME NEW o \in Ops, Command(o) PROVE IInv'
  BY <1>2, StartStep DEF Command
<1>. QED
  BY <1>1, <1>2, EnvironmentStep, DiscoverStep, JudgeStep, AcquireStep DEF Next

LEMMA Invariance == Spec => []IInv
BY Initially, Inductive, PTL DEF Spec

(* Commands write to confirmed controllers only, however units are plugged,  *)
(* unplugged and renumbered between discovery and opening.                   *)
THEOREM WritesOnlyConfirmed == Spec => []OnlyConfirmed
<1>1. IInv => OnlyConfirmed
  BY DEF IInv
<1>. QED
  BY <1>1, Invariance, PTL

(* An AW-ELC whose serial was read is not mistaken for another one.          *)
THEOREM SerialsBind == Spec => []SerialBound
<1>1. IInv => SerialBound
  BY DEF IInv
<1>. QED
  BY <1>1, Invariance, PTL
-----------------------------------------------------------------------------
(* Types.                                                                    *)

\* A nonempty set of numbers has a least one, which is Least of it.
LEMMA LeastOf ==
  ASSUME NEW S, S \subseteq Nat, S # {}
  PROVE  Least(S) \in S /\ \A j \in S : Least(S) <= j
<1>. DEFINE R == {ss \in Nat \X Nat : ss[1] < ss[2]}
<1>1. IsWellFoundedOn(R, Nat)
  BY ONLY NatLessThanWellFounded DEF OpToRel
<1>2. PICK i \in S : \A j \in S : <<j, i>> \notin R
  <2>. HIDE DEF R
  <2>. QED
    BY <1>1, WFMin
<1>3. ASSUME NEW j \in S PROVE i <= j
  <2>1. ~(j < i)
    BY <1>2
  <2>. QED
    BY <2>1
<1>. QED
  BY <1>3 DEF Least

\* The evidence of a descriptor has a rank of its own.
LEMMA Ranks ==
  /\ Rank("mismatch") = 3
  /\ Rank("signature") = 4
  /\ Rank("hash") = 5
<1>1. DOMAIN Evidence = 1..5
  BY DEF Evidence
<1>2. /\ Evidence[1] = "not_found" /\ Evidence[2] = "unreadable"
      /\ Evidence[3] = "mismatch" /\ Evidence[4] = "signature"
      /\ Evidence[5] = "hash"
  BY DEF Evidence
<1>3. \A r \in 1..5 : r = 1 \/ r = 2 \/ r = 3 \/ r = 4 \/ r = 5
  OBVIOUS
<1>. QED
  BY <1>1, <1>2, <1>3 DEF Rank

\* Of any interfaces of a keyboard one is the best.
LEMMA BestInterface ==
  ASSUME NEW u \in Keyboards, NEW I \in SUBSET Interfaces[u], I # {}
  PROVE  /\ Best(u, I) \in I
         /\ \A j \in I : Better(u, Best(u, I), j)
<1>. USE SelectionAssumption
<1>. DEFINE D(e) == {i \in I : Descriptor[u][i] = e}
            Top(e) == \A j \in I : Rank(Descriptor[u][j]) <= Rank(e)
<1>1. I \subseteq Nat /\ \A i \in I : Descriptor[u][i] \in Readable
  BY DEF Units
<1>2. \A i \in I : Rank(Descriptor[u][i]) \in 3..5
  BY <1>1, Ranks DEF Readable
<1>3. PICK e \in Readable : D(e) # {} /\ Top(e)
  <2>1. CASE D("hash") # {}
    <3>1. Top("hash")
      BY <1>2, Ranks
    <3>. QED
      BY <2>1, <3>1 DEF Readable
  <2>2. CASE D("hash") = {} /\ D("signature") # {}
    <3>1. \A i \in I : Descriptor[u][i] \in {"mismatch", "signature"}
      BY <1>1, <2>2 DEF Readable
    <3>2. Top("signature")
      <4>. SUFFICES ASSUME NEW j \in I
                    PROVE  Rank(Descriptor[u][j]) <= Rank("signature")
        OBVIOUS
      <4>1. CASE Descriptor[u][j] = "mismatch"
        BY <4>1, Ranks
      <4>2. CASE Descriptor[u][j] = "signature"
        BY <4>2, Ranks
      <4>. QED
        BY <3>1, <4>1, <4>2
    <3>. QED
      BY <2>2, <3>2 DEF Readable
  <2>3. CASE D("hash") = {} /\ D("signature") = {}
    <3>1. \A i \in I : Descriptor[u][i] = "mismatch"
      BY <1>1, <2>3 DEF Readable
    <3>2. Top("mismatch")
      <4>. SUFFICES ASSUME NEW j \in I
                    PROVE  Rank(Descriptor[u][j]) <= Rank("mismatch")
        OBVIOUS
      <4>1. Descriptor[u][j] = "mismatch"
        BY <3>1
      <4>. QED
        BY <4>1, Ranks
    <3>. QED
      BY <3>1, <3>2 DEF Readable
  <2>. QED
    BY <2>1, <2>2, <2>3
<1>4. Least(D(e)) \in D(e) /\ \A j \in D(e) : Least(D(e)) <= j
  BY <1>1, <1>3, LeastOf
<1>5. ASSUME NEW j \in I PROVE Better(u, Least(D(e)), j)
  <2>1. Descriptor[u][Least(D(e))] = e /\ Rank(e) \in 3..5
    BY <1>2, <1>4
  <2>2. CASE Rank(Descriptor[u][j]) = Rank(e)
    <3>1. j \in D(e)
      BY <1>1, <1>3, <2>2, Ranks DEF Readable
    <3>. QED
      BY <1>4, <2>1, <2>2, <3>1 DEF Better
  <2>3. CASE Rank(Descriptor[u][j]) # Rank(e)
    <3>1. Rank(e) > Rank(Descriptor[u][j])
      <4>1. Rank(Descriptor[u][j]) <= Rank(e)
        BY <1>3
      <4>2. Rank(Descriptor[u][j]) \in 3..5
        BY <1>2
      <4>. QED
        BY <2>1, <2>3, <4>1, <4>2
    <3>. QED
      BY <2>1, <3>1 DEF Better
  <2>. QED
    BY <2>2, <2>3
<1>6. \E i \in I : \A j \in I : Better(u, i, j)
  BY <1>4, <1>5
<1>. QED
  BY <1>6 DEF Best

\* The nodes of a device, with the interfaces they belong to.
LEMMA HidrawType ==
  ASSUME IInv, NEW p \in Ports
  PROVE  HidrawsOf(p) \in SUBSET Hidraws
<1>. SUFFICES ASSUME NEW n \in Nodes, node[n] # None
              PROVE  [node |-> n, interface |-> node[n][2],
                      allowed |-> purpose = "doctor" /\ n \in granted] \in Hidraws
  BY DEF HidrawsOf
<1>1. node[n] \in Ports \X Nat
  BY DEF IInv, Places, NodesBacked
<1>2. node[n][2] \in Nat
  BY <1>1
<1>3. (purpose = "doctor" /\ n \in granted) \in BOOLEAN
  OBVIOUS
<1>. QED
  BY <1>2, <1>3 DEF Hidraws

LEMMA SummaryType ==
  ASSUME IInv, NEW p \in Ports, bus[p] # None,
         NEW I \in SUBSET Interfaces[bus[p]], NEW lost \in SUBSET Parts
  PROVE  Summary(p, I, lost) \in Summaries
<1>. USE SelectionAssumption
<1>. DEFINE u == bus[p]
            d == Summary(p, I, lost)
<1>1. u \in Units /\ Interfaces[u] \subseteq Nat /\ I \subseteq Nat
  BY DEF IInv, Places
<1>2. HidrawsOf(p) \in SUBSET Hidraws
  BY HidrawType
<1>3. I # {} => Least(I) \in Nat
  BY <1>1, LeastOf
<1>4. u \in Keyboards /\ I # {} =>
        Best(u, I) \in Nat /\ Descriptor[u][Best(u, I)] \in Readable
  BY <1>1, BestInterface
<1>. DEFINE E == {Evidence[r] : r \in DOMAIN Evidence}
<1>5. /\ Readable \subseteq E /\ "unreadable" \in E /\ "not_found" \in E
  <2>1. DOMAIN Evidence = 1..5
    BY DEF Evidence
  <2>2. /\ Evidence[1] = "not_found" /\ Evidence[2] = "unreadable"
        /\ Evidence[3] = "mismatch" /\ Evidence[4] = "signature"
        /\ Evidence[5] = "hash"
    BY DEF Evidence
  <2>3. 1 \in 1..5 /\ 2 \in 1..5 /\ 3 \in 1..5 /\ 4 \in 1..5 /\ 5 \in 1..5
    OBVIOUS
  <2>. QED
    BY <2>1, <2>2, <2>3 DEF Readable
<1>. DEFINE bare == I = {}
            kbd == u \in Keyboards
            ser == IF "serial" \in lost THEN None ELSE Serial[u]
            itf == IF bare THEN None ELSE Least(I)
            hid == {h \in HidrawsOf(p) : h.interface \in I}
            evi == IF bare \/ ~kbd THEN "not_found"
                   ELSE IF "descriptor" \in lost THEN "unreadable"
                   ELSE Descriptor[u][Best(u, I)]
            ifc == IF bare \/ ~kbd THEN None
                   ELSE IF "descriptor" \in lost THEN Least(I)
                   ELSE Best(u, I)
<1>6. ser \in Serials
  BY <1>1 DEF Serials
<1>7. itf \in Nat \cup {None} /\ hid \in SUBSET Hidraws
  BY <1>2, <1>3
<1>8. evi \in E
  <2>. HIDE DEF E
  <2>. QED
    BY <1>4, <1>5
<1>9. ifc \in Nat \cup {None}
  BY <1>3, <1>4
<1>10. d = [port |-> p, kind |-> IF kbd THEN "keyboard" ELSE "chassis",
            busnum |-> "busnum" \notin lost, serial |-> ser, interface |-> itf,
            hidraw |-> hid, evidence |-> evi, on |-> ifc]
  BY DEF Summary
<1>11. (IF kbd THEN "keyboard" ELSE "chassis") \in {"keyboard", "chassis"}
  OBVIOUS
<1>12. ("busnum" \notin lost) \in BOOLEAN
  OBVIOUS
<1>. HIDE DEF ser, itf, hid, evi, ifc, E, d
<1>13. [port |-> p, kind |-> IF kbd THEN "keyboard" ELSE "chassis",
        busnum |-> "busnum" \notin lost, serial |-> ser, interface |-> itf,
        hidraw |-> hid, evidence |-> evi, on |-> ifc] \in
       [port : Ports, kind : {"keyboard", "chassis"}, busnum : BOOLEAN,
        serial : Serials, interface : Nat \cup {None}, hidraw : SUBSET Hidraws,
        evidence : E, on : Nat \cup {None}]
  BY <1>6, <1>7, <1>8, <1>9, <1>11, <1>12
<1>14. d \in Summaries
  BY <1>10, <1>13 DEF Summaries, E
<1>. QED
  BY <1>14 DEF d

\* A run leaves a verdict.
LEMMA EndType ==
  ASSUME IInv, IInv', TypeOK, NEW how, NEW ready, End(how, ready),
         how \in {"judged", "gated", "unselected", "failed", "wrote"},
         ready \in SUBSET {"keyboard", "chassis"}, wrote' \in Writes \cup {None}
  PROVE  TypeOK'
<1>1. last' \in Verdicts \cup {None}
  BY DEF End, TypeOK, ProcessType, Verdicts
<1>2. HistoryType'
  BY <1>1 DEF End, TypeOK, HistoryType
<1>3. BusType'
  BY DEF End, TypeOK, BusType, world
<1>4. ProcessType' /\ found' \in SUBSET Summaries
  BY DEF End, TypeOK, ProcessType
<1>. QED
  BY <1>2, <1>3, <1>4 DEF TypeOK

\* The environment and discovery types, one lemma for each kind of step.
LEMMA EnvironmentType ==
  ASSUME IInv, IInv', TypeOK, Environment
  PROVE  TypeOK'
<1>. USE SelectionAssumption
<1>. DEFINE Outdated ==
              /\ UNCHANGED <<dmi, pc, op, purpose, todo, found, selection, wrote>>
              /\ steady' = FALSE /\ last' = None /\ before' = None
              /\ granted' \in SUBSET Nodes
              /\ changes' \in 0..MaxChanges
<1>1. Outdated
  <2>1. ASSUME NEW p \in Ports, NEW u \in Units, Plug(p, u) PROVE Outdated
    BY <2>1 DEF Plug, Changed, Outdate, search, TypeOK, BusType
  <2>2. ASSUME NEW p \in Ports, Unplug(p) PROVE Outdated
    BY <2>2 DEF Unplug, Gone, Changed, Outdate, search, TypeOK, BusType
  <2>3. ASSUME NEW n \in Nodes, Grant(n) PROVE Outdated
    BY <2>3 DEF Grant, Outdate, search, TypeOK, BusType
  <2>. QED
    BY <2>1, <2>2, <2>3 DEF Environment
<1>2. BusType'
  BY <1>1 DEF BusType, IInv, Places, TypeOK
<1>3. ProcessType'
  BY <1>1 DEF ProcessType, IInv, Places, TypeOK
<1>4. HistoryType'
  BY <1>1 DEF HistoryType, TypeOK
<1>. QED
  BY <1>1, <1>2, <1>3, <1>4 DEF TypeOK

LEMMA DiscoverType ==
  ASSUME IInv, IInv', TypeOK, Discover
  PROVE  TypeOK'
<1>. USE SelectionAssumption
<1>. DEFINE Searching ==
              /\ UNCHANGED <<dmi, op, purpose, selection, wrote>>
              /\ pc' = "visit"
              /\ granted' \in SUBSET Nodes
              /\ changes' \in 0..MaxChanges
              /\ steady' \in BOOLEAN
              /\ last' \in {last, None} /\ before' \in {before, None}
<1>1. Searching
  <2>1. CASE List
    BY <2>1 DEF List, world, past, TypeOK, BusType, HistoryType
  <2>2. ASSUME NEW p \in Ports, Visit(p) PROVE Searching
    BY <2>2 DEF Visit, world, past, TypeOK, BusType, HistoryType
  <2>3. ASSUME NEW p \in Ports, VisitTorn(p) PROVE Searching
    <3>1. changes' = changes + 1 /\ changes < MaxChanges /\ granted' \subseteq granted
      BY <2>3 DEF VisitTorn, Gone, Changed
    <3>2. granted' \in SUBSET Nodes /\ changes' \in 0..MaxChanges
      BY <3>1 DEF TypeOK, BusType
    <3>3. steady' = FALSE /\ last' = None /\ before' = None /\ UNCHANGED dmi
      BY <2>3 DEF VisitTorn, Gone, Changed, Outdate
    <3>4. UNCHANGED <<pc, op, purpose, selection, wrote>> /\ pc = "visit"
      BY <2>3 DEF VisitTorn
    <3>. QED
      BY <3>2, <3>3, <3>4
  <2>. QED
    BY <2>1, <2>2, <2>3 DEF Discover
<1>2. found' \in SUBSET Summaries
  <2>1. CASE List
    BY <2>1 DEF List
  <2>2. ASSUME NEW p \in Ports, Visit(p) PROVE found' \in SUBSET Summaries
    <3>1. bus[p] # None => Whole(p) \in Summaries
      BY SummaryType DEF Whole
    <3>. QED
      BY <2>2, <3>1 DEF Visit, TypeOK
  <2>3. ASSUME NEW p \in Ports, VisitTorn(p) PROVE found' \in SUBSET Summaries
    <3>1. PICK I \in SUBSET Interfaces[bus[p]], lost \in SUBSET Parts :
            found' = found \cup {Summary(p, I, lost)}
      BY <2>3 DEF VisitTorn
    <3>2. bus[p] # None
      BY <2>3 DEF VisitTorn, Gone
    <3>3. Summary(p, I, lost) \in Summaries
      BY <3>2, SummaryType
    <3>. QED
      BY <3>1, <3>3 DEF TypeOK
  <2>. QED
    BY <2>1, <2>2, <2>3 DEF Discover
<1>3. BusType'
  BY <1>1 DEF BusType, IInv, Places, TypeOK
<1>4. ProcessType'
  BY <1>1 DEF ProcessType, IInv, Places, TypeOK
<1>5. HistoryType'
  BY <1>1 DEF HistoryType, TypeOK
<1>. QED
  BY <1>2, <1>3, <1>4, <1>5 DEF TypeOK

\* A step of the process between two calls: no change of the bus, no verdict.
LEMMA OnwardType ==
  ASSUME IInv', TypeOK, UNCHANGED <<world, found, wrote>>,
         op' \in Ops \cup {None}, purpose' \in Purposes,
         pc' \in {"list", "enumerate", "open", "compare", "use"},
         selection' \in Selections \cup {None}, steady' \in {steady, TRUE},
         last' \in {last, None}, before' \in {before, last}
  PROVE  TypeOK'
<1>1. BusType'
  BY DEF TypeOK, BusType, world
<1>2. ProcessType'
  BY DEF TypeOK, ProcessType, IInv, Places
<1>3. HistoryType'
  BY DEF TypeOK, HistoryType
<1>. QED
  BY <1>1, <1>2, <1>3 DEF TypeOK

LEMMA TypeInductive ==
  ASSUME IInv, IInv', TypeOK, [Next]_vars
  PROVE  TypeOK'
<1>1. ASSUME NEW what \in Ops \cup {None}, NEW why \in Purposes, Start(what, why)
      PROVE  TypeOK'
  <2>1. BusType'
    BY <1>1 DEF Start, world, TypeOK, BusType
  <2>2. ProcessType' /\ found' \in SUBSET Summaries
    BY <1>1 DEF Start, search, TypeOK, ProcessType
  <2>3. HistoryType'
    BY <1>1 DEF Start, TypeOK, HistoryType
  <2>. QED
    BY <2>1, <2>2, <2>3 DEF TypeOK
<1>2. CASE Doctor
  BY <1>1, <1>2 DEF Doctor, Purposes
<1>3. ASSUME NEW o \in Ops, Command(o) PROVE TypeOK'
  BY <1>1, <1>3 DEF Command, Purposes
<1>4. CASE Judge
  <2>1. CASE Answer
    <3>1. PICK ready \in SUBSET {"keyboard", "chassis"} :
            End("judged", ready) /\ UNCHANGED wrote
      BY <2>1 DEF Answer
    <3>. QED
      BY <3>1, EndType DEF TypeOK, HistoryType
  <2>2. CASE Gate
    BY <2>2, OnwardType DEF Gate, search, past, Purposes, TypeOK, ProcessType
  <2>3. ASSUME NEW s, Choose(s), op \in Ops PROVE TypeOK'
    <3>1. s \in Selections
      <4>1. selection' = s /\ pc' = "enumerate" /\ UNCHANGED op
        BY <2>3 DEF Choose
      <4>2. op \in KeyboardOps \/ op \in AwElcOps
        BY <2>3 DEF Ops
      <4>. QED
        BY <4>1, <4>2 DEF IInv, Passed, Acquirable, Selections
    <3>. QED
      BY <2>3, <3>1, OnwardType DEF Choose, search, past, TypeOK, ProcessType
  <2>4. CASE SelectKeyboard
    BY <2>3, <2>4 DEF SelectKeyboard, Ops
  <2>5. CASE SelectAwElc
    BY <2>3, <2>5 DEF SelectAwElc, Ops
  <2>6. CASE Refuse
    BY <2>6, EndType DEF Refuse, TypeOK, HistoryType
  <2>. QED
    BY <1>4, <2>1, <2>2, <2>4, <2>5, <2>6 DEF Judge
<1>5. CASE Acquire
  <2>1. CASE EnumerateKeyboard \/ OpenKeyboard \/ EnumerateAwElc \/ OpenAwElc \/ Compare
    <3>1. /\ UNCHANGED <<world, found, wrote, op, purpose, selection, steady, last, before>>
          /\ pc' \in {"open", "compare", "use"}
      BY <2>1 DEF EnumerateKeyboard, OpenKeyboard, EnumerateAwElc, OpenAwElc, Compare,
         search, past
    <3>. QED
      BY <3>1, OnwardType DEF TypeOK, ProcessType
  <2>2. CASE AcquireFails \/ UseFails
    BY <2>2, EndType DEF AcquireFails, UseFails, TypeOK, HistoryType
  <2>3. CASE Use
    <3>1. op \in Ops /\ view \in Views
      BY <2>3 DEF Use, IInv, Passed, InHandType, Acquirable
    <3>2. (IF op \in AwElcOps THEN selection.serial ELSE None) \in Serials
      <4>1. CASE op \in AwElcOps
        BY <2>3, <4>1 DEF Use, IInv, Passed, Acquirable
      <4>. QED
        BY <4>1 DEF Serials
    <3>3. view.unit \in Units /\ view.interface \in Nat
      BY <3>1 DEF Views
    <3>4. wrote' \in Writes
      BY <2>3, <3>1, <3>2, <3>3 DEF Use, Writes
    <3>. QED
      BY <2>3, <3>4, EndType DEF Use
  <2>. QED
    BY <1>5, <2>1, <2>2, <2>3 DEF Acquire
<1>6. CASE UNCHANGED vars
  BY <1>6 DEF vars, world, search, past, TypeOK, BusType, ProcessType, HistoryType
<1>. QED
  BY <1>2, <1>3, <1>4, <1>5, <1>6, EnvironmentType, DiscoverType DEF Next

(* A run of alienrgb on a changing bus keeps to its types.                   *)
THEOREM TypeCorrect == Spec => []TypeOK
<1>. USE SelectionAssumption
<1>1. Init => TypeOK
  <2>. SUFFICES ASSUME Init PROVE TypeOK
    OBVIOUS
  <2>1. BusType
    BY DEF Init, BusType
  <2>2. ProcessType
    BY DEF Init, ProcessType, Purposes
  <2>3. HistoryType /\ found \in SUBSET Summaries
    BY DEF Init, HistoryType
  <2>. QED
    BY <2>1, <2>2, <2>3 DEF TypeOK
<1>2. IInv /\ IInv' /\ TypeOK /\ [Next]_vars => TypeOK'
  BY TypeInductive
<1>. QED
  BY <1>1, <1>2, Invariance, PTL DEF Spec
-----------------------------------------------------------------------------
(* What is known of a bus that has not changed.  ReadinessStands and         *)
(* GateStands compare two runs; the invariant says of each run by itself     *)
(* what its verdict means for the bus as it is.                              *)

KeyboardPorts == {p \in Ports : bus[p] \in Keyboards}
ChassisPorts  == {p \in Ports : bus[p] \in Chassis}

\* The interface of a unit with its best descriptor.
BestOf(u) == Best(u, Interfaces[u])

\* The best descriptor of a unit is the confirmed one.
Pinned(u) == Interfaces[u] # {} /\ Descriptor[u][BestOf(u)] = "hash"

\* The first interface of a unit is the controller.
Fronted(u) == Interfaces[u] = {} \/ Least(Interfaces[u]) \in {None, 0}

\* The nodes of the keyboard's controller at port k.
NodesOf(k) == {n \in Nodes : node[n] # None /\ node[n] = <<k, 0>>}

\* What the selection of an executor asks, said of the bus.
Fits(o) ==
  /\ dmi.supported
  /\ IF o \in KeyboardOps
     THEN /\ \E k \in Ports :
               /\ KeyboardPorts = {k}
               /\ Pinned(bus[k])
               /\ BestOf(bus[k]) = 0
               /\ NodesOf(k) # {}
          /\ o = "keyboard" => dmi.confirmed
     ELSE /\ dmi.confirmed
          /\ \E k \in Ports : ChassisPorts = {k}

\* What doctor asks, of a bus with one keyboard.
KeyboardServes(k) ==
  /\ dmi.supported
  /\ dmi.confirmed
  /\ Pinned(bus[k])
  /\ NodesOf(k) \cap granted # {}

ChassisServes ==
  /\ dmi.supported
  /\ dmi.confirmed
  /\ \E k \in Ports : ChassisPorts = {k} /\ Fronted(bus[k])

\* What a gate asks, of a bus with one keyboard.
Admits(o) ==
  /\ dmi.supported
  /\ IF o \in KeyboardOps
     THEN \E k \in Ports : KeyboardPorts = {k} /\ Pinned(bus[k])
     ELSE ChassisPorts # {} /\ (o = "power" => dmi.confirmed)

\* What was reached by a write.
Reached(o) ==
  IF o \in KeyboardOps
  THEN \E k \in Ports : KeyboardPorts = {k} /\ NodesOf(k) \cap granted # {}
  ELSE \E k \in Ports : ChassisPorts = {k} /\ Fronted(bus[k])

\* A verdict is true of the bus.
True(v) ==
  /\ v.how = "judged" =>
       /\ \A k \in Ports :
            KeyboardPorts = {k} => ("keyboard" \in v.ready <=> KeyboardServes(k))
       /\ "chassis" \in v.ready <=> ChassisServes
  /\ v.how = "gated" => ~Admits(v.run)
  /\ v.how = "unselected" => ~Fits(v.run)
  /\ v.how = "wrote" => Fits(v.run) /\ Reached(v.run)

VerdictsTrue == \A v \in Runs : True(v)

\* An interface has one node.
OneNode ==
  \A m, n \in Nodes : node[m] # None /\ node[m] = node[n] => m = n

\* Discovery has a summary of each device it has visited.
Plugged == IF dmi.supported THEN {p \in Ports : bus[p] # None} ELSE {}

Seen ==
  steady /\ pc = "visit" =>
    /\ todo \subseteq Plugged
    /\ found = {Whole(p) : p \in Plugged \ todo}

\* What is selected is still there.
Held ==
  steady /\ pc \in Acquirable =>
    /\ Fits(op)
    /\ op \in KeyboardOps =>
         /\ \E k \in Ports : KeyboardPorts = {k} /\ selection.path \in NodesOf(k)
         /\ pc \in {"compare", "use"} => selection.path \in granted
    /\ op \in AwElcOps =>
         /\ ChassisPorts = {selection.port}
         /\ pc # "enumerate" => view.unit = bus[selection.port]

Known == OneNode /\ Seen /\ Held /\ VerdictsTrue

-----------------------------------------------------------------------------
\* A verdict stays true while the bus is the same.
LEMMA TruthStays ==
  ASSUME UNCHANGED world, NEW v
  PROVE  True(v) => True(v)'
<1>1. UNCHANGED <<bus, node, granted, dmi>>
  BY DEF world
<1>2. KeyboardPorts' = KeyboardPorts /\ ChassisPorts' = ChassisPorts
  BY <1>1 DEF KeyboardPorts, ChassisPorts
<1>3. \A k : NodesOf(k)' = NodesOf(k)
  BY <1>1 DEF NodesOf
<1>4. Fits(v.run)' <=> Fits(v.run)
  BY <1>1, <1>2, <1>3 DEF Fits
<1>5. \A k : KeyboardServes(k)' <=> KeyboardServes(k)
  BY <1>1, <1>3 DEF KeyboardServes
<1>6. ChassisServes' <=> ChassisServes
  BY <1>1, <1>2 DEF ChassisServes
<1>7. Admits(v.run)' <=> Admits(v.run)
  BY <1>1, <1>2 DEF Admits
<1>8. Reached(v.run)' <=> Reached(v.run)
  BY <1>1, <1>2, <1>3 DEF Reached
<1>. QED
  BY <1>2, <1>4, <1>5, <1>6, <1>7, <1>8 DEF True

\* Summaries of different ports differ.
LEMMA OnePort ==
  ASSUME NEW S, NEW d, {Whole(p) : p \in S} = {d}
  PROVE  \E k \in S : S = {k} /\ d = Whole(k) /\ d.port = k
<1>1. \A p : Whole(p).port = p
  BY DEF Whole, Summary
<1>2. PICK k \in S : d = Whole(k)
  OBVIOUS
<1>3. \A p \in S : Whole(p) = d
  OBVIOUS
<1>. QED
  BY <1>1, <1>2, <1>3

Complete == IInv /\ Seen /\ steady /\ pc = "visit" /\ todo = {}

\* A complete discovery has a summary of each keyboard and each chassis.
LEMMA FoundOfKind ==
  ASSUME Complete, dmi.supported
  PROVE  /\ OfKind("keyboard") = {Whole(p) : p \in KeyboardPorts}
         /\ OfKind("chassis") = {Whole(p) : p \in ChassisPorts}
<1>. USE SelectionAssumption
<1>1. found = {Whole(p) : p \in {q \in Ports : bus[q] # None}}
  BY DEF Complete, Seen, Plugged
<1>2. \A p \in Ports : Whole(p).kind = IF bus[p] \in Keyboards
                                             THEN "keyboard" ELSE "chassis"
  BY DEF Whole, Summary
<1>3. \A p \in Ports : bus[p] # None <=> bus[p] \in Keyboards \/ bus[p] \in Chassis
  BY DEF Complete, IInv, Places, Units
<1>4. OfKind("keyboard") = {Whole(p) : p \in KeyboardPorts}
  BY <1>1, <1>2, <1>3 DEF OfKind, KeyboardPorts
<1>5. OfKind("chassis") = {Whole(p) : p \in ChassisPorts}
  BY <1>1, <1>2, <1>3 DEF OfKind, ChassisPorts
<1>. QED
  BY <1>4, <1>5

\* ... and none at all on another system.
LEMMA FoundNothing ==
  ASSUME Complete, ~dmi.supported
  PROVE  found = {}
BY DEF Complete, Seen, Plugged

\* What the summary of a keyboard says.
LEMMA KeyboardSummary ==
  ASSUME IInv, NEW k \in KeyboardPorts
  PROVE  /\ Whole(k).evidence = "hash" <=> Pinned(bus[k])
         /\ Pinned(bus[k]) => Whole(k).on = BestOf(bus[k])
<1>. USE SelectionAssumption
<1>1. bus[k] \in Keyboards
  BY DEF KeyboardPorts
<1>2. /\ Whole(k).evidence = IF Interfaces[bus[k]] = {} THEN "not_found"
                                   ELSE Descriptor[bus[k]][BestOf(bus[k])]
      /\ Whole(k).on = IF Interfaces[bus[k]] = {} THEN None ELSE BestOf(bus[k])
  BY <1>1 DEF Whole, Summary, BestOf
<1>. QED
  BY <1>2 DEF Pinned

\* Its hidraw nodes on interface 00 are the nodes of that interface.
LEMMA KeyboardZeros ==
  ASSUME IInv, NEW k \in KeyboardPorts, Pinned(bus[k]), purpose # "gate"
  PROVE  Zeros(Whole(k)) =
           {[node |-> n, interface |-> 0,
             allowed |-> purpose = "doctor" /\ n \in granted] : n \in NodesOf(k)}
<1>. DEFINE Row(n, i) == [node |-> n, interface |-> i,
                          allowed |-> purpose = "doctor" /\ n \in granted]
<1>1. k \in Ports /\ bus[k] \in Keyboards
  BY DEF KeyboardPorts
<1>2. Whole(k).hidraw = HidrawsOf(k)
  <2>1. Whole(k).hidraw = {h \in HidrawsOf(k) : h.interface \in Interfaces[bus[k]]}
    BY DEF Whole, Summary
  <2>2. \A n \in Nodes : node[n] # None /\ node[n][1] = k =>
          node[n][2] \in Interfaces[bus[k]]
    BY DEF IInv, Places, NodesBacked
  <2>3. \A h \in HidrawsOf(k) : h.interface \in Interfaces[bus[k]]
    BY <2>2 DEF HidrawsOf
  <2>. QED
    BY <2>1, <2>3
<1>3. HidrawsOf(k) =
        {Row(n, node[n][2]) : n \in {m \in Nodes : node[m] # None /\ node[m][1] = k}}
  BY DEF HidrawsOf
<1>4. ASSUME NEW n \in Nodes, node[n] # None
      PROVE  node[n][1] = k /\ node[n][2] = 0 <=> node[n] = <<k, 0>>
  <2>1. node[n] \in Ports \X Nat
    BY <1>4 DEF IInv, Places, NodesBacked
  <2>. QED
    BY <2>1
<1>5. \A n, i : Row(n, i).interface = i
  OBVIOUS
<1>. HIDE DEF Row
<1>6. Zeros(Whole(k)) = {Row(n, 0) : n \in NodesOf(k)}
  BY <1>2, <1>3, <1>4, <1>5 DEF Zeros, NodesOf
<1>. QED
  BY <1>6 DEF Row

\* doctor's first keyboard is the only one.
LEMMA KeyboardJudged ==
  ASSUME Complete, purpose = "doctor", NEW k \in Ports, KeyboardPorts = {k}
  PROVE  KeyboardReady <=> KeyboardServes(k)
<1>1. CASE ~dmi.supported
  BY <1>1 DEF KeyboardReady, KeyboardServes
<1>2. CASE dmi.supported
  <2>. DEFINE d == Whole(k)
  <2>1. OfKind("keyboard") = {d}
    BY <1>2, FoundOfKind
  <2>2. FirstOf({d}) = d
    <3>1. d.port \in Nat
      BY SelectionAssumption DEF Whole, Summary
    <3>. HIDE DEF d
    <3>. QED
      BY <3>1 DEF FirstOf
  <2>3. k \in KeyboardPorts /\ IInv
    BY DEF Complete
  <2>4. d.evidence = "hash" <=> Pinned(bus[k])
    BY <2>3, KeyboardSummary
  <2>5. ASSUME Pinned(bus[k])
        PROVE  (\E h \in Zeros(d) : h.allowed) <=> NodesOf(k) \cap granted # {}
    <3>. DEFINE Row(n) == [node |-> n, interface |-> 0,
                           allowed |-> purpose = "doctor" /\ n \in granted]
    <3>1. Zeros(d) = {Row(n) : n \in NodesOf(k)}
      BY <2>3, <2>5, KeyboardZeros
    <3>2. \A n : Row(n).allowed <=> n \in granted
      OBVIOUS
    <3>. HIDE DEF d, Row
    <3>. QED
      BY <3>1, <3>2
  <2>. HIDE DEF d
  <2>. QED
    BY <2>1, <2>2, <2>4, <2>5 DEF KeyboardReady, KeyboardServes
<1>. QED
  BY <1>1, <1>2

LEMMA ChassisJudged ==
  ASSUME Complete
  PROVE  ChassisReady <=> ChassisServes
<1>1. CASE ~dmi.supported
  BY <1>1 DEF ChassisReady, ChassisServes
<1>2. CASE dmi.supported
  <2>1. OfKind("chassis") = {Whole(p) : p \in ChassisPorts}
    BY <1>2, FoundOfKind
  <2>2. \A p : /\ Whole(p).busnum
               /\ Whole(p).interface =
                    IF Interfaces[bus[p]] = {} THEN None ELSE Least(Interfaces[bus[p]])
    BY DEF Whole, Summary
  <2>3. \A p : Whole(p).interface \in {None, 0} <=> Fronted(bus[p])
    BY <2>2 DEF Fronted
  <2>4. ASSUME ChassisReady PROVE ChassisServes
    <3>1. PICK d \in found : OfKind("chassis") = {d} /\ d.interface \in {None, 0}
      BY <2>4 DEF ChassisReady
    <3>2. PICK k \in ChassisPorts : ChassisPorts = {k} /\ d = Whole(k)
      BY <2>1, <3>1, OnePort
    <3>3. k \in Ports /\ Fronted(bus[k])
      BY <2>3, <3>1, <3>2 DEF ChassisPorts
    <3>. QED
      BY <2>4, <3>2, <3>3 DEF ChassisReady, ChassisServes
  <2>5. ASSUME ChassisServes PROVE ChassisReady
    <3>1. PICK k \in Ports : ChassisPorts = {k} /\ Fronted(bus[k])
      BY <2>5 DEF ChassisServes
    <3>2. OfKind("chassis") = {Whole(k)}
      BY <2>1, <3>1
    <3>3. Whole(k) \in found
      BY <3>2 DEF OfKind
    <3>. QED
      BY <2>2, <2>3, <2>5, <3>1, <3>2, <3>3 DEF ChassisReady, ChassisServes
  <2>. QED
    BY <2>4, <2>5
<1>. QED
  BY <1>1, <1>2

\* A gate that refuses looked at a bus on which it should.
LEMMA GateJudged ==
  ASSUME Complete, ~GatePasses
  PROVE  ~Admits(op)
<1>. SUFFICES ASSUME Admits(op) PROVE FALSE
  OBVIOUS
<1>1. dmi.supported
  BY DEF Admits
<1>2. CASE op \in KeyboardOps
  <2>1. PICK k \in Ports : KeyboardPorts = {k} /\ Pinned(bus[k])
    BY <1>2 DEF Admits
  <2>. DEFINE d == Whole(k)
  <2>2. OfKind("keyboard") = {d}
    BY <1>1, <2>1, FoundOfKind
  <2>3. FirstOf({d}) = d
    <3>1. d.port \in Nat
      BY SelectionAssumption DEF Whole, Summary
    <3>. HIDE DEF d
    <3>. QED
      BY <3>1 DEF FirstOf
  <2>4. d.evidence = "hash"
    BY <2>1, KeyboardSummary DEF Complete
  <2>5. op # "power"
    BY <1>2 DEF KeyboardOps
  <2>. HIDE DEF d
  <2>. QED
    BY <1>1, <1>2, <2>2, <2>3, <2>4, <2>5 DEF GatePasses
<1>3. CASE op \notin KeyboardOps
  <2>1. OfKind("chassis") # {}
    BY <1>1, <1>3, FoundOfKind DEF Admits
  <2>. QED
    BY <1>1, <1>3, <2>1 DEF GatePasses, Admits
<1>. QED
  BY <1>2, <1>3

\* The keyboard that is selected is the one the bus offers.
LEMMA KeyboardChosen ==
  ASSUME Complete, purpose = "fresh", dmi.supported, NEW n \in Nodes
  PROVE  KeyboardSelected(n) <=>
           /\ \E k \in Ports :
                /\ KeyboardPorts = {k}
                /\ Pinned(bus[k])
                /\ BestOf(bus[k]) = 0
                /\ NodesOf(k) = {n}
           /\ op = "keyboard" => dmi.confirmed
<1>1. OfKind("keyboard") = {Whole(p) : p \in KeyboardPorts}
  BY FoundOfKind
<1>2. ASSUME NEW k \in Ports, KeyboardPorts = {k}, Pinned(bus[k])
      PROVE  (\E h \in Zeros(Whole(k)) : Zeros(Whole(k)) = {h} /\ h.node = n)
               <=> NodesOf(k) = {n}
  <2>. DEFINE Row(m) == [node |-> m, interface |-> 0,
                         allowed |-> purpose = "doctor" /\ m \in granted]
              Z == Zeros(Whole(k))
  <2>1. Z = {Row(m) : m \in NodesOf(k)}
    BY <1>2, KeyboardZeros DEF Complete
  <2>2. \A m : Row(m).node = m
    OBVIOUS
  <2>. HIDE DEF Row, Z
  <2>3. ASSUME NEW h \in Z, Z = {h}, h.node = n PROVE NodesOf(k) = {n}
    <3>1. \A m \in NodesOf(k) : Row(m) = h
      BY <2>1, <2>3
    <3>2. \A m \in NodesOf(k) : m = n
      BY <2>2, <2>3, <3>1
    <3>3. NodesOf(k) # {}
      BY <2>1, <2>3
    <3>. QED
      BY <3>2, <3>3
  <2>4. ASSUME NodesOf(k) = {n} PROVE \E h \in Z : Z = {h} /\ h.node = n
    <3>1. Z = {Row(n)}
      BY <2>1, <2>4
    <3>. QED
      BY <2>2, <3>1
  <2>5. (\E h \in Z : Z = {h} /\ h.node = n) <=> NodesOf(k) = {n}
    BY <2>3, <2>4
  <2>. QED
    BY <2>5 DEF Z
<1>3. ASSUME KeyboardSelected(n)
      PROVE  \E k \in Ports :
               /\ KeyboardPorts = {k}
               /\ Pinned(bus[k])
               /\ BestOf(bus[k]) = 0
               /\ NodesOf(k) = {n}
  <2>1. PICK d \in found :
          /\ OfKind("keyboard") = {d} /\ d.evidence = "hash" /\ d.on = 0
          /\ \E h \in Zeros(d) : Zeros(d) = {h} /\ h.node = n
    BY <1>3 DEF KeyboardSelected
  <2>2. PICK k \in KeyboardPorts : KeyboardPorts = {k} /\ d = Whole(k)
    BY <1>1, <2>1, OnePort
  <2>3. k \in Ports
    BY DEF KeyboardPorts
  <2>4. Pinned(bus[k]) /\ BestOf(bus[k]) = 0
    BY <2>1, <2>2, KeyboardSummary DEF Complete
  <2>. QED
    BY <1>2, <2>1, <2>2, <2>3, <2>4
<1>4. ASSUME NEW k \in Ports, KeyboardPorts = {k}, Pinned(bus[k]),
             BestOf(bus[k]) = 0, NodesOf(k) = {n}, op = "keyboard" => dmi.confirmed
      PROVE  KeyboardSelected(n)
  <2>1. OfKind("keyboard") = {Whole(k)}
    BY <1>1, <1>4
  <2>2. Whole(k).evidence = "hash" /\ Whole(k).on = 0
    BY <1>4, KeyboardSummary DEF Complete
  <2>3. Whole(k) \in found
    BY <2>1 DEF OfKind
  <2>. QED
    BY <1>2, <1>4, <2>1, <2>2, <2>3 DEF KeyboardSelected
<1>5. KeyboardSelected(n) => (op = "keyboard" => dmi.confirmed)
  BY DEF KeyboardSelected
<1>. QED
  BY <1>3, <1>4, <1>5

LEMMA ChassisChosen ==
  ASSUME Complete, dmi.supported
  PROVE  /\ \A d \in found : AwElcSelected(d) => dmi.confirmed /\ ChassisPorts = {d.port}
         /\ \A k \in Ports : ChassisPorts = {k} /\ dmi.confirmed =>
                               \E d \in found : AwElcSelected(d)
<1>1. OfKind("chassis") = {Whole(p) : p \in ChassisPorts}
  BY FoundOfKind
<1>2. ASSUME NEW d \in found, AwElcSelected(d)
      PROVE  dmi.confirmed /\ ChassisPorts = {d.port}
  BY <1>1, <1>2, OnePort DEF AwElcSelected
<1>3. ASSUME NEW k \in Ports, ChassisPorts = {k}, dmi.confirmed
      PROVE  \E d \in found : AwElcSelected(d)
  <2>1. OfKind("chassis") = {Whole(k)}
    BY <1>1, <1>3
  <2>2. Whole(k) \in found
    BY <2>1 DEF OfKind
  <2>3. Whole(k).busnum
    BY DEF Whole, Summary
  <2>. QED
    BY <1>3, <2>1, <2>2, <2>3 DEF AwElcSelected
<1>. QED
  BY <1>2, <1>3

\* What no selection takes does not fit.
LEMMA NoneSelected ==
  ASSUME Complete, OneNode, purpose = "fresh", ~Selectable
  PROVE  ~Fits(op)
<1>. SUFFICES ASSUME Fits(op) PROVE FALSE
  OBVIOUS
<1>1. dmi.supported
  BY DEF Fits
<1>2. CASE op \in KeyboardOps
  <2>1. PICK k \in Ports : /\ KeyboardPorts = {k} /\ Pinned(bus[k])
                           /\ BestOf(bus[k]) = 0 /\ NodesOf(k) # {}
    BY <1>2 DEF Fits
  <2>2. PICK n \in NodesOf(k) : NodesOf(k) = {n}
    BY <2>1 DEF NodesOf, OneNode
  <2>3. n \in Nodes /\ (op = "keyboard" => dmi.confirmed)
    BY <1>2 DEF NodesOf, Fits
  <2>4. KeyboardSelected(n)
    BY <1>1, <2>1, <2>2, <2>3, KeyboardChosen
  <2>. QED
    BY <1>1, <1>2, <2>3, <2>4 DEF Selectable
<1>3. CASE op \notin KeyboardOps
  BY <1>1, <1>3, ChassisChosen DEF Selectable, Fits
<1>. QED
  BY <1>2, <1>3
-----------------------------------------------------------------------------
(* Steps.                                                                    *)

\* A change of the bus puts everything known of it out of date.
LEMMA OutdatedKnown ==
  ASSUME Outdate, OneNode'
  PROVE  Known'
<1>1. Runs' = {}
  BY DEF Outdate, Runs
<1>. QED
  BY <1>1 DEF Outdate, Known, Seen, Held, VerdictsTrue

\* The interfaces of a unit get different nodes, and nodes of their own.
LEMMA PlugKnown ==
  ASSUME IInv, Known, NEW p \in Ports, NEW u \in Units, Plug(p, u)
  PROVE  Known'
<1>. USE SelectionAssumption
<1>1. PICK at \in [Interfaces[u] -> {n \in Nodes : node[n] = None} \cup {None}] :
        /\ \A i, j \in DOMAIN at : i # j /\ at[i] = at[j] => at[i] = None
        /\ node' = [n \in Nodes |->
                      IF \E i \in DOMAIN at : at[i] = n
                      THEN <<p, CHOOSE i \in DOMAIN at : at[i] = n>> ELSE node[n]]
  BY DEF Plug
<1>2. ASSUME NEW m \in Nodes, NEW n \in Nodes, node'[m] # None, node'[m] = node'[n]
      PROVE  m = n
  <2>. DEFINE New(x) == \E i \in DOMAIN at : at[i] = x
              Of(x) == CHOOSE i \in DOMAIN at : at[i] = x
  <2>1. \A x \in Nodes : node'[x] = IF New(x) THEN <<p, Of(x)>> ELSE node[x]
    BY <1>1
  <2>2. \A x \in Nodes : New(x) => Of(x) \in DOMAIN at /\ at[Of(x)] = x
    OBVIOUS
  <2>3. ASSUME NEW x \in Nodes, node[x] # None
        PROVE  node[x][1] # p
    BY <2>3 DEF IInv, Places, NodesBacked, Plug
  <2>. HIDE DEF New, Of
  <2>4. CASE New(m) /\ New(n)
    <3>1. <<p, Of(m)>> = <<p, Of(n)>>
      BY <1>2, <2>1, <2>4
    <3>2. Of(m) = Of(n)
      BY <3>1
    <3>. QED
      BY <2>2, <2>4, <3>2
  <2>5. CASE New(m) /\ ~New(n)
    <3>1. node[n] = <<p, Of(m)>> /\ node[n] # None
      BY <1>2, <2>1, <2>5
    <3>2. <<p, Of(m)>>[1] = p
      OBVIOUS
    <3>. QED
      BY <2>3, <3>1, <3>2
  <2>6. CASE ~New(m) /\ New(n)
    <3>1. node[m] = <<p, Of(n)>> /\ node[m] # None
      BY <1>2, <2>1, <2>6
    <3>2. <<p, Of(n)>>[1] = p
      OBVIOUS
    <3>. QED
      BY <2>3, <3>1, <3>2
  <2>7. CASE ~New(m) /\ ~New(n)
    BY <1>2, <2>1, <2>7 DEF Known, OneNode
  <2>. QED
    BY <2>4, <2>5, <2>6, <2>7
<1>3. OneNode'
  BY <1>2 DEF OneNode
<1>. QED
  BY <1>3, OutdatedKnown DEF Plug, Changed

LEMMA GoneKnown ==
  ASSUME IInv, Known, NEW p \in Ports, Gone(p)
  PROVE  Known'
<1>1. \A n \in Nodes : node'[n] \in {node[n], None}
  BY DEF Gone
<1>2. OneNode'
  BY <1>1 DEF Known, OneNode
<1>. QED
  BY <1>2, OutdatedKnown DEF Gone, Changed

\* Runs that ended stay true through a step of the process.
LEMMA RunsStay ==
  ASSUME Known, UNCHANGED world, Runs' \subseteq Runs
  PROVE  OneNode' /\ VerdictsTrue'
<1>1. \A v \in Runs' : True(v)'
  BY TruthStays DEF Known, VerdictsTrue
<1>2. OneNode'
  BY DEF Known, OneNode, world
<1>. QED
  BY <1>1, <1>2 DEF VerdictsTrue

\* A run ends with a true verdict.
LEMMA EndKnown ==
  ASSUME Known, NEW how, NEW ready, End(how, ready),
         steady => True([run |-> op, ready |-> ready, how |-> how])
  PROVE  Known'
<1>. DEFINE new == [run |-> op, ready |-> ready, how |-> how]
<1>1. UNCHANGED world /\ pc' = "idle"
  BY DEF End
<1>2. Runs' \subseteq Runs \cup (IF steady THEN {new} ELSE {})
  BY DEF End, Runs
<1>. HIDE DEF new
<1>3. ASSUME NEW v \in Runs' PROVE True(v)'
  <2>1. True(v)
    BY <1>2, <1>3 DEF Known, VerdictsTrue, new
  <2>. QED
    BY <1>1, <2>1, TruthStays
<1>4. VerdictsTrue'
  BY <1>3 DEF VerdictsTrue
<1>5. OneNode'
  BY <1>1 DEF Known, OneNode, world
<1>. QED
  BY <1>1, <1>4, <1>5 DEF Known, Seen, Held, Acquirable

\* A verdict that says nothing of the bus.
LEMMA FailedTrue ==
  ASSUME NEW run, NEW ready
  PROVE  True([run |-> run, ready |-> ready, how |-> "failed"])
BY DEF True

LEMMA DiscoverKnown == IInv /\ Known /\ Discover => Known'
<1>. SUFFICES ASSUME IInv, Known, Discover PROVE Known'
  OBVIOUS
<1>1. CASE List
  <2>1. UNCHANGED <<world, steady, last, before>> /\ pc' = "visit"
    BY <1>1 DEF List, past
  <2>2. todo' = Plugged /\ found' = {} /\ Plugged' = Plugged
    BY <1>1 DEF List, Plugged, world
  <2>3. Seen'
    BY <2>1, <2>2 DEF Seen
  <2>4. Held'
    BY <2>1 DEF Held, Acquirable
  <2>5. Runs' = Runs
    BY <2>1 DEF Runs
  <2>. QED
    BY <2>1, <2>3, <2>4, <2>5, RunsStay DEF Known
<1>2. ASSUME NEW p \in Ports, Visit(p) PROVE Known'
  <2>1. UNCHANGED <<world, steady, purpose, pc, last, before>> /\ pc = "visit"
    BY <1>2 DEF Visit, past
  <2>2. Held'
    BY <2>1 DEF Held, Acquirable
  <2>3. Runs' = Runs
    BY <2>1 DEF Runs
  <2>4. Seen'
    <3>. SUFFICES ASSUME steady
                  PROVE  /\ todo' \subseteq Plugged'
                         /\ found' = {Whole(q)' : q \in Plugged' \ todo'}
      BY <2>1 DEF Seen
    <3>1. Plugged' = Plugged
      BY <2>1 DEF Plugged, world
    <3>2. \A q : Whole(q)' = Whole(q)
      <4>1. UNCHANGED <<bus, node, granted, purpose>>
        BY <2>1 DEF world
      <4>2. \A q : HidrawsOf(q)' = HidrawsOf(q)
        BY <4>1 DEF HidrawsOf
      <4>. QED
        BY <4>1, <4>2 DEF Whole, Summary
    <3>3. todo \subseteq Plugged /\ found = {Whole(q) : q \in Plugged \ todo}
      BY <2>1 DEF Known, Seen
    <3>4. p \in todo /\ todo' = todo \ {p} /\ p \in Plugged
      BY <1>2, <3>3 DEF Visit
    <3>5. bus[p] # None
      BY <3>4 DEF Plugged
    <3>6. found' = found \cup {Whole(p)}
      BY <1>2, <3>5 DEF Visit
    <3>7. Plugged \ todo' = (Plugged \ todo) \cup {p}
      BY <3>4
    <3>8. found' = {Whole(q) : q \in Plugged \ todo'}
      BY <3>3, <3>6, <3>7
    <3>. QED
      BY <3>1, <3>2, <3>3, <3>4, <3>8
  <2>. QED
    BY <2>1, <2>2, <2>3, <2>4, RunsStay DEF Known
<1>3. ASSUME NEW p \in Ports, VisitTorn(p) PROVE Known'
  BY <1>3, GoneKnown DEF VisitTorn
<1>. QED
  BY <1>1, <1>2, <1>3 DEF Discover

\* A run that starts leaves the verdicts of earlier ones.
LEMMA StartKnown ==
  ASSUME Known, NEW what, NEW why, Start(what, why)
  PROVE  Known'
<1>1. UNCHANGED world /\ pc' = "list" /\ Runs' \subseteq Runs
  BY DEF Start, Runs
<1>. QED
  BY <1>1, RunsStay DEF Known, Seen, Held, Acquirable

\* What is chosen fits, and is there.
LEMMA ChooseKnown ==
  ASSUME Known, NEW s, Choose(s), steady => Fits(op),
         steady /\ op \in KeyboardOps =>
           \E k \in Ports : KeyboardPorts = {k} /\ s.path \in NodesOf(k),
         steady /\ op \in AwElcOps => ChassisPorts = {s.port}
  PROVE  Known'
<1>1. /\ UNCHANGED <<world, op, steady, last, before>>
      /\ selection' = s /\ pc' = "enumerate"
  BY DEF Choose, past
<1>2. Runs' = Runs
  BY <1>1 DEF Runs
<1>3. Seen'
  BY <1>1 DEF Seen
<1>4. Held'
  <2>1. /\ KeyboardPorts' = KeyboardPorts /\ ChassisPorts' = ChassisPorts
        /\ \A k : NodesOf(k)' = NodesOf(k)
        /\ Fits(op)' <=> Fits(op)
    BY <1>1 DEF world, KeyboardPorts, ChassisPorts, NodesOf, Fits
  <2>. QED
    BY <1>1, <2>1 DEF Held
<1>. QED
  BY <1>1, <1>2, <1>3, <1>4, RunsStay DEF Known

LEMMA JudgeKnown == IInv /\ Known /\ Judge => Known'
<1>. SUFFICES ASSUME IInv, Known, Judge PROVE Known'
  OBVIOUS
<1>1. ASSUME NEW why, Discovered(why), steady
      PROVE  Complete /\ purpose = why
  BY <1>1 DEF Discovered, Complete, Known
<1>2. CASE Answer
  <2>. DEFINE ready == {k \in {"keyboard", "chassis"} :
                          IF k = "keyboard" THEN KeyboardReady ELSE ChassisReady}
              new == [run |-> op, ready |-> ready, how |-> "judged"]
  <2>1. End("judged", ready)
    BY <1>2 DEF Answer
  <2>2. ASSUME steady PROVE True(new)
    <3>1. Complete /\ purpose = "doctor"
      BY <1>1, <1>2, <2>2 DEF Answer
    <3>2. "keyboard" \in ready <=> KeyboardReady
      OBVIOUS
    <3>3. "chassis" \in ready <=> ChassisReady
      OBVIOUS
    <3>4. new.ready = ready /\ new.how = "judged"
      OBVIOUS
    <3>. HIDE DEF new, ready
    <3>. QED
      BY <3>1, <3>2, <3>3, <3>4, KeyboardJudged, ChassisJudged DEF True
  <2>. HIDE DEF ready
  <2>. QED
    BY <2>1, <2>2, EndKnown
<1>3. CASE Gate
  <2>1. UNCHANGED <<world, last, before>> /\ pc' = "list"
    BY <1>3 DEF Gate, past
  <2>2. Runs' = Runs
    BY <2>1 DEF Runs
  <2>. QED
    BY <2>1, <2>2, RunsStay DEF Known, Seen, Held, Acquirable
<1>4. CASE SelectKeyboard
  <2>1. PICK n \in Nodes : KeyboardSelected(n) /\ Choose([path |-> n])
    BY <1>4 DEF SelectKeyboard
  <2>2. op \in KeyboardOps /\ op \notin AwElcOps
    BY <1>4 DEF SelectKeyboard, KeyboardOps, AwElcOps
  <2>3. ASSUME steady
        PROVE  /\ Fits(op)
               /\ \E k \in Ports : KeyboardPorts = {k} /\ n \in NodesOf(k)
    <3>1. Complete /\ purpose = "fresh" /\ dmi.supported
      BY <1>1, <2>1, <2>3 DEF Choose
    <3>. QED
      BY <2>1, <2>2, <3>1, KeyboardChosen DEF Fits
  <2>. QED
    BY <2>1, <2>2, <2>3, ChooseKnown
<1>5. CASE SelectAwElc
  <2>1. PICK d \in found :
          AwElcSelected(d) /\ Choose([port |-> d.port, serial |-> d.serial])
    BY <1>5 DEF SelectAwElc
  <2>2. op \in AwElcOps /\ op \notin KeyboardOps
    BY <1>5 DEF SelectAwElc, KeyboardOps, AwElcOps
  <2>3. ASSUME steady PROVE Fits(op) /\ ChassisPorts = {d.port}
    <3>1. Complete /\ dmi.supported
      BY <1>1, <2>1, <2>3 DEF Choose
    <3>2. dmi.confirmed /\ ChassisPorts = {d.port}
      BY <2>1, <3>1, ChassisChosen
    <3>3. d.port \in Ports
      BY DEF IInv, Places, FoundPlaces
    <3>. QED
      BY <2>2, <3>1, <3>2, <3>3 DEF Fits
  <2>. QED
    BY <2>1, <2>2, <2>3, ChooseKnown
<1>6. CASE Refuse
  <2>1. CASE Discovered("gate") /\ ~GatePasses /\ End("gated", {})
    <3>1. ASSUME steady PROVE ~Admits(op)
      BY <1>1, <2>1, <3>1, GateJudged
    <3>2. steady => True([run |-> op, ready |-> {}, how |-> "gated"])
      BY <3>1 DEF True
    <3>. QED
      BY <2>1, <3>2, EndKnown
  <2>2. CASE Discovered("fresh") /\ ~Selectable /\ End("unselected", {})
    <3>1. ASSUME steady PROVE ~Fits(op)
      BY <1>1, <2>2, <3>1, NoneSelected DEF Known
    <3>2. steady => True([run |-> op, ready |-> {}, how |-> "unselected"])
      BY <3>1 DEF True
    <3>. QED
      BY <2>2, <3>2, EndKnown
  <2>. QED
    BY <1>6, <2>1, <2>2 DEF Refuse
<1>. QED
  BY <1>2, <1>3, <1>4, <1>5, <1>6 DEF Judge

\* The device in hand is the one that was selected.
LEMMA HandKnown ==
  ASSUME Known, pc \in Acquirable, pc' \in Acquirable \ {"enumerate"},
         UNCHANGED <<world, op, selection, steady, past>>,
         steady /\ op \in KeyboardOps /\ pc' \in {"compare", "use"}
           => selection.path \in granted,
         steady /\ op \in AwElcOps => view'.unit = bus[selection.port]
  PROVE  Known'
<1>1. Runs' = Runs
  BY DEF past, Runs
<1>2. Seen'
  BY DEF Seen, Acquirable
<1>3. Held'
  <2>1. /\ KeyboardPorts' = KeyboardPorts /\ ChassisPorts' = ChassisPorts
        /\ \A k : NodesOf(k)' = NodesOf(k)
        /\ Fits(op)' <=> Fits(op)
        /\ UNCHANGED <<bus, granted>>
    BY DEF world, KeyboardPorts, ChassisPorts, NodesOf, Fits
  <2>. QED
    BY <2>1 DEF Held, Known
<1>. QED
  BY <1>1, <1>2, <1>3, RunsStay DEF Known

LEMMA AcquireKnown == IInv /\ Known /\ Acquire => Known'
<1>. SUFFICES ASSUME IInv, Known, Acquire PROVE Known'
  OBVIOUS
<1>. USE SelectionAssumption
<1>1. KeyboardOps \cap AwElcOps = {}
  BY DEF KeyboardOps, AwElcOps
<1>2. CASE EnumerateKeyboard
  BY <1>1, <1>2, HandKnown DEF EnumerateKeyboard, Acquiring, Acquirable
<1>3. CASE OpenKeyboard
  BY <1>1, <1>3, HandKnown DEF OpenKeyboard, Acquiring, Acquirable
<1>4. CASE EnumerateAwElc
  <2>1. view'.unit = bus[selection.port]
    BY <1>4 DEF EnumerateAwElc, InHand
  <2>. QED
    BY <1>1, <1>4, <2>1, HandKnown DEF EnumerateAwElc, Acquiring, Acquirable
<1>5. CASE OpenAwElc
  <2>1. pc = "open" /\ op \in AwElcOps /\ UNCHANGED view
    BY <1>5 DEF OpenAwElc, Acquiring
  <2>2. steady => view'.unit = bus[selection.port]
    BY <2>1 DEF Known, Held, Acquirable
  <2>. QED
    BY <1>1, <1>5, <2>1, <2>2, HandKnown DEF OpenAwElc, Acquirable
<1>6. CASE Compare
  <2>1. pc = "compare" /\ UNCHANGED view
    BY <1>6 DEF Compare
  <2>2. steady /\ op \in AwElcOps => view'.unit = bus[selection.port]
    BY <2>1 DEF Known, Held, Acquirable
  <2>3. steady /\ op \in KeyboardOps => selection.path \in granted
    BY <2>1 DEF Known, Held, Acquirable
  <2>. QED
    BY <1>6, <2>1, <2>2, <2>3, HandKnown DEF Compare, Acquirable
<1>7. CASE AcquireFails \/ UseFails
  BY <1>7, FailedTrue, EndKnown DEF AcquireFails, UseFails
<1>8. CASE Use
  <2>1. pc = "use" /\ End("wrote", {})
    BY <1>8 DEF Use
  <2>2. ASSUME steady PROVE Fits(op) /\ Reached(op)
    <3>1. Fits(op)
      BY <2>1, <2>2 DEF Known, Held, Acquirable
    <3>2. CASE op \in KeyboardOps
      <4>1. PICK k \in Ports :
              KeyboardPorts = {k} /\ selection.path \in NodesOf(k) \cap granted
        BY <2>1, <2>2, <3>2 DEF Known, Held, Acquirable
      <4>. QED
        BY <3>1, <3>2, <4>1 DEF Reached
    <3>3. CASE op \notin KeyboardOps
      <4>1. op \in AwElcOps
        BY <2>1, <3>3 DEF IInv, Passed, Acquirable, Ops
      <4>2. ChassisPorts = {selection.port} /\ view.unit = bus[selection.port]
        BY <2>1, <2>2, <4>1 DEF Known, Held, Acquirable
      <4>3. view.unit \in Conforming
        BY <2>1, <3>3 DEF IInv, Compared, OpenedAwElc
      <4>4. selection.port \in Ports /\ view.unit \in Units
        BY <4>2, <4>3 DEF ChassisPorts, Units
      <4>5. 0 \in Interfaces[view.unit] /\ Interfaces[view.unit] \subseteq Nat
        BY <4>3, <4>4
      <4>6. Least(Interfaces[view.unit]) \in Nat /\ Least(Interfaces[view.unit]) <= 0
        BY <4>5, LeastOf
      <4>7. Fronted(view.unit)
        BY <4>6 DEF Fronted
      <4>. QED
        BY <3>1, <3>3, <4>2, <4>4, <4>7 DEF Reached
    <3>. QED
      BY <3>2, <3>3
  <2>3. steady => True([run |-> op, ready |-> {}, how |-> "wrote"])
    BY <2>2 DEF True
  <2>. QED
    BY <2>1, <2>3, EndKnown
<1>. QED
  BY <1>2, <1>3, <1>4, <1>5, <1>6, <1>7, <1>8 DEF Acquire

LEMMA KnownInductive == IInv /\ Known /\ [Next]_vars => Known'
<1>. SUFFICES ASSUME IInv, Known, [Next]_vars PROVE Known'
  OBVIOUS
<1>1. ASSUME NEW p \in Ports, NEW u \in Units, Plug(p, u) PROVE Known'
  BY <1>1, PlugKnown
<1>2. ASSUME NEW p \in Ports, Unplug(p) PROVE Known'
  BY <1>2, GoneKnown DEF Unplug
<1>3. ASSUME NEW n \in Nodes, Grant(n) PROVE Known'
  <2>1. OneNode'
    BY <1>3 DEF Grant, Known, OneNode
  <2>. QED
    BY <1>3, <2>1, OutdatedKnown DEF Grant
<1>4. CASE Environment
  BY <1>1, <1>2, <1>3, <1>4 DEF Environment
<1>5. CASE Doctor
  BY <1>5, StartKnown DEF Doctor
<1>6. ASSUME NEW o \in Ops, Command(o) PROVE Known'
  BY <1>6, StartKnown DEF Command
<1>7. CASE UNCHANGED vars
  <2>1. UNCHANGED <<world, pc, op, purpose, todo, found, selection, view, steady,
                    last, before>>
    BY <1>7 DEF vars, search, past
  <2>2. Runs' = Runs
    BY <2>1 DEF Runs
  <2>3. UNCHANGED <<bus, node, granted, dmi>>
    BY <2>1 DEF world
  <2>4. Seen'
    <3>1. \A q : Whole(q)' = Whole(q)
      <4>1. \A q : HidrawsOf(q)' = HidrawsOf(q)
        BY <2>1, <2>3 DEF HidrawsOf
      <4>. QED
        BY <2>1, <2>3, <4>1 DEF Whole, Summary
    <3>2. Plugged' = Plugged
      BY <2>3 DEF Plugged
    <3>. QED
      BY <2>1, <3>1, <3>2 DEF Known, Seen
  <2>5. Held'
    <3>1. /\ KeyboardPorts' = KeyboardPorts /\ ChassisPorts' = ChassisPorts
          /\ \A k : NodesOf(k)' = NodesOf(k)
          /\ Fits(op)' <=> Fits(op)
      BY <2>1, <2>3 DEF KeyboardPorts, ChassisPorts, NodesOf, Fits
    <3>. QED
      BY <2>1, <2>3, <3>1 DEF Known, Held
  <2>. QED
    BY <2>1, <2>2, <2>4, <2>5, RunsStay DEF Known
<1>. QED
  BY <1>4, <1>5, <1>6, <1>7, DiscoverKnown, JudgeKnown, AcquireKnown DEF Next

LEMMA Knowledge == Spec => []Known
<1>1. Init => Known
  BY DEF Init, Known, OneNode, Seen, Held, Acquirable, VerdictsTrue, Runs
<1>. QED
  BY <1>1, KnownInductive, Invariance, PTL DEF Spec

-----------------------------------------------------------------------------
(* No gate declines, on any bus, what its executor takes.                    *)
THEOREM GatesStand == Spec => []GateStands
<1>1. Known => GateStands
  <2>. SUFFICES ASSUME VerdictsTrue, NEW g \in Runs, NEW c \in Runs,
                       g.how = "gated", c.how = "wrote", g.run = c.run
                PROVE  FALSE
    BY DEF Known, GateStands
  <2>1. ~Admits(c.run) /\ Fits(c.run)
    BY DEF VerdictsTrue, True
  <2>2. Fits(c.run) => Admits(c.run)
    BY DEF Fits, Admits
  <2>. QED
    BY <2>1, <2>2
<1>. QED
  BY <1>1, Knowledge, PTL

(* doctor and the executors agree on any bus that does not change: nothing   *)
(* unready is colored, and on a plain bus nothing ready is refused.          *)
THEOREM ReadyMeansSelectable == Spec => []ReadinessStands
<1>. USE SelectionAssumption
<1>1. ASSUME Known, IInv, NEW d \in Runs, NEW c \in Runs, d.how = "judged",
             c.how = "wrote", c.run # "status"
      PROVE  Needs(c.run) \in d.ready
  <2>1. Fits(c.run) /\ Reached(c.run) /\ True(d)
    BY <1>1 DEF Known, VerdictsTrue, True
  <2>2. CASE c.run \in KeyboardOps
    <3>1. c.run = "keyboard"
      BY <1>1, <2>2 DEF KeyboardOps
    <3>2. PICK k \in Ports : KeyboardPorts = {k} /\ Pinned(bus[k])
      BY <2>1, <2>2 DEF Fits
    <3>3. NodesOf(k) \cap granted # {}
      BY <2>1, <2>2, <3>2 DEF Reached
    <3>4. KeyboardServes(k)
      BY <2>1, <2>2, <3>1, <3>2, <3>3 DEF Fits, KeyboardServes
    <3>. QED
      BY <1>1, <2>1, <2>2, <3>2, <3>4 DEF True, Needs
  <2>3. CASE c.run \notin KeyboardOps
    <3>1. ChassisServes
      BY <2>1, <2>3 DEF Fits, Reached, ChassisServes
    <3>. QED
      BY <1>1, <2>1, <2>3, <3>1 DEF True, Needs
  <2>. QED
    BY <2>2, <2>3
<1>2. ASSUME Known, IInv, NEW d \in Runs, NEW c \in Runs, d.how = "judged",
             c.how = "unselected", Plain \/ c.run \in AwElcOps,
             Needs(c.run) \in d.ready
      PROVE  FALSE
  <2>1. ~Fits(c.run) /\ True(d)
    BY <1>2 DEF Known, VerdictsTrue, True
  <2>2. CASE c.run \in KeyboardOps
    <3>1. c.run \notin AwElcOps
      BY <2>2 DEF KeyboardOps, AwElcOps
    <3>2. PICK k \in Ports :
            /\ KeyboardPorts = {k}
            /\ \A i \in Interfaces[bus[k]] : Descriptor[bus[k]][i] = "hash" => i = 0
      BY <1>2, <3>1 DEF Plain, KeyboardPorts
    <3>3. KeyboardServes(k)
      BY <1>2, <2>1, <2>2, <3>2 DEF True, Needs
    <3>4. bus[k] \in Keyboards
      BY <3>2 DEF KeyboardPorts
    <3>5. BestOf(bus[k]) = 0
      BY <3>2, <3>3, <3>4, BestInterface DEF KeyboardServes, Pinned, BestOf
    <3>. QED
      BY <2>1, <2>2, <3>2, <3>3, <3>5 DEF Fits, KeyboardServes
  <2>3. CASE c.run \notin KeyboardOps
    <3>1. ChassisServes
      BY <1>2, <2>1, <2>3 DEF True, Needs
    <3>. QED
      BY <2>1, <2>3, <3>1 DEF Fits, ChassisServes
  <2>. QED
    BY <2>2, <2>3
<1>3. Known /\ IInv => ReadinessStands
  BY <1>1, <1>2 DEF ReadinessStands
<1>. QED
  BY <1>3, Knowledge, Invariance, PTL
=============================================================================
