------------------------------ MODULE Selection ------------------------------
(***************************************************************************)
(* How alienrgb finds the controller it writes to, while devices come and  *)
(* go.  Discovery (sysfs.rs) reads sysfs device by device; the gates and   *)
(* doctor (cli.rs) and the selections (transport/mod.rs) judge what it     *)
(* found; the factories (keyboard.rs, aw_elc.rs) open what was selected    *)
(* and compare it again.  A keyboard is selected by the path of a hidraw   *)
(* node, which may be another interface's by the time it is opened; an     *)
(* AW-ELC by its bus and port, and by its serial when there is one.        *)
(*                                                                         *)
(* One process is enough: selection shares nothing between processes but   *)
(* the bus.                                                                *)
(***************************************************************************)
EXTENDS Naturals, FiniteSets

CONSTANTS
  Ports,       \* bus and port of a device, its sysfs name, in name order
  Nodes,       \* hidraw nodes
  Keyboards,   \* units that are a 0d62:d2b1
  Chassis,     \* units that are a 187c:0551
  None,
  Interfaces,  \* Interfaces[u]: the interface numbers of unit u
  Descriptor,  \* Descriptor[u][i]: its report descriptor on interface i
  Collections, \* Collections[u][i]: the collections hidapi lists for it
  Serial,      \* Serial[u]: its serial, or None
  Conforming,  \* chassis whose interface 0 has the expected class and endpoints
  MaxChanges   \* bound: changes of the bus

Units == Keyboards \cup Chassis
Serials == {Serial[u] : u \in Units} \cup {None}

\* DescriptorEvidence, in the order of descriptor_rank.
Evidence == <<"not_found", "unreadable", "mismatch", "signature", "hash">>
Rank(e) == CHOOSE r \in DOMAIN Evidence : Evidence[r] = e
Readable == {"mismatch", "signature", "hash"}

ASSUME SelectionAssumption ==
  /\ Ports \subseteq Nat
  /\ Keyboards \cap Chassis = {}
  /\ None \notin Units \cup Nodes \cup Ports
  /\ Interfaces \in [Units -> SUBSET Nat]
  /\ \A u \in Keyboards : Descriptor[u] \in [Interfaces[u] -> Readable]
  /\ DOMAIN Serial = Units
  /\ Conforming \subseteq {u \in Chassis : 0 \in Interfaces[u]}
  /\ MaxChanges \in Nat

VARIABLES
  bus,        \* bus[p]: the unit plugged into port p
  node,       \* node[n]: the port and interface behind hidraw node n
  granted,    \* the nodes udev has opened to the user
  changes,    \* changes of the bus so far, for the bound
  dmi,        \* supported, and if so whether the BIOS is the confirmed one
  pc,         \* the next step of the process
  op,         \* what it runs
  purpose,    \* what it discovers for: doctor, a gate, or execution
  todo,       \* directory entries discovery has not visited
  found,      \* the device summaries it has so far
  selection,  \* KeyboardSelection or AwElcSelection
  view,       \* the device it enumerated last, then the one it opened
  wrote,      \* history: what its command wrote to
  steady,     \* history: nothing changed since it began
  last,       \* history: what came of its last run, on the present bus
  before      \* history: and of the one before that

world == <<bus, node, granted, changes, dmi>>
search == <<todo, found>>
past == <<last, before>>
vars == <<world, pc, op, purpose, search, selection, view, wrote, steady, past>>

KeyboardOps == {"keyboard", "status"}
AwElcOps    == {"chassis", "power"}
Ops         == KeyboardOps \cup AwElcOps
Purposes    == {"doctor", "gate", "fresh"}

\* A device in hand: alive until it is unplugged.
Views == [port : Ports, unit : Units, interface : Nat, alive : BOOLEAN]

Hidraws == [node : Nodes, interface : Nat, allowed : BOOLEAN]

\* DeviceSummary, of which vid, pid and status follow from the kind.
Summaries ==
  [port : Ports, kind : {"keyboard", "chassis"}, busnum : BOOLEAN,
   serial : Serials,
   interface : Nat \cup {None}, hidraw : SUBSET Hidraws,
   evidence : {Evidence[r] : r \in DOMAIN Evidence},
   on : Nat \cup {None}]

Selections ==
  [path : Nodes] \cup
  [port : Ports, serial : Serials]

\* What came of a run: doctor judged, a gate or the selection refused it, it
\* could not acquire or reach the device, or it wrote.
Verdicts ==
  [run : Ops \cup {None}, ready : SUBSET {"keyboard", "chassis"},
   how : {"judged", "gated", "unselected", "failed", "wrote"}]

Writes ==
  [op : Ops, unit : Units, interface : Nat,
   serial : Serials]

BusType ==
  /\ bus \in [Ports -> Units \cup {None}]
  /\ node \in [Nodes -> (Ports \X Nat) \cup {None}]
  /\ granted \in SUBSET Nodes
  /\ changes \in 0..MaxChanges
  /\ dmi \in [supported : BOOLEAN, confirmed : BOOLEAN]

ProcessType ==
  /\ pc \in {"idle", "list", "visit", "enumerate", "open", "compare", "use"}
  /\ op \in Ops \cup {None}
  /\ purpose \in Purposes
  /\ todo \in SUBSET Ports
  /\ selection \in Selections \cup {None}
  /\ view \in Views \cup {None}

HistoryType ==
  /\ wrote \in Writes \cup {None}
  /\ steady \in BOOLEAN
  /\ last \in Verdicts \cup {None}
  /\ before \in Verdicts \cup {None}

TypeOK == BusType /\ ProcessType /\ found \in SUBSET Summaries /\ HistoryType

Init ==
  /\ bus = [p \in Ports |-> None]
  /\ node = [n \in Nodes |-> None]
  /\ granted = {}
  /\ changes = 0
  /\ dmi \in {d \in [supported : BOOLEAN, confirmed : BOOLEAN] :
               d.confirmed => d.supported}
  /\ pc = "idle"
  /\ op = None
  /\ purpose = "doctor"
  /\ todo = {}
  /\ found = {}
  /\ selection = None
  /\ view = None
  /\ wrote = None
  /\ steady = FALSE
  /\ last = None
  /\ before = None

-----------------------------------------------------------------------------
(* The bus, udev and the kernel.                                             *)

\* What is known of the bus is out of date.
Outdate == steady' = FALSE /\ last' = None /\ before' = None

Changed ==
  /\ changes < MaxChanges
  /\ changes' = changes + 1
  /\ Outdate
  /\ UNCHANGED dmi

\* A unit is plugged in; the kernel gives some of its interfaces a free node,
\* no two the same.
Plug(p, u) ==
  /\ bus[p] = None
  /\ \A q \in Ports : bus[q] # u
  /\ Changed
  /\ bus' = [bus EXCEPT ![p] = u]
  /\ \E at \in [Interfaces[u] -> {n \in Nodes : node[n] = None} \cup {None}] :
       /\ \A i, j \in DOMAIN at : i # j /\ at[i] = at[j] => at[i] = None
       /\ node' = [n \in Nodes |->
                     IF \E i \in DOMAIN at : at[i] = n
                     THEN <<p, CHOOSE i \in DOMAIN at : at[i] = n>> ELSE node[n]]
  /\ UNCHANGED <<granted, pc, op, purpose, search, selection, view, wrote>>

Gone(p) ==
  LET lost == {n \in Nodes : node[n] # None /\ node[n][1] = p}
  IN /\ bus[p] # None
     /\ bus' = [bus EXCEPT ![p] = None]
     /\ node' = [n \in Nodes |-> IF n \in lost THEN None ELSE node[n]]
     /\ granted' = granted \ lost
     /\ Changed
     /\ view' = IF view # None /\ view.port = p
                THEN [view EXCEPT !.alive = FALSE] ELSE view

Unplug(p) == Gone(p) /\ UNCHANGED <<pc, op, purpose, search, selection, wrote>>

\* The udev rule, run some time after the node appeared.
Grant(n) ==
  /\ node[n] # None
  /\ n \notin granted
  /\ granted' = granted \cup {n}
  /\ Outdate
  /\ UNCHANGED <<bus, node, changes, dmi, pc, op, purpose, search, selection,
                 view, wrote>>

-----------------------------------------------------------------------------
(* Discovery.                                                                *)

Start(what, why) ==
  /\ pc = "idle"
  /\ pc' = "list"
  /\ op' = what
  /\ purpose' = why
  /\ steady' = TRUE
  /\ wrote' = None
  /\ last' = None
  /\ before' = last
  /\ UNCHANGED <<world, search, selection, view>>

\* The process is through with its run.
End(how, ready) ==
  /\ last' = IF steady THEN [run |-> op, ready |-> ready, how |-> how] ELSE None
  /\ pc' = "idle"
  /\ op' = None
  /\ todo' = {}
  /\ found' = {}
  /\ selection' = None
  /\ view' = None
  /\ UNCHANGED <<world, purpose, steady, before>>

\* discover_internal reads the DMI identity and the names in the directory.
List ==
  /\ pc = "list"
  /\ pc' = "visit"
  /\ todo' = IF dmi.supported THEN {p \in Ports : bus[p] # None} ELSE {}
  /\ found' = {}
  /\ UNCHANGED <<world, op, purpose, selection, view, wrote, steady, past>>

\* The hidraw nodes under port p: none are looked for to plan, and their access
\* is looked at for doctor only.
HidrawsOf(p) ==
  {[node |-> n, interface |-> node[n][2],
    allowed |-> purpose = "doctor" /\ n \in granted] :
     n \in {m \in Nodes : purpose # "gate" /\ node[m] # None /\ node[m][1] = p}}

\* keyboard_descriptor_status: the best evidence, on the first interface with it.
Better(u, i, j) ==
  LET r(k) == Rank(Descriptor[u][k])
  IN r(i) > r(j) \/ (r(i) = r(j) /\ i <= j)
Best(u, I) == CHOOSE i \in I : \A j \in I : Better(u, i, j)
Least(S) == CHOOSE i \in S : \A j \in S : i <= j

\* What a read of sysfs may miss of a device that is being unplugged, besides
\* some of its interfaces.
Parts == {"descriptor", "serial", "busnum"}

\* device_from_sysfs with the interfaces I that interface_paths still listed,
\* and without the parts that could not be read.
Summary(p, I, lost) ==
  LET u    == bus[p]
      bare == I = {}
      kbd  == u \in Keyboards
  IN [port      |-> p,
      kind      |-> IF kbd THEN "keyboard" ELSE "chassis",
      busnum    |-> "busnum" \notin lost,
      serial    |-> IF "serial" \in lost THEN None ELSE Serial[u],
      interface |-> IF bare THEN None ELSE Least(I),
      hidraw    |-> {h \in HidrawsOf(p) : h.interface \in I},
      evidence  |-> IF bare \/ ~kbd THEN "not_found"
                    ELSE IF "descriptor" \in lost THEN "unreadable"
                    ELSE Descriptor[u][Best(u, I)],
      on        |-> IF bare \/ ~kbd THEN None
                    ELSE IF "descriptor" \in lost THEN Least(I)
                    ELSE Best(u, I)]

Whole(p) == Summary(p, Interfaces[bus[p]], {})

Visit(p) ==
  /\ pc = "visit"
  /\ p \in todo
  /\ todo' = todo \ {p}
  /\ found' = found \cup (IF bus[p] = None THEN {} ELSE {Whole(p)})
  /\ UNCHANGED <<world, pc, op, purpose, selection, view, wrote, steady, past>>

\* The device at p is unplugged while it is read.
VisitTorn(p) ==
  /\ pc = "visit"
  /\ p \in todo
  /\ Gone(p)
  /\ todo' = todo \ {p}
  /\ \E d \in {Summary(p, I, lost) :
              I \in SUBSET Interfaces[bus[p]], lost \in SUBSET Parts} :
       found' = found \cup {d}
  /\ UNCHANGED <<pc, op, purpose, selection, wrote>>

Discovered(why) == pc = "visit" /\ todo = {} /\ purpose = why

-----------------------------------------------------------------------------
(* Judging what was found.                                                   *)

OfKind(kind) == {d \in found : d.kind = kind}
FirstOf(D) == CHOOSE d \in D : \A e \in D : d.port <= e.port
Zeros(d) == {h \in d.hidraw : h.interface = 0}

\* doctor_report
KeyboardReady ==
  /\ dmi.supported
  /\ dmi.confirmed
  /\ OfKind("keyboard") # {}
  /\ FirstOf(OfKind("keyboard")).evidence = "hash"
  /\ \E h \in Zeros(FirstOf(OfKind("keyboard"))) : h.allowed

\* Mutant: one of several AW-ELCs would do.
ChassisReadyAny ==
  /\ dmi.supported
  /\ dmi.confirmed
  /\ \E d \in OfKind("chassis") : d.busnum /\ d.interface \in {None, 0}

ChassisReady ==
  /\ dmi.supported
  /\ dmi.confirmed
  /\ \E d \in found :
       /\ OfKind("chassis") = {d}
       /\ d.busnum
       /\ d.interface \in {None, 0}

Doctor == Start(None, "doctor")

Answer ==
  /\ Discovered("doctor")
  /\ End("judged", {k \in {"keyboard", "chassis"} :
                      IF k = "keyboard" THEN KeyboardReady ELSE ChassisReady})
  /\ UNCHANGED wrote

\* Mutant: the gate asks for the hidraw node that planning does not look for.
GatePassesWithNode ==
  /\ dmi.supported
  /\ IF op \in KeyboardOps
     THEN /\ OfKind("keyboard") # {}
          /\ FirstOf(OfKind("keyboard")).evidence = "hash"
          /\ Zeros(FirstOf(OfKind("keyboard"))) # {}
     ELSE OfKind("chassis") # {}
  /\ op = "power" => dmi.confirmed

\* validate_plan_gate and validate_power_profile_gate.
GatePasses ==
  /\ dmi.supported
  /\ IF op \in KeyboardOps
     THEN /\ OfKind("keyboard") # {}
          /\ FirstOf(OfKind("keyboard")).evidence = "hash"
     ELSE OfKind("chassis") # {}
  /\ op = "power" => dmi.confirmed

\* The executor of keyboard-status has no gate, and a stage of a set-all none.
Command(o) == \/ o # "status" /\ Start(o, "gate")
              \/ Start(o, "fresh")

Gate ==
  /\ Discovered("gate")
  /\ GatePasses
  /\ pc' = "list"
  /\ purpose' = "fresh"
  /\ UNCHANGED <<world, op, search, selection, view, wrote, steady, past>>

\* select_keyboard and validate_keyboard_live_profile, which keyboard-status
\* does not call.
KeyboardSelected(n) ==
  /\ \E d \in found :
       /\ OfKind("keyboard") = {d}
       /\ d.evidence = "hash"
       /\ d.on = 0
       /\ \E h \in Zeros(d) : Zeros(d) = {h} /\ h.node = n
  /\ op = "keyboard" => dmi.confirmed

\* select_aw_elc and validate_aw_elc_live_profile.
AwElcSelected(d) ==
  /\ OfKind("chassis") = {d}
  /\ d.busnum
  /\ dmi.confirmed

Choose(s) ==
  /\ Discovered("fresh")
  /\ dmi.supported
  /\ selection' = s
  /\ pc' = "enumerate"
  /\ UNCHANGED <<world, op, purpose, search, view, wrote, steady, past>>

SelectKeyboard ==
  /\ op \in KeyboardOps
  /\ \E n \in Nodes : KeyboardSelected(n) /\ Choose([path |-> n])

\* Mutant: the serial is not carried along.
SelectAwElcByPort ==
  /\ op \in AwElcOps
  /\ \E d \in found : AwElcSelected(d) /\ Choose([port |-> d.port])

SelectAwElc ==
  /\ op \in AwElcOps
  /\ \E d \in found :
       AwElcSelected(d) /\ Choose([port |-> d.port, serial |-> d.serial])

Selectable ==
  /\ dmi.supported
  /\ IF op \in KeyboardOps THEN \E n \in Nodes : KeyboardSelected(n)
     ELSE \E d \in found : AwElcSelected(d)

Refuse ==
  /\ \/ Discovered("gate") /\ ~GatePasses /\ End("gated", {})
     \/ Discovered("fresh") /\ ~Selectable /\ End("unselected", {})
  /\ UNCHANGED wrote

-----------------------------------------------------------------------------
(* Opening what was selected.                                                *)

InHand(p, i) == [port |-> p, unit |-> bus[p], interface |-> i, alive |-> TRUE]

\* The device behind a hidraw node.
Behind(n) == InHand(node[n][1], node[n][2])

\* validate_keyboard_enumeration: the rows of one path agree and exactly one is
\* the RGB collection.
Listed(v) ==
  /\ v.unit \in Keyboards
  /\ v.interface = 0
  /\ LET rows == Collections[v.unit][0]
     IN /\ \A r, s \in DOMAIN rows :
             rows[r].label = rows[s].label \/ None \in {rows[r].label, rows[s].label}
        /\ \E r \in DOMAIN rows : {s \in DOMAIN rows : rows[s].rgb} = {r}

Acquiring(o, point) == pc = point /\ op \in o

EnumerateKeyboard ==
  /\ Acquiring(KeyboardOps, "enumerate")
  /\ node[selection.path] # None
  /\ Listed(Behind(selection.path))
  /\ view' = Behind(selection.path)
  /\ pc' = "open"
  /\ UNCHANGED <<world, op, purpose, search, selection, wrote, steady, past>>

\* open_path goes by the path again.
OpenKeyboard ==
  /\ Acquiring(KeyboardOps, "open")
  /\ node[selection.path] # None
  /\ selection.path \in granted
  /\ view' = Behind(selection.path)
  /\ pc' = "compare"
  /\ UNCHANGED <<world, op, purpose, search, selection, wrote, steady, past>>

\* Mutant: the descriptor is taken as discovery saw it.
OpenedKeyboardUnhashed == view.unit \in Keyboards /\ view.interface = 0

\* validate_opened_keyboard, over what the handle says.
OpenedKeyboard ==
  /\ view.unit \in Keyboards
  /\ view.interface = 0
  /\ Descriptor[view.unit][0] = "hash"

\* The device at the selected bus and port.
EnumerateAwElc ==
  /\ Acquiring(AwElcOps, "enumerate")
  /\ bus[selection.port] # None
  /\ view' = InHand(selection.port, 0)
  /\ pc' = "open"
  /\ UNCHANGED <<world, op, purpose, search, selection, wrote, steady, past>>

\* A device libusb listed cannot be opened once it is unplugged.
OpenAwElc ==
  /\ Acquiring(AwElcOps, "open")
  /\ view.alive
  /\ pc' = "compare"
  /\ UNCHANGED <<world, op, purpose, search, selection, view, wrote, steady, past>>

\* Mutant: the bus and port are enough.
OpenedAwElcAnySerial == view.unit \in Conforming

\* read_bound_serial and validate_aw_identity_and_interface.
OpenedAwElc ==
  /\ view.unit \in Conforming
  /\ selection.serial # None => Serial[view.unit] = selection.serial

Compare ==
  /\ pc = "compare"
  /\ view.alive
  /\ IF op \in KeyboardOps THEN OpenedKeyboard ELSE OpenedAwElc
  /\ pc' = "use"
  /\ UNCHANGED <<world, op, purpose, search, selection, view, wrote, steady, past>>

\* A check fails, or any call does.
AcquireFails ==
  /\ pc \in {"enumerate", "open", "compare"}
  /\ End("failed", {})
  /\ UNCHANGED wrote

\* The first transfer to the device; Executor has what follows.
Use ==
  /\ pc = "use"
  /\ view.alive
  /\ wrote' = [op |-> op, unit |-> view.unit, interface |-> view.interface,
               serial |-> IF op \in AwElcOps THEN selection.serial ELSE None]
  /\ End("wrote", {})

UseFails == pc = "use" /\ ~view.alive /\ End("failed", {}) /\ UNCHANGED wrote

-----------------------------------------------------------------------------
Environment ==
  \/ \E p \in Ports, u \in Units : Plug(p, u)
  \/ \E p \in Ports : Unplug(p)
  \/ \E n \in Nodes : Grant(n)

Discover ==
  \/ List
  \/ \E p \in Ports : Visit(p)
  \/ \E p \in Ports : VisitTorn(p)

Judge == Answer \/ Gate \/ SelectKeyboard \/ SelectAwElc \/ Refuse

Acquire ==
  \/ EnumerateKeyboard \/ OpenKeyboard \/ EnumerateAwElc \/ OpenAwElc
  \/ Compare \/ AcquireFails \/ Use \/ UseFails

Next ==
  \/ Environment
  \/ Doctor
  \/ \E o \in Ops : Command(o)
  \/ Discover
  \/ Judge
  \/ Acquire

Spec == Init /\ [][Next]_vars

-----------------------------------------------------------------------------
(* Whatever is plugged, unplugged and renumbered between discovery, listing  *)
(* and opening, what a command writes to is a confirmed controller on a      *)
(* supported system: interface 0 of a keyboard whose handle gave the pinned  *)
(* descriptor, or a conforming AW-ELC; and colors need the confirmed BIOS.   *)
OnlyConfirmed ==
  wrote # None =>
    /\ dmi.supported
    /\ wrote.op # "status" => dmi.confirmed
    /\ IF wrote.op \in KeyboardOps
       THEN /\ wrote.unit \in Keyboards
            /\ wrote.interface = 0
            /\ Descriptor[wrote.unit][0] = "hash"
       ELSE wrote.unit \in Conforming

(* An AW-ELC command writes to no other unit than the one discovery read a   *)
(* serial of, even if that one was replaced at its port meanwhile.           *)
SerialBound ==
  wrote # None /\ wrote.serial # None => Serial[wrote.unit] = wrote.serial

\* One keyboard, with the pinned descriptor on interface 0 only.
Plain ==
  \E k \in Ports :
    /\ {p \in Ports : bus[p] \in Keyboards} = {k}
    /\ \A i \in Interfaces[bus[k]] : Descriptor[bus[k]][i] = "hash" => i = 0

\* The controller an operation needs.
Needs(o) == IF o \in KeyboardOps THEN "keyboard" ELSE "chassis"

\* The last two runs, on a bus that did not change meanwhile.
Runs == {last, before} \ {None}

(* doctor and the executors judge the same bus by different functions.       *)
(* While it does not change, a color is not written to a controller doctor   *)
(* called unready, and no selection refuses one it called ready, if the      *)
(* keyboard is plain.                                                        *)
ReadinessStands ==
  \A d, c \in Runs :
    d.how = "judged" =>
      /\ c.how = "wrote" /\ c.run # "status" => Needs(c.run) \in d.ready
      /\ c.how = "unselected" /\ (Plain \/ c.run \in AwElcOps)
           => Needs(c.run) \notin d.ready

(* The gate in front of an executor refuses nothing the executor would take: *)
(* while the bus does not change, an operation a gate declined does not      *)
(* write without the gate.                                                   *)
GateStands ==
  \A g, c \in Runs : g.how = "gated" /\ c.how = "wrote" => g.run # c.run

(* README.md:145, "Fresh execution-time discovery requires the confirmed     *)
(* BIOS `1.21.0` for all live transports".                                   *)
AllLiveConfirmed == wrote # None => dmi.confirmed
=============================================================================
