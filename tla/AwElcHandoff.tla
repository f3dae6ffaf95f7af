---------------------------- MODULE AwElcHandoff ----------------------------
(***************************************************************************)
(* The AW-ELC transport of src/src/transport/aw_elc.rs and of              *)
(* execute_aw_elc_lock_held and dispatch_aw_elc in transport/mod.rs.  A    *)
(* process takes USB interface 0 away from the kernel driver, claims it,   *)
(* writes the frames of one canonical plan, releases the claim and gives   *)
(* the interface back.  Nothing but the kernel keeps two processes apart,  *)
(* so every libusb call is a step of its own and the processes interleave  *)
(* between any two of them; a process may also be killed there.            *)
(*                                                                         *)
(* The kernel (external, modelled from how the code uses it): `driver' says*)
(* whether a kernel driver is bound to the interface, `claim' which process*)
(* holds it through usbfs.  Either one excludes the other, a claim dies    *)
(* with the file handle, and only an explicit attach binds a driver again. *)
(***************************************************************************)
EXTENDS Naturals, FiniteSets

CONSTANTS
  Proc,        \* the processes that may run an AW-ELC execution
  None,        \* no process
  Frames,      \* the number of frames of a plan (4 static, 34 power profile)
  MaxRuns,     \* bound: executions a process starts
  MaxCrashes   \* bound: processes killed in the middle of an execution

ASSUME HandoffAssumption ==
  /\ None \notin Proc
  /\ Frames \in Nat \ {0}
  /\ MaxRuns \in Nat
  /\ MaxCrashes \in Nat

VARIABLES
  driver,     \* kernel: a driver is bound to interface 0
  claim,      \* kernel: the process holding the usbfs claim, or None
  wire,       \* the last frame the controller took
  pc,         \* the call each process makes next
  detached,   \* HandoffAwElcBackend.detached
  claimed,    \* HandoffAwElcBackend.claimed
  sent,       \* result.steps.len(): the frames reported as transferred
  primary,    \* the error that ended acquisition or dispatch, or "none"
  failures,   \* the cleanup calls of close() that failed
  result,     \* what the execution that ended last returned
  runs,       \* executions started, for the bound
  crashes,    \* processes killed, for the bound
  delivered,  \* history: frames of this execution the controller took
  excused,    \* history: a returned error or a kill accounts for the driver
              \* being unbound since it was last bound
  detacher    \* history: the process whose detach unbound the driver

kernel  == <<driver, claim>>
backend == <<detached, claimed>>
history == <<wire, delivered, excused, detacher>>
vars == <<kernel, backend, history, pc, sent, primary, failures, result,
          runs, crashes>>

Steps == {"idle", "inspect", "detach", "recheck", "claim", "reverify",
          "write", "release", "attach", "return"}

AcquireCodes  ==
  {"preclaim", "detach", "detachUnknown", "claim", "postclaim"}
DispatchCodes == {"backend", "short"}
Cleanups      == {"release", "attach"}
Codes         == {"none", "ok", "preflight", "cleanup", "crashed"}
                   \cup AcquireCodes \cup DispatchCodes

Result == [code : Codes, cleanup : BOOLEAN, completed : 0..Frames,
           attempted : BOOLEAN]

Failed(code) ==
  [code |-> code, cleanup |-> FALSE, completed |-> 0, attempted |-> FALSE]

TypeOK ==
  /\ driver \in BOOLEAN
  /\ claim \in Proc \cup {None}
  /\ wire \in [by : Proc \cup {None}, frame : 0..Frames]
  /\ pc \in [Proc -> Steps]
  /\ detached \in [Proc -> BOOLEAN]
  /\ claimed \in [Proc -> BOOLEAN]
  /\ sent \in [Proc -> 0..Frames]
  /\ primary \in [Proc -> {"none"} \cup AcquireCodes \cup DispatchCodes]
  /\ failures \in [Proc -> SUBSET Cleanups]
  /\ result \in [Proc -> Result]
  /\ runs \in [Proc -> 0..MaxRuns]
  /\ crashes \in 0..MaxCrashes
  /\ delivered \in [Proc -> 0..Frames]
  /\ excused \in BOOLEAN
  /\ detacher \in Proc \cup {None}

\* The interface starts with its driver, or without one for a reason that is
\* not an execution of alienrgb.
Init ==
  /\ driver \in BOOLEAN
  /\ claim = None
  /\ wire = [by |-> None, frame |-> 0]
  /\ pc = [p \in Proc |-> "idle"]
  /\ detached = [p \in Proc |-> FALSE]
  /\ claimed = [p \in Proc |-> FALSE]
  /\ sent = [p \in Proc |-> 0]
  /\ primary = [p \in Proc |-> "none"]
  /\ failures = [p \in Proc |-> {}]
  /\ result = [p \in Proc |-> Failed("none")]
  /\ runs = [p \in Proc |-> 0]
  /\ crashes = 0
  /\ delivered = [p \in Proc |-> 0]
  /\ excused = ~driver
  /\ detacher = None

------------------------------------------------------------------------------
(* The kernel's answers. *)

\* kernel_driver_active: usbfs itself does not count as a driver, and the call
\* may fail.
DriverState == {IF driver THEN "Active" ELSE "Inactive", "Unknown"}

Claimable  == ~driver /\ claim = None
Attachable == ~driver /\ claim = None

------------------------------------------------------------------------------
(* Acquisition: acquire_aw_elc_handoff. *)

Goto(p, step) == pc' = [pc EXCEPT ![p] = step]

\* execute_aw_elc_lock_held: fresh discovery, selection, the BIOS pin and the
\* open of the selected device.  Their failures touch no driver and no claim.
Start(p) ==
  /\ pc[p] = "idle"
  /\ runs[p] < MaxRuns
  /\ runs' = [runs EXCEPT ![p] = @ + 1]
  /\ delivered' = [delivered EXCEPT ![p] = 0]
  /\ \/ /\ result' = [result EXCEPT ![p] = Failed("none")]
        /\ Goto(p, "inspect")
     \/ /\ result' = [result EXCEPT ![p] = Failed("preflight")]
        /\ UNCHANGED pc
  /\ UNCHANGED <<kernel, backend, wire, excused, detacher, sent, primary,
                 failures, crashes>>

\* An acquisition step fails: record why and run close().
Abandon(p, code) ==
  /\ primary' = [primary EXCEPT ![p] = code]
  /\ Goto(p, "release")

\* The opened identity and the driver state before the handoff.  An unknown
\* driver state and a drifted identity both fail before any kernel change.
Inspect(p) ==
  /\ pc[p] = "inspect"
  /\ \/ \E state \in DriverState \ {"Unknown"} :
          /\ Goto(p, IF state = "Active" THEN "detach" ELSE "claim")
          /\ UNCHANGED primary
     \/ Abandon(p, "preclaim")
  /\ UNCHANGED <<kernel, backend, history, sent, failures, result, runs,
                 crashes>>

Detach(p) ==
  /\ pc[p] = "detach"
  /\ driver
  /\ driver' = FALSE
  /\ detacher' = p
  /\ detached' = [detached EXCEPT ![p] = TRUE]
  /\ Goto(p, "claim")
  /\ UNCHANGED <<claim, claimed, wire, delivered, excused, sent, primary,
                 failures, result, runs, crashes>>

\* Mutant: a failed detach is taken for one that left the driver bound.
DetachFailsTrusted(p) ==
  /\ pc[p] = "detach"
  /\ driver' \in {driver, FALSE}
  /\ detacher' = IF driver' # driver THEN p ELSE detacher
  /\ primary' = [primary EXCEPT ![p] = "detach"]
  /\ Goto(p, "release")
  /\ UNCHANGED <<claim, backend, wire, delivered, excused, sent, failures,
                 result, runs, crashes>>

\* The detach reports an error: the driver was gone already, or stays, or went
\* although the call failed.
DetachFails(p) ==
  /\ pc[p] = "detach"
  /\ driver' \in {driver, FALSE}
  /\ detacher' = IF driver' # driver THEN p ELSE detacher
  /\ primary' = [primary EXCEPT ![p] = "detach"]
  /\ Goto(p, "recheck")
  /\ UNCHANGED <<claim, backend, wire, delivered, excused, sent, failures,
                 result, runs, crashes>>

\* detach_failure: an inactive driver counts as detached by this process and
\* close() attaches it; otherwise no attach is attempted, and the Drop of the
\* backend closes nothing.  The error says when the state could not be read.
DetachRecheck(p) ==
  /\ pc[p] = "recheck"
  /\ \E state \in DriverState :
       /\ detached' = [detached EXCEPT ![p] = (state = "Inactive")]
       /\ primary' = [primary EXCEPT ![p] =
                        IF state = "Unknown" THEN "detachUnknown" ELSE "detach"]
  /\ Goto(p, "release")
  /\ UNCHANGED <<kernel, claimed, history, sent, failures, result, runs,
                 crashes>>

Claim(p) ==
  /\ pc[p] = "claim"
  /\ Claimable
  /\ claim' = p
  /\ claimed' = [claimed EXCEPT ![p] = TRUE]
  /\ Goto(p, "reverify")
  /\ UNCHANGED <<driver, detached, history, sent, primary, failures, result,
                 runs, crashes>>

\* Mutant: the error of the claim is dropped.
ClaimFailsIgnored(p) ==
  /\ pc[p] = "claim"
  /\ claimed' = [claimed EXCEPT ![p] = TRUE]
  /\ Goto(p, "reverify")
  /\ UNCHANGED <<kernel, detached, history, sent, primary, failures, result,
                 runs, crashes>>

ClaimFails(p) ==
  /\ pc[p] = "claim"
  /\ Abandon(p, "claim")
  /\ UNCHANGED <<kernel, backend, history, sent, failures, result, runs,
                 crashes>>

\* The identity again, and a driver state that must now be inactive.
Reverify(p) ==
  /\ pc[p] = "reverify"
  /\ \/ "Inactive" \in DriverState /\ Goto(p, "write") /\ UNCHANGED primary
     \/ Abandon(p, "postclaim")
  /\ UNCHANGED <<kernel, backend, history, sent, failures, result, runs,
                 crashes>>

------------------------------------------------------------------------------
(* Dispatch: dispatch_aw_elc, each frame once and in order. *)

\* Mutant: the plan starts with its second frame.
ReachFromSecond(p) ==
  /\ wire' = [by |-> p, frame |-> ((sent[p] + 1) % Frames) + 1]
  /\ delivered' = [delivered EXCEPT ![p] = @ + 1]

\* The controller takes frame sent+1 of this process.
Reach(p) ==
  /\ wire' = [by |-> p, frame |-> sent[p] + 1]
  /\ delivered' = [delivered EXCEPT ![p] = @ + 1]

\* Mutant: the loop runs one frame past the plan.
WriteOneMore(p) ==
  /\ pc[p] = "write"
  /\ Reach(p)
  /\ sent' = [sent EXCEPT ![p] = @ + 1]
  /\ IF sent[p] = Frames THEN Goto(p, "release") ELSE UNCHANGED pc
  /\ UNCHANGED <<kernel, backend, excused, detacher, primary, failures,
                 result, runs, crashes>>

\* Mutant: a frame that failed counts as completed.
WriteFailsCounted(p) ==
  /\ pc[p] = "write"
  /\ Reach(p) \/ UNCHANGED <<wire, delivered>>
  /\ sent' = [sent EXCEPT ![p] = @ + 1]
  /\ \E code \in DispatchCodes : Abandon(p, code)
  /\ UNCHANGED <<kernel, backend, excused, detacher, failures, result, runs,
                 crashes>>

\* Mutant: a frame that failed is sent again, behind a new verification.
WriteFailsRetried(p) ==
  /\ pc[p] = "write"
  /\ Goto(p, "reverify")
  /\ UNCHANGED <<kernel, backend, history, sent, primary, failures, result,
                 runs, crashes>>

Write(p) ==
  /\ pc[p] = "write"
  /\ Reach(p)
  /\ sent' = [sent EXCEPT ![p] = @ + 1]
  /\ IF sent[p] + 1 = Frames THEN Goto(p, "release") ELSE UNCHANGED pc
  /\ UNCHANGED <<kernel, backend, excused, detacher, primary, failures,
                 result, runs, crashes>>

\* A backend error (the 500 ms timeout included) or a short transfer ends the
\* dispatch; the frame may have reached the controller all the same.
WriteFails(p) ==
  /\ pc[p] = "write"
  /\ Reach(p) \/ UNCHANGED <<wire, delivered>>
  /\ \E code \in DispatchCodes : Abandon(p, code)
  /\ UNCHANGED <<kernel, backend, excused, detacher, sent, failures, result,
                 runs, crashes>>

------------------------------------------------------------------------------
(* Cleanup: close(), which both calls even when the first one fails.  It    *)
(* clears each flag before the call, so that the close() of Drop after it  *)
(* finds nothing left to do.                                               *)

Release(p) ==
  /\ pc[p] = "release"
  /\ claimed' = [claimed EXCEPT ![p] = FALSE]
  /\ \/ /\ claim' = IF claimed[p] THEN None ELSE claim
        /\ UNCHANGED failures
     \/ /\ claimed[p]
        /\ claim' \in {claim, None}
        /\ failures' = [failures EXCEPT ![p] = @ \cup {"release"}]
  /\ Goto(p, "attach")
  /\ UNCHANGED <<driver, detached, history, sent, primary, result, runs,
                 crashes>>

\* The driver is bound again when it was detached; nothing happens otherwise.
Attach(p) ==
  /\ pc[p] = "attach"
  /\ detached[p] => Attachable
  /\ driver' = (driver \/ detached[p])
  /\ excused' = (excused /\ ~detached[p])
  /\ detached' = [detached EXCEPT ![p] = FALSE]
  /\ Goto(p, "return")
  /\ UNCHANGED <<claim, claimed, wire, delivered, detacher, sent, primary,
                 failures, result, runs, crashes>>

AttachFails(p) ==
  /\ pc[p] = "attach"
  /\ detached[p]
  /\ detached' = [detached EXCEPT ![p] = FALSE]
  /\ failures' = [failures EXCEPT ![p] = @ \cup {"attach"}]
  /\ Goto(p, "return")
  /\ UNCHANGED <<kernel, claimed, history, sent, primary, result, runs,
                 crashes>>

\* The outcome of the execution: map_acquisition_error for an acquisition that
\* failed, the match on (dispatched, cleanup) after a dispatch.
Outcome(p) ==
  IF primary[p] \in AcquireCodes
    THEN [Failed(primary[p]) EXCEPT !.cleanup = failures[p] # {}]
    ELSE [code |-> CASE primary[p] # "none" -> primary[p]
                     [] primary[p] = "none" /\ failures[p] = {} -> "ok"
                     [] OTHER -> "cleanup",
          cleanup |-> failures[p] # {},
          completed |-> sent[p],
          attempted |-> TRUE]

\* The end of a process or of its execution: the locals go, and a claim that is
\* left dies with the device handle.
Drop(p) ==
  /\ claim' = IF claim = p THEN None ELSE claim
  /\ sent' = [sent EXCEPT ![p] = 0]
  /\ primary' = [primary EXCEPT ![p] = "none"]
  /\ failures' = [failures EXCEPT ![p] = {}]
  /\ Goto(p, "idle")

\* What the process still has to do or to say about the driver it may have
\* unbound: an attach, a look at the state, or the report of a failure.
Pending(p) ==
  \/ detached[p]
  \/ pc[p] = "recheck"
  \/ primary[p] = "detachUnknown"
  \/ "attach" \in failures[p]

Return(p) ==
  /\ pc[p] = "return"
  /\ result' = [result EXCEPT ![p] = Outcome(p)]
  /\ excused' = \/ excused
                \/ /\ ~driver
                   /\ Outcome(p).code = "detachUnknown" \/ Outcome(p).cleanup
  /\ Drop(p)
  /\ UNCHANGED <<driver, backend, wire, delivered, detacher, runs, crashes>>

\* The process is killed: the kernel drops its claim and nothing else.
Crash(p) ==
  /\ pc[p] # "idle"
  /\ crashes < MaxCrashes
  /\ crashes' = crashes + 1
  /\ Drop(p)
  /\ detached' = [detached EXCEPT ![p] = FALSE]
  /\ claimed' = [claimed EXCEPT ![p] = FALSE]
  /\ excused' = (excused \/ (~driver /\ Pending(p)))
  /\ result' = [result EXCEPT ![p] = Failed("crashed")]
  /\ UNCHANGED <<driver, wire, delivered, detacher, runs>>

------------------------------------------------------------------------------

Step(p) ==
  \/ Inspect(p)
  \/ Detach(p) \/ DetachFails(p) \/ DetachRecheck(p)
  \/ Claim(p) \/ ClaimFails(p) \/ Reverify(p)
  \/ Write(p) \/ WriteFails(p)
  \/ Release(p) \/ Attach(p) \/ AttachFails(p) \/ Return(p)

Next == \E p \in Proc : Start(p) \/ Step(p) \/ Crash(p)

\* Every call a running execution makes returns: the writes have a timeout and
\* the other calls are system calls of the kernel.  Nobody has to start one.
Fairness == \A p \in Proc : WF_vars(Step(p))

Spec == Init /\ [][Next]_vars
FairSpec == Spec /\ Fairness

------------------------------------------------------------------------------
(* Properties *)

\* A process that writes frames holds the interface alone: the claim is its
\* own and no kernel driver is bound (the postclaim check of
\* acquire_aw_elc_handoff, and the claim being all that separates processes).
SoleWriter ==
  \A p \in Proc : pc[p] = "write" => claim = p /\ ~driver

\* The interface is never left without its driver silently: as long as no
\* driver is bound, some process still has to attach it or to report that it
\* could not, or has reported it, or was killed (close() on every error path of
\* the backend, and the error it returns).
DriverAccounted ==
  ~driver => excused \/ \E p \in Proc : Pending(p)

\* What an execution returns agrees with the controller: the completed steps
\* are frames it took, at most one more frame can have reached it, nothing is
\* taken by an execution that says it attempted no transfer, and "ok" means
\* the whole plan.
ResultHonest ==
  \A p \in Proc :
    LET r == result[p] IN
    (pc[p] = "idle" /\ r.code # "crashed") =>
      /\ r.completed <= delivered[p]
      /\ delivered[p] <= r.completed + 1
      /\ delivered[p] > 0 => r.attempted
      /\ r.code = "ok" => delivered[p] = Frames /\ ~r.cleanup

\* The handoff implements exclusive sessions that present the frames in order.
Session == INSTANCE DeviceSession WITH
  holder <- claim,
  next <- IF claim = None THEN 1 ELSE delivered[claim] + 1

Sessions == Session!Spec

\* Seen from the commands it is a stage of StagedWrite: whatever the handoff and
\* the cleanup meet, the frames of a stage are written once and in order, none
\* behind an error, and never between two frames of another process.
Writing(p) == claim = p /\ pc[p] \in {"reverify", "write"}

Writes == INSTANCE StagedWrite WITH
  Actor <- Proc,
  Part <- {1},
  Frames <- [s \in {1} |-> Frames],
  Plans <- {{1}},
  Shared <- {{1}},
  plan <- [p \in Proc |-> IF Writing(p) THEN {1} ELSE {}],
  taken <- [p \in Proc |-> [s \in {1} |-> delivered[p]]]

StagedWrites == Writes!Spec

\* A running execution has only so many libusb calls left, and no process gives
\* it more: nothing is retried, whatever fails, and close() calls once each.
CallsLeft(p) ==
  CASE pc[p] = "inspect" -> Frames + 7
    [] pc[p] = "detach" -> Frames + 6
    [] pc[p] = "recheck" -> 4
    [] pc[p] = "claim" -> Frames + 5
    [] pc[p] = "reverify" -> Frames + 4
    [] pc[p] = "write" -> (Frames - sent[p]) + 3
    [] pc[p] = "release" -> 3
    [] pc[p] = "attach" -> 2
    [] pc[p] = "return" -> 1
    [] OTHER -> 0

ExecutionBounded ==
  [][\A p \in Proc : pc[p] # "idle" =>
       /\ CallsLeft(p)' <= CallsLeft(p)
       /\ Step(p) => CallsLeft(p)' < CallsLeft(p)]_vars

\* Every execution that was started ends (dispatch aborts on the first error,
\* nothing is retried, and cleanup never waits).
ExecutionsEnd == \A p \in Proc : pc[p] # "idle" ~> pc[p] = "idle"

\* README: the backend "reattaches only when this backend detached it".
ReattachesOwnDetach ==
  [][\A p \in Proc : Attach(p) /\ driver' /\ ~driver => detacher = p]_vars
=============================================================================
