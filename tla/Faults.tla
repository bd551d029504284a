-------------------------------- MODULE Faults --------------------------------
(***************************************************************************)
(* What can go wrong around one call, and how often.  The code talks to    *)
(* two services over a network and to a file system; every call it makes   *)
(* can fail, and a remote call can also take effect although its caller is *)
(* told that it failed.                                                    *)
(***************************************************************************)
EXTENDS Naturals

CONSTANTS FaultKinds,     \* the kinds of fault this instance may suffer
          MaxFaults       \* bound: how many faults may happen in one behaviour

VARIABLE faults           \* how many have happened

\* "error" is a call that fails without effect, "lostReply" one that takes
\* effect although it fails, "configError" a cached client config that cannot
\* be written or read; "outage" and "relabel" happen to a node's thunderd and
\* to its zone label, "tamper" to a published object, "corrupt" to a download
\* and "release" to what Thunder serves; "rival" and "overlap" are another
\* node and another operator at work on the same objects.
AllFaultKinds == {"error", "lostReply", "configError", "corrupt", "daemonCrash",
                  "hookCrash", "operatorCrash", "nodeLoss", "outage", "overlap",
                  "relabel", "release", "rival", "tamper"}

ASSUME FaultAssumption ==
    /\ FaultKinds \subseteq AllFaultKinds
    /\ MaxFaults \in Nat

FaultsTypeOK == faults \in 0 .. MaxFaults

Fault(kind) ==
    /\ kind \in FaultKinds
    /\ faults < MaxFaults
    /\ faults' = faults + 1

(***************************************************************************)
(* One remote call: `effect' is what the service does and `none' that it   *)
(* does nothing; `ok' and `fail' are what the caller does on each result.  *)
(***************************************************************************)
Remote(effect, none, ok, fail) ==
    \/ effect /\ ok /\ UNCHANGED faults
    \/ Fault("error") /\ none /\ fail
    \/ Fault("lostReply") /\ effect /\ fail
===============================================================================
