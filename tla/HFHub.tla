-------------------------------- MODULE HFHub --------------------------------
(***************************************************************************)
(* hubClient (extensions/vectorize/hf/hub.go): processes that share a cache   *)
(* directory fetch the files of one model from the Hugging Face Hub.  A step   *)
(* is one system call or response.  A body that is cut off is an error to who *)
(* reads it.  The hub does not change: the revision is not modelled.          *)
(***************************************************************************)
EXTENDS Integers, Sequences, SequencesExt

CONSTANTS Procs,
          Required, Optional,  \* sequences of the files fetched, in this order
          MaxCalls,            \* bound: calls of fetchModel
          MaxFaults            \* bound: failures of calls and responses, and crashes

Files == Required \o Optional
Name  == ToSet(Files)

ASSUME HFHubAssumption ==
    /\ Required \in Seq(ToSet(Required)) /\ Optional \in Seq(ToSet(Optional))
    /\ Required # <<>> /\ IsInjective(Files)
    /\ MaxCalls \in Nat /\ MaxFaults \in Nat

Content == {"absent", "empty", "part", "whole"}

VARIABLES
    hub,     \* the files that the repository has, any but always the same
    local,   \* the file at its path in the cache
    tmp,     \* the temporary file of the download that p is doing
    pc, at,  \* at[p]: the place in Files of the file that p is at
    got,     \* the files whose paths p has
    calls, faults

vars == <<hub, local, tmp, pc, at, got, calls, faults>>

TypeOK ==
    /\ hub \subseteq Name
    /\ local \in [Name -> Content] /\ tmp \in [Procs -> Content]
    /\ pc \in [Procs -> {"idle", "ok", "err", "stat", "get", "create", "copy", "close",
                         "rename", "remove"}]
    /\ at \in [Procs -> DOMAIN Files]
    /\ got \in [Procs -> SUBSET Name]
    /\ calls \in Nat /\ faults \in Nat

Init ==
    /\ hub \in SUBSET Name
    /\ local = [f \in Name |-> "absent"]
    /\ tmp = [p \in Procs |-> "absent"]
    /\ pc = [p \in Procs |-> "idle"]
    /\ at = [p \in Procs |-> 1]
    /\ got = [p \in Procs |-> {}]
    /\ calls = 0 /\ faults = 0

File(p) == Files[at[p]]

Goto(p, label) == pc' = [pc EXCEPT ![p] = label] /\ UNCHANGED <<at, faults>>

Fail(p, label) ==
    /\ faults < MaxFaults
    /\ faults' = faults + 1
    /\ pc' = [pc EXCEPT ![p] = label]
    /\ UNCHANGED at

\* Mutant: the last file is taken for the last but one.
AdvanceTooFar(p) ==
    /\ at' = [at EXCEPT ![p] = @ + 1]
    /\ pc' = [pc EXCEPT ![p] = IF at[p] > Len(Files) THEN "ok" ELSE "stat"]
    /\ UNCHANGED faults

\* fetchModel goes to the next file, or returns.
Advance(p) ==
    IF at[p] = Len(Files) THEN Goto(p, "ok")
    ELSE /\ at' = [at EXCEPT ![p] = @ + 1]
         /\ pc' = [pc EXCEPT ![p] = "stat"]
         /\ UNCHANGED faults

Have(p) == Advance(p) /\ got' = [got EXCEPT ![p] = @ \union {File(p)}]

\* A model or a file whose path is not safe is refused.
Begin(p) ==
    /\ pc[p] \in {"idle", "ok", "err"} /\ calls < MaxCalls
    /\ calls' = calls + 1
    /\ at' = [at EXCEPT ![p] = 1]
    /\ got' = [got EXCEPT ![p] = {}]
    /\ \E label \in {"stat", "err"} : pc' = [pc EXCEPT ![p] = label]
    /\ UNCHANGED <<hub, local, tmp, faults>>

\* Mutant: an empty file is as good as any.
StatExists(p) ==
    /\ pc[p] = "stat"
    /\ IF local[File(p)] # "absent" THEN Have(p) ELSE Goto(p, "get") /\ UNCHANGED got
    /\ UNCHANGED <<hub, local, tmp, calls>>

Stat(p) ==
    /\ pc[p] = "stat"
    /\ IF local[File(p)] \notin {"absent", "empty"} THEN Have(p)
       ELSE Goto(p, "get") /\ UNCHANGED got
    /\ UNCHANGED <<hub, local, tmp, calls>>

\* A file that the repository does not have is an error only if it is required.
Get(p) ==
    /\ pc[p] = "get"
    /\ \/ File(p) \in hub /\ Goto(p, "create")
       \/ /\ File(p) \notin hub
          /\ IF at[p] > Len(Required) THEN Advance(p) ELSE Goto(p, "err")
       \/ Fail(p, "err")
    /\ UNCHANGED <<hub, local, tmp, got, calls>>

CreateTemp(p) ==
    /\ pc[p] = "create"
    /\ \/ tmp' = [tmp EXCEPT ![p] = "empty"] /\ Goto(p, "copy")
       \/ Fail(p, "err") /\ UNCHANGED tmp
    /\ UNCHANGED <<hub, local, got, calls>>

\* Mutant: the body is written at the path itself.
CopyInPlace(p) ==
    /\ pc[p] = "copy"
    /\ \/ local' = [local EXCEPT ![File(p)] = "part"] /\ Goto(p, "copy") /\ UNCHANGED tmp
       \/ local' = [local EXCEPT ![File(p)] = "whole"] /\ Goto(p, "close")
          /\ tmp' = [tmp EXCEPT ![p] = "whole"]
       \/ Fail(p, "remove") /\ UNCHANGED <<tmp, local>>
    /\ UNCHANGED <<hub, got, calls>>

\* A part of the body, all of it, or an error.
Copy(p) ==
    /\ pc[p] = "copy"
    /\ \/ tmp' = [tmp EXCEPT ![p] = "part"] /\ Goto(p, "copy")
       \/ tmp' = [tmp EXCEPT ![p] = "whole"] /\ Goto(p, "close")
       \/ Fail(p, "remove") /\ UNCHANGED tmp
    /\ UNCHANGED <<hub, local, got, calls>>

Close(p) ==
    /\ pc[p] = "close"
    /\ Goto(p, "rename") \/ Fail(p, "remove")
    /\ UNCHANGED <<hub, local, tmp, got, calls>>

\* Another process may have put its file there meanwhile.
Rename(p) ==
    /\ pc[p] = "rename"
    /\ \/ /\ local' = [local EXCEPT ![File(p)] = tmp[p]]
          /\ tmp' = [tmp EXCEPT ![p] = "absent"]
          /\ Have(p)
       \/ Fail(p, "remove") /\ UNCHANGED <<local, tmp, got>>
    /\ UNCHANGED <<hub, calls>>

RemoveTemp(p) ==
    /\ pc[p] = "remove"
    /\ tmp' = [tmp EXCEPT ![p] = "absent"]
    /\ Goto(p, "err")
    /\ UNCHANGED <<hub, local, got, calls>>

Step(p) ==
    Stat(p) \/ Get(p) \/ CreateTemp(p) \/ Copy(p) \/ Close(p) \/ Rename(p) \/ RemoveTemp(p)

\* The process ends.  Its temporary file stays, under a name that nobody reads.
Kill(p) ==
    /\ pc[p] # "idle"
    /\ Fail(p, "idle")
    /\ tmp' = [tmp EXCEPT ![p] = "absent"]
    /\ UNCHANGED <<hub, local, got, calls>>

\* The machine stops.  Nothing is synced: what was renamed may be there, be gone or
\* have no data yet (of a file system that writes data in parts, more is needed).
PowerLoss ==
    /\ faults < MaxFaults
    /\ faults' = faults + 1
    /\ pc' = [p \in Procs |-> "idle"]
    /\ tmp' = [p \in Procs |-> "absent"]
    /\ \E lost, empty \in SUBSET {f \in Name : local[f] # "absent"} :
          local' = [f \in Name |-> IF f \in lost THEN "absent"
                                   ELSE IF f \in empty THEN "empty" ELSE local[f]]
    /\ UNCHANGED <<hub, at, got, calls>>

Next == PowerLoss \/ \E p \in Procs : Begin(p) \/ Step(p) \/ Kill(p)

Spec == Init /\ [][Next]_vars

-----------------------------------------------------------------------------

\* "A partial download never masquerades as a cached file": whoever is cut off, and
\* however many download the same file.
NoPartialFile == \A f \in Name : local[f] # "part"

\* What fetchModel returns is on disk and whole: all that is required and, of the
\* rest, just what the repository has, whatever was left by those who failed.
ReturnedIsWhole ==
    \A p \in Procs : pc[p] = "ok" =>
        /\ \A f \in got[p] : local[f] = "whole"
        /\ got[p] = ToSet(Required) \union hub
=============================================================================
