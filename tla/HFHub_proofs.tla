---------------------------- MODULE HFHub_proofs ----------------------------
(***************************************************************************)
(* Theorems about HFHub for any number of processes, any files of a model,    *)
(* and any number of calls and faults.                                        *)
(***************************************************************************)
EXTENDS HFHub, TLAPS

Downloading == {"create", "copy", "close", "rename"}
Running     == {"stat", "get"} \union Downloading

\* The files before place n that a model must or can have.
Wanted      == ToSet(Required) \union hub
WantedTo(n) == {Files[i] : i \in 1..n} \intersect Wanted

\* Nothing is at a path that the repository has not, and nothing cut off.
PathsAreClean == \A f \in Name : local[f] # "part" /\ (local[f] # "absent" => f \in hub)

\* What is about to be renamed is complete, and what is downloaded exists.
TempsAreWhole ==
    \A p \in Procs : /\ pc[p] \in Downloading => File(p) \in hub
                     /\ pc[p] \in {"close", "rename"} => tmp[p] = "whole"

\* A process has the files before the one it is at, as far as there are any.
HasFilesBefore ==
    \A p \in Procs : /\ pc[p] \in Running => got[p] = WantedTo(at[p] - 1)
                     /\ pc[p] = "ok" => got[p] = Wanted

\* What a process has stays whole until a power loss, which ends the process.
HasWhole == \A p \in Procs : pc[p] \in Running \union {"ok"} => \A f \in got[p] : local[f] = "whole"

IInv == TypeOK /\ PathsAreClean /\ TempsAreWhole /\ HasFilesBefore /\ HasWhole

-----------------------------------------------------------------------------

\* The files: required ones come first, and none comes twice.
LEMMA FilesFacts ==
    /\ Len(Files) \in Nat \ {0} /\ DOMAIN Files = 1..Len(Files)
    /\ \A i \in DOMAIN Files : Files[i] \in Name
    /\ \A f \in Name : \E i \in DOMAIN Files : f = Files[i]
    /\ ToSet(Required) \subseteq Name
    /\ \A i \in DOMAIN Files : i > Len(Required) => Files[i] \notin ToSet(Required)
    /\ \A i \in DOMAIN Files : i <= Len(Required) => Files[i] \in ToSet(Required)
  <1> DEFINE R == ToSet(Required)
             O == ToSet(Optional)
  <1>1. Required \in Seq(R) /\ Optional \in Seq(O) /\ Required # <<>>
    BY HFHubAssumption
  <1>2. /\ Len(Required) \in Nat \ {0} /\ Len(Optional) \in Nat
        /\ DOMAIN Required = 1..Len(Required)
    BY <1>1
  <1>3. Required \in Seq(R \union O) /\ Optional \in Seq(R \union O)
    BY <1>1
  <1> HIDE DEF R, O
  <1>4. /\ Files \in Seq(R \union O)
        /\ Len(Files) = Len(Required) + Len(Optional)
        /\ \A i \in 1..Len(Required) : Files[i] = Required[i]
    BY <1>3 DEF Files
  <1>5. DOMAIN Files = 1..Len(Files) /\ Len(Files) \in Nat \ {0}
    BY <1>2, <1>4
  <1>6. Name = {Files[i] : i \in DOMAIN Files}
    BY DEF Name, ToSet
  <1>7. R = {Required[i] : i \in 1..Len(Required)}
    BY <1>2 DEF R, ToSet
  <1>8. \A i \in DOMAIN Files : i <= Len(Required) => Files[i] \in R
    BY <1>2, <1>4, <1>5, <1>7
  <1>9. R \subseteq Name
    BY <1>2, <1>4, <1>5, <1>6, <1>7
  <1>10. \A i, j \in DOMAIN Files : Files[i] = Files[j] => i = j
    BY HFHubAssumption DEF IsInjective
  <1>11. \A i \in DOMAIN Files : i > Len(Required) => Files[i] \notin R
    BY <1>2, <1>4, <1>5, <1>7, <1>10
  <1>12. QED
    BY <1>5, <1>6, <1>8, <1>9, <1>11 DEF R

\* The invariant holds when nothing was fetched yet.
LEMMA InitIInv == Init => IInv
  <1> SUFFICES ASSUME Init PROVE IInv
    OBVIOUS
  <1> USE DEF Init
  <1>1. TypeOK
    BY FilesFacts DEF TypeOK, Content
  <1>2. PathsAreClean /\ TempsAreWhole /\ HasFilesBefore /\ HasWhole
    BY DEF PathsAreClean, TempsAreWhole, HasFilesBefore, HasWhole, Running, Downloading
  <1>3. QED
    BY <1>1, <1>2 DEF IInv

\* What every step but a power loss and a rename leaves alone.
LEMMA QuietIInv ==
    ASSUME IInv, NEW p \in Procs, TypeOK', UNCHANGED <<hub, local>>,
           \A q \in Procs \ {p} : pc'[q] = pc[q] /\ at'[q] = at[q] /\ got'[q] = got[q]
                                  /\ tmp'[q] = tmp[q],
           pc'[p] \in Downloading => File(p)' \in hub,
           pc'[p] \in {"close", "rename"} => tmp'[p] = "whole",
           pc'[p] \in Running => got'[p] = WantedTo(at'[p] - 1),
           pc'[p] = "ok" => got'[p] = Wanted,
           pc'[p] \in Running \union {"ok"} => \A f \in got'[p] : local[f] = "whole"
    PROVE  IInv'
  <1>1. PathsAreClean'
    BY DEF IInv, PathsAreClean
  <1>2. TempsAreWhole'
    BY DEF IInv, TempsAreWhole, File
  <1>3. HasFilesBefore'
    BY DEF IInv, HasFilesBefore, WantedTo, Wanted
  <1>4. HasWhole'
    BY DEF IInv, HasWhole
  <1>5. QED
    BY <1>1, <1>2, <1>3, <1>4 DEF IInv

\* Where a process stands after the file it is at, if it has that file or there is none.
LEMMA AdvanceHas ==
    ASSUME IInv, NEW p \in Procs, pc[p] \in Running, Advance(p), hub' = hub,
           NEW g, g = WantedTo(at[p])
    PROVE  /\ pc' = [pc EXCEPT ![p] = pc'[p]] /\ pc'[p] \in {"stat", "ok"}
           /\ at' = [at EXCEPT ![p] = at'[p]] /\ at'[p] \in DOMAIN Files
           /\ pc'[p] = "stat" => g = WantedTo(at'[p] - 1)
           /\ pc'[p] = "ok" => g = Wanted
           /\ UNCHANGED faults
  <1>1. at[p] \in 1..Len(Files) /\ pc \in [Procs -> {"idle", "ok", "err", "stat", "get", "create", "copy", "close",
                         "rename", "remove"}] /\ at \in [Procs -> DOMAIN Files] /\ hub \subseteq Name
    BY FilesFacts DEF IInv, TypeOK
  <1>2. CASE at[p] = Len(Files)
    <2>1. pc' = [pc EXCEPT ![p] = "ok"] /\ at' = at /\ UNCHANGED faults
      BY <1>2 DEF Advance, Goto
    <2>2. WantedTo(Len(Files)) = Wanted
      BY <1>1, FilesFacts DEF WantedTo, Wanted
    <2>3. QED
      BY <1>1, <1>2, <2>1, <2>2
  <1>3. CASE at[p] # Len(Files)
    <2>1. /\ pc' = [pc EXCEPT ![p] = "stat"] /\ at' = [at EXCEPT ![p] = at[p] + 1]
          /\ UNCHANGED faults
      BY <1>3 DEF Advance
    <2>2. at[p] + 1 \in DOMAIN Files /\ (at[p] + 1) - 1 = at[p]
      BY <1>1, <1>3, FilesFacts
    <2>3. pc'[p] = "stat" /\ at'[p] = at[p] + 1
      BY <1>1, <2>1
    <2>4. QED
      BY <1>1, <2>1, <2>2, <2>3
  <1>4. QED
    BY <1>2, <1>3

\* The wanted files up to the place n are those before it and the one at it.
LEMMA WantedGrows ==
    ASSUME NEW n \in DOMAIN Files
    PROVE  /\ Files[n] \in Wanted => WantedTo(n) = WantedTo(n - 1) \union {Files[n]}
           /\ Files[n] \notin Wanted => WantedTo(n) = WantedTo(n - 1)
  <1>1. n \in 1..Len(Files) /\ Len(Files) \in Nat
    BY FilesFacts
  <1>2. 1..n = (1..(n - 1)) \union {n}
    BY <1>1
  <1>3. {Files[i] : i \in 1..n} = {Files[i] : i \in 1..(n - 1)} \union {Files[n]}
    BY <1>2
  <1>4. QED
    BY <1>3 DEF WantedTo

-----------------------------------------------------------------------------

\* A call of fetchModel that starts has nothing to account for yet.
LEMMA BeginIInv == ASSUME IInv, NEW p \in Procs, Begin(p) PROVE IInv'
  <1>1. TypeOK'
    BY FilesFacts DEF Begin, IInv, TypeOK
  <1>2. at'[p] = 1 /\ got'[p] = {} /\ pc'[p] \in {"stat", "err"}
    BY DEF Begin, IInv, TypeOK
  <1>3. WantedTo(0) = {}
    BY DEF WantedTo
  <1>4. /\ UNCHANGED <<hub, local>>
        /\ \A q \in Procs \ {p} : pc'[q] = pc[q] /\ at'[q] = at[q] /\ got'[q] = got[q]
                                  /\ tmp'[q] = tmp[q]
    BY DEF Begin, IInv, TypeOK
  <1>5. pc'[p] \in Running => got'[p] = WantedTo(at'[p] - 1)
    BY <1>2, <1>3
  <1>6. QED
    BY <1>1, <1>2, <1>4, <1>5, QuietIInv DEF Running, Downloading

\* os.Stat of the cached path: the call takes what is there, or asks the hub for it.
LEMMA StatIInv == ASSUME IInv, NEW p \in Procs, Stat(p) PROVE IInv'
  <1>1. pc[p] = "stat" /\ UNCHANGED <<hub, local, tmp, calls>> /\ at[p] \in DOMAIN Files
    BY DEF Stat, IInv, TypeOK
  <1>2. CASE local[File(p)] \in {"absent", "empty"}
    <2>1. Goto(p, "get") /\ UNCHANGED got
      BY <1>2 DEF Stat
    <2>2. TypeOK'
      BY <1>1, <2>1 DEF Goto, IInv, TypeOK
    <2>3. pc'[p] = "get" /\ at' = at /\ \A q \in Procs \ {p} : pc'[q] = pc[q]
      BY <2>1 DEF Goto, IInv, TypeOK
    <2>4. QED
      BY <1>1, <2>1, <2>2, <2>3, QuietIInv
      DEF IInv, HasFilesBefore, HasWhole, Running, Downloading
  <1>3. CASE local[File(p)] \notin {"absent", "empty"}
    <2>1. Advance(p) /\ got' = [got EXCEPT ![p] = @ \union {File(p)}]
      BY <1>3 DEF Stat, Have
    <2>2. File(p) \in Name
      BY <1>1, FilesFacts DEF File
    <2>3. local[File(p)] = "whole" /\ File(p) \in hub
      BY <1>3, <2>2 DEF IInv, PathsAreClean, TypeOK, Content
    <2>4. got[p] \union {File(p)} = WantedTo(at[p])
      BY <1>1, <2>3, WantedGrows DEF IInv, HasFilesBefore, Running, File, Wanted
    <2>5. /\ pc' = [pc EXCEPT ![p] = pc'[p]] /\ pc'[p] \in {"stat", "ok"}
          /\ at' = [at EXCEPT ![p] = at'[p]] /\ at'[p] \in DOMAIN Files
          /\ pc'[p] = "stat" => got[p] \union {File(p)} = WantedTo(at'[p] - 1)
          /\ pc'[p] = "ok" => got[p] \union {File(p)} = Wanted
          /\ UNCHANGED faults
      BY <1>1, <2>1, <2>4, AdvanceHas DEF Running
    <2>6. TypeOK'
      BY <1>1, <2>1, <2>2, <2>5 DEF IInv, TypeOK
    <2>7. got'[p] = got[p] \union {File(p)}
      BY <2>1 DEF IInv, TypeOK
    <2>8. \A f \in got'[p] : local[f] = "whole"
      BY <1>1, <2>3, <2>7 DEF IInv, HasWhole, Running
    <2>9. \A q \in Procs \ {p} : pc'[q] = pc[q] /\ at'[q] = at[q] /\ got'[q] = got[q]
                                  /\ tmp'[q] = tmp[q]
      BY <1>1, <2>1, <2>5 DEF IInv, TypeOK
    <2>10. QED
      BY <1>1, <2>5, <2>6, <2>7, <2>8, <2>9, QuietIInv DEF Running, Downloading
  <1>4. QED
    BY <1>2, <1>3

\* The answer of the hub: a download begins, the file is skipped, or the call fails.
LEMMA GetIInv == ASSUME IInv, NEW p \in Procs, Get(p) PROVE IInv'
  <1>1. pc[p] = "get" /\ UNCHANGED <<hub, local, tmp, got, calls>> /\ at[p] \in DOMAIN Files
    BY DEF Get, IInv, TypeOK
  <1>2. CASE File(p) \in hub /\ Goto(p, "create")
    <2>1. TypeOK' /\ pc'[p] = "create" /\ at' = at /\ \A q \in Procs \ {p} : pc'[q] = pc[q]
      BY <1>1, <1>2 DEF Goto, IInv, TypeOK
    <2>2. QED
      BY <1>1, <1>2, <2>1, QuietIInv DEF IInv, HasFilesBefore, HasWhole, Running, Downloading, File
  <1>3. CASE File(p) \notin hub /\ at[p] > Len(Required) /\ Advance(p)
    <2>1. File(p) \notin Wanted
      BY <1>1, <1>3, FilesFacts DEF Wanted, File
    <2>2. got[p] = WantedTo(at[p])
      BY <1>1, <2>1, WantedGrows DEF IInv, HasFilesBefore, Running, File
    <2>3. /\ pc' = [pc EXCEPT ![p] = pc'[p]] /\ pc'[p] \in {"stat", "ok"}
          /\ at' = [at EXCEPT ![p] = at'[p]] /\ at'[p] \in DOMAIN Files
          /\ pc'[p] = "stat" => got[p] = WantedTo(at'[p] - 1)
          /\ pc'[p] = "ok" => got[p] = Wanted
          /\ UNCHANGED faults
      BY <1>1, <1>3, <2>2, AdvanceHas DEF Running
    <2>4. TypeOK'
      BY <1>1, <2>3 DEF IInv, TypeOK
    <2>5. \A q \in Procs \ {p} : pc'[q] = pc[q] /\ at'[q] = at[q]
      BY <2>3 DEF IInv, TypeOK
    <2>6. QED
      BY <1>1, <2>3, <2>4, <2>5, QuietIInv DEF IInv, HasWhole, Running, Downloading
  <1>4. CASE Goto(p, "err") \/ Fail(p, "err")
    <2>1. TypeOK' /\ pc'[p] = "err" /\ at' = at /\ \A q \in Procs \ {p} : pc'[q] = pc[q]
      BY <1>1, <1>4 DEF Goto, Fail, IInv, TypeOK
    <2>2. QED
      BY <1>1, <2>1, QuietIInv DEF Running, Downloading
  <1>5. QED
    BY <1>2, <1>3, <1>4 DEF Get

\* The steps of a download but its rename: at a file the repository has.
LEMMA DownloadIInv ==
    ASSUME IInv, NEW p \in Procs, CreateTemp(p) \/ Copy(p) \/ Close(p) \/ RemoveTemp(p) \/ Kill(p)
    PROVE  IInv'
  <1>1. /\ UNCHANGED <<hub, local, at, got, calls>> /\ faults' \in Nat
        /\ \E x \in Content : tmp' = [tmp EXCEPT ![p] = x]
        /\ \E l \in {"copy", "close", "rename", "remove", "err", "idle"} :
              pc' = [pc EXCEPT ![p] = l]
    <2>1. tmp = [tmp EXCEPT ![p] = tmp[p]] /\ tmp[p] \in Content
      BY DEF IInv, TypeOK
    <2>2. QED
      BY <2>1 DEF CreateTemp, Copy, Close, RemoveTemp, Kill, Goto, Fail, IInv, TypeOK, Content
  <1>2. TypeOK'
    BY <1>1 DEF IInv, TypeOK
  <1>3. \A q \in Procs \ {p} : pc'[q] = pc[q] /\ tmp'[q] = tmp[q]
    BY <1>1 DEF IInv, TypeOK
  <1>4. /\ pc'[p] \in Running \union {"ok"} => pc[p] \in Downloading /\ pc'[p] \in Downloading
        /\ pc'[p] \in {"close", "rename"} => tmp'[p] = "whole"
    BY DEF CreateTemp, Copy, Close, RemoveTemp, Kill, Goto, Fail, IInv, TypeOK,
           TempsAreWhole, Running, Downloading
  <1>5. pc'[p] \in Downloading => File(p)' \in hub
    BY <1>1, <1>4 DEF IInv, TempsAreWhole, File, Running
  <1>6. /\ pc'[p] \in Running => got'[p] = WantedTo(at'[p] - 1)
        /\ pc'[p] # "ok"
    BY <1>1, <1>4 DEF IInv, HasFilesBefore, Running, Downloading
  <1>7. pc'[p] \in Running \union {"ok"} => \A f \in got'[p] : local[f] = "whole"
    BY <1>1, <1>4 DEF IInv, HasWhole, Running
  <1>8. QED
    BY <1>1, <1>2, <1>3, <1>4, <1>5, <1>6, <1>7, QuietIInv

\* os.Rename puts a whole file at its path, and the call goes to its next file.
LEMMA RenameIInv == ASSUME IInv, NEW p \in Procs, Rename(p) PROVE IInv'
  <1>1. /\ pc[p] = "rename" /\ UNCHANGED <<hub, calls>> /\ at[p] \in DOMAIN Files
        /\ tmp[p] = "whole" /\ File(p) \in hub
    BY DEF Rename, IInv, TypeOK, TempsAreWhole, Downloading
  <1>2. CASE Fail(p, "remove") /\ UNCHANGED <<local, tmp, got>>
    <2>1. TypeOK' /\ pc'[p] = "remove" /\ at' = at /\ \A q \in Procs \ {p} : pc'[q] = pc[q]
      BY <1>1, <1>2 DEF Fail, IInv, TypeOK
    <2>2. QED
      BY <1>1, <1>2, <2>1, QuietIInv DEF Running, Downloading
  <1>3. CASE local' = [local EXCEPT ![File(p)] = tmp[p]] /\ tmp' = [tmp EXCEPT ![p] = "absent"]
             /\ Have(p)
    <2>1. Advance(p) /\ got' = [got EXCEPT ![p] = @ \union {File(p)}]
      BY <1>3 DEF Have
    <2>2. File(p) \in Name
      BY <1>1, FilesFacts DEF File
    <2>3. /\ local' \in [Name -> Content] /\ local'[File(p)] = "whole"
          /\ \A f \in Name : local'[f] = local[f] \/ (f = File(p) /\ local'[f] = "whole")
      BY <1>1, <1>3, <2>2 DEF IInv, TypeOK, Content
    <2>4. got[p] \union {File(p)} = WantedTo(at[p])
      BY <1>1, WantedGrows DEF IInv, HasFilesBefore, Running, Downloading, File, Wanted
    <2>5. /\ pc' = [pc EXCEPT ![p] = pc'[p]] /\ pc'[p] \in {"stat", "ok"}
          /\ at' = [at EXCEPT ![p] = at'[p]] /\ at'[p] \in DOMAIN Files
          /\ pc'[p] = "stat" => got[p] \union {File(p)} = WantedTo(at'[p] - 1)
          /\ pc'[p] = "ok" => got[p] \union {File(p)} = Wanted
          /\ UNCHANGED faults
      BY <1>1, <2>1, <2>4, AdvanceHas DEF Running, Downloading
    <2>6. TypeOK'
      BY <1>1, <1>3, <2>1, <2>2, <2>3, <2>5 DEF IInv, TypeOK, Content
    <2>7. got'[p] = got[p] \union {File(p)}
      BY <2>1 DEF IInv, TypeOK
    <2>8. \A q \in Procs \ {p} : pc'[q] = pc[q] /\ at'[q] = at[q] /\ got'[q] = got[q]
                                  /\ tmp'[q] = tmp[q]
      BY <1>3, <2>1, <2>5 DEF IInv, TypeOK
    <2>9. PathsAreClean'
      BY <1>1, <2>3 DEF IInv, PathsAreClean
    <2>10. TempsAreWhole'
      BY <1>1, <2>5, <2>8 DEF IInv, TempsAreWhole, File, Downloading
    <2>11. HasFilesBefore'
      BY <1>1, <2>5, <2>7, <2>8
      DEF IInv, HasFilesBefore, WantedTo, Wanted, Running, Downloading
    <2>12. HasWhole'
      <3>1. ASSUME NEW q \in Procs, pc'[q] \in Running \union {"ok"}, NEW f \in got'[q]
            PROVE  local'[f] = "whole"
        <4>1. f \in Name
          BY <2>6 DEF TypeOK
        <4>2. CASE f \in got[q] /\ pc[q] \in Running \union {"ok"}
          BY <2>3, <4>1, <4>2 DEF IInv, HasWhole
        <4>3. CASE q = p
          BY <1>1, <2>3, <2>7, <3>1, <4>2, <4>3 DEF Running, Downloading
        <4>4. QED
          BY <2>8, <3>1, <4>2, <4>3
      <3>2. QED
        BY <3>1 DEF HasWhole, Running, Downloading
    <2>13. QED
      BY <2>6, <2>9, <2>10, <2>11, <2>12 DEF IInv
  <1>4. QED
    BY <1>2, <1>3 DEF Rename

\* A loss of power ends every call, so that files may be gone or empty.
LEMMA PowerLossIInv == ASSUME IInv, PowerLoss PROVE IInv'
  <1>1. UNCHANGED <<hub, at, got, calls>> /\ faults' \in Nat /\ \A p \in Procs : pc'[p] = "idle"
    BY DEF PowerLoss, IInv, TypeOK
  <1>2. /\ local' \in [Name -> Content]
        /\ \A f \in Name : local'[f] \in {"absent", "empty", local[f]}
                           /\ (local'[f] # "absent" => local[f] # "absent")
    <2>1. PICK lost, empty \in SUBSET {f \in Name : local[f] # "absent"} :
                 local' = [f \in Name |-> IF f \in lost THEN "absent"
                                          ELSE IF f \in empty THEN "empty" ELSE local[f]]
      BY DEF PowerLoss
    <2>2. \A f \in Name : local[f] \in Content
      BY DEF IInv, TypeOK
    <2>3. QED
      BY <2>1, <2>2 DEF Content
  <1>3. TypeOK'
    BY <1>1, <1>2 DEF PowerLoss, IInv, TypeOK, Content
  <1>4. PathsAreClean'
    BY <1>1, <1>2 DEF IInv, PathsAreClean
  <1>5. QED
    BY <1>1, <1>3, <1>4
    DEF IInv, TempsAreWhole, HasFilesBefore, HasWhole, Running, Downloading

\* The inductive invariant: paths hold whole files, and a call that is past a required
\* file finds it in the cache.
THEOREM Invariance == Spec => []IInv
  <1>1. IInv /\ [Next]_vars => IInv'
    <2> SUFFICES ASSUME IInv, [Next]_vars PROVE IInv'
      OBVIOUS
    <2>1. CASE UNCHANGED vars
      BY <2>1 DEF vars, IInv, TypeOK, PathsAreClean, TempsAreWhole, HasFilesBefore, HasWhole,
                  File, Wanted, WantedTo
    <2>2. CASE PowerLoss
      BY <2>2, PowerLossIInv
    <2>3. ASSUME NEW p \in Procs, Begin(p) \/ Step(p) \/ Kill(p) PROVE IInv'
      BY <2>3, BeginIInv, StatIInv, GetIInv, DownloadIInv, RenameIInv DEF Step
    <2>4. QED
      BY <2>1, <2>2, <2>3 DEF Next
  <1>2. QED
    BY InitIInv, <1>1, PTL DEF Spec

\* The cache, the processes and their counters keep their types.
THEOREM TypeCorrect == Spec => []TypeOK
  BY Invariance, PTL DEF IInv

\* Nothing cut off is ever at the path of a file, for any number of processes.
THEOREM PartsStayTemporary == Spec => []NoPartialFile
  <1>1. IInv => NoPartialFile
    BY DEF IInv, PathsAreClean, NoPartialFile
  <1>2. QED
    BY <1>1, Invariance, PTL

\* A fetchModel that returned has all that it should, whole.
THEOREM ModelIsWhole == Spec => []ReturnedIsWhole
  <1>1. IInv => ReturnedIsWhole
    BY DEF IInv, HasFilesBefore, HasWhole, Wanted, ReturnedIsWhole
  <1>2. QED
    BY <1>1, Invariance, PTL
=============================================================================
