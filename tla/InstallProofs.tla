--------------------------- MODULE InstallProofs ---------------------------
(***************************************************************************)
(* For every store, every set of packages and every search order: an       *)
(* install record is only ever found on a whole copy, and the kernel binds *)
(* a brick with dependencies only after an install of its table has run to *)
(* its end in the directory it was copied to.                              *)
(***************************************************************************)
EXTENDS Install, TLAPS

\* What ties the marks on the disk to what the commands did: a stamp was put
\* by an install that ended, a copy about to be recorded is whole.
Marks ==
    /\ \A s \in Slots : Exists(s) => disk[s].stamp = NoTable \/ disk[s].stamp \in resolved[s]
    /\ op.at = "record" => disk[op.slot].whole

InstallInv == InstallTypeOK /\ Marks /\ RecordedIsWhole

\* A directory is a record, which Absent is not taken to be.
LEMMA CopiedIsDir ==
    ASSUME NEW b \in Packages, NEW w \in BOOLEAN, NEW r \in BOOLEAN
    PROVE  /\ Copied(b, w, r) \in Dir
           /\ Copied(b, w, r).stamp = NoTable
           /\ Copied(b, w, r).recorded = FALSE
           /\ Copied(b, w, r).whole = w
  BY InstallAssumption DEF Copied, Dir, Runtimes

LEMMA InitInv == InstallInit => InstallInv
<1> SUFFICES ASSUME InstallInit PROVE InstallInv
  OBVIOUS
<1>1. \A s \in Slots : disk[s] = Absent \/ (disk[s] \in Dir /\ disk[s].stamp = NoTable /\ disk[s].recorded = FALSE)
  <2> TAKE s \in Slots
  <2>1. CASE s \in DOMAIN Shipped
    <3>1. Shipped[s] \in Packages
      BY <2>1, InstallAssumption
    <3> QED BY <2>1, <3>1, CopiedIsDir DEF InstallInit
  <2>2. CASE s \notin DOMAIN Shipped
    BY <2>2 DEF InstallInit
  <2> QED BY <2>1, <2>2
<1>2. disk \in [Slots -> Dir \cup {Absent}]
  BY <1>1 DEF InstallInit
<1> QED BY <1>1, <1>2 DEF InstallInit, InstallInv, InstallTypeOK, Command, Marks, RecordedIsWhole, Exists, Idle

\* A directory that is replaced whole leaves the others as they were.
LEMMA DiskStep ==
    ASSUME InstallInv, NEW s \in Slots, NEW d \in Dir \cup {Absent},
           disk' = [disk EXCEPT ![s] = d]
    PROVE  /\ disk' \in [Slots -> Dir \cup {Absent}]
           /\ disk'[s] = d
           /\ \A x \in Slots \ {s} : disk'[x] = disk[x]
  BY DEF InstallInv, InstallTypeOK

\* What a command holds of its directory while it works there.
LEMMA WorkingDir ==
    ASSUME InstallInv, op.at \in {"record", "resolve", "venv", "packages", "stamp"}
    PROVE  op.slot \in Slots /\ disk[op.slot] \in Dir
  BY DEF InstallInv, InstallTypeOK, Command, Exists, Idle

LEMMA AddKeeps ==
    ASSUME InstallInv, NEW src \in Sources, NEW force, NEW yes \in BOOLEAN, NEW env \in BOOLEAN,
           AddBrick(src, force, yes, env)
    PROVE  InstallInv'
<1> DEFINE b == Package[src]
<1>1. b \in Packages /\ Dest(b) \in Slots /\ Table[b] \in Tables \cup {NoTable}
  BY InstallAssumption DEF Dest, Slot
<1>2. /\ disk' \in [Slots -> Dir \cup {Absent}] /\ disk'[Dest(b)] = Absent
      /\ \A x \in Slots \ {Dest(b)} : disk'[x] = disk[x]
  BY <1>1, DiskStep DEF AddBrick
<1>3. op' \in Command /\ op'.at \in {"asked", "copy"} /\ resolved' = resolved
  BY <1>1 DEF AddBrick, Command
<1> QED BY <1>1, <1>2, <1>3 DEF InstallInv, InstallTypeOK, Marks, RecordedIsWhole, Exists

LEMMA ConsentKeeps ==
    ASSUME InstallInv, NEW yes \in BOOLEAN, Consent(yes)
    PROVE  InstallInv'
<1>1. op' \in Command /\ op'.at \in {"copy", "idle"}
  BY DEF InstallInv, InstallTypeOK, Command, Consent, Idle
<1> QED BY <1>1 DEF InstallInv, InstallTypeOK, Marks, RecordedIsWhole, Exists, Consent

LEMMA CopyKeeps ==
    ASSUME InstallInv, NEW r \in BOOLEAN, CopyTree \/ CopyFails(r)
    PROVE  InstallInv'
<1>0. op.at = "copy"
  BY DEF CopyTree, CopyFails
<1>1. /\ op.slot \in Slots /\ op.body \in Packages
      /\ op \in [at : {"asked", "copy", "record"}, slot : Slots, body : Packages, env : BOOLEAN]
  BY <1>0 DEF InstallInv, InstallTypeOK, Command, Idle
<1>2. PICK w \in BOOLEAN, q \in BOOLEAN :
          /\ disk' = [disk EXCEPT ![op.slot] = Copied(op.body, w, q)]
          /\ (w /\ op' = [op EXCEPT !.at = "record"]) \/ op' = Idle
          /\ resolved' = [resolved EXCEPT ![op.slot] = {}]
  BY DEF CopyTree, CopyFails
<1>3. /\ disk' \in [Slots -> Dir \cup {Absent}] /\ disk'[op.slot] = Copied(op.body, w, q)
      /\ \A x \in Slots \ {op.slot} : disk'[x] = disk[x]
  BY <1>1, <1>2, CopiedIsDir, DiskStep
<1>4. op' \in Command /\ (op'.at = "idle" \/ (op'.at = "record" /\ op'.slot = op.slot /\ w))
  BY <1>1, <1>2 DEF Command, Idle
<1>5. /\ resolved' \in [Slots -> SUBSET Tables]
      /\ \A x \in Slots \ {op.slot} : resolved'[x] = resolved[x]
  BY <1>1, <1>2 DEF InstallInv, InstallTypeOK
<1>6. Copied(op.body, w, q).stamp = NoTable /\ Copied(op.body, w, q).whole = w /\ Copied(op.body, w, q).recorded = FALSE
  BY DEF Copied
<1>7. disk'[op.slot] # Absent
  <2>1. Copied(op.body, w, q) \in Dir
    BY <1>1, InstallAssumption DEF Copied, Dir, Runtimes
  <2> QED BY <1>3, <2>1, AbsentAssumption
<1> QED BY <1>1, <1>3, <1>4, <1>5, <1>6, <1>7 DEF InstallInv, InstallTypeOK, Marks, RecordedIsWhole, Exists

\* A command that goes on in its directory, changing its packages or its marks.
LEMMA WorkKeeps ==
    ASSUME InstallInv, NEW d \in Dir,
           op.at \in {"record", "resolve", "venv", "packages", "stamp"},
           disk' = [disk EXCEPT ![op.slot] = d],
           d.whole = disk[op.slot].whole,
           d.recorded = disk[op.slot].recorded \/ op.at = "record",
           resolved' \in [Slots -> SUBSET Tables],
           \A x \in Slots : resolved[x] \subseteq resolved'[x],
           d.stamp = disk[op.slot].stamp \/ d.stamp \in resolved'[op.slot],
           op' = Idle \/ (op' \in Command /\ op'.at # "record" /\ op'.slot = op.slot)
    PROVE  InstallInv'
<1>1. op.slot \in Slots /\ disk[op.slot] \in Dir
  BY WorkingDir
<1>2. /\ disk' \in [Slots -> Dir \cup {Absent}] /\ disk'[op.slot] = d
      /\ \A x \in Slots \ {op.slot} : disk'[x] = disk[x]
  BY <1>1, DiskStep
<1>3. d # Absent /\ disk[op.slot] # Absent
  BY <1>1, AbsentAssumption
<1>4. InstallTypeOK'
  BY <1>1, <1>2, <1>3 DEF InstallInv, InstallTypeOK, Command, Idle, Exists
<1>5. Marks'
  <2>1. ASSUME NEW x \in Slots, Exists(x)'
        PROVE  disk'[x].stamp = NoTable \/ disk'[x].stamp \in resolved'[x]
    BY <1>1, <1>2, <1>3, <2>1 DEF InstallInv, Marks, Exists
  <2> QED BY <2>1 DEF Marks, Idle
<1>6. RecordedIsWhole'
  <2>1. op.at = "record" => disk[op.slot].whole
    BY DEF InstallInv, Marks
  <2>2. ASSUME NEW x \in Slots, Exists(x)', disk'[x].recorded
        PROVE  disk'[x].whole
    <3>1. CASE x = op.slot
      BY <1>1, <1>2, <1>3, <2>1, <2>2, <3>1 DEF InstallInv, RecordedIsWhole, Exists
    <3>2. CASE x # op.slot
      BY <1>2, <2>2, <3>2 DEF InstallInv, RecordedIsWhole, Exists
    <3> QED BY <3>1, <3>2
  <2> QED BY <2>2 DEF RecordedIsWhole
<1> QED BY <1>4, <1>5, <1>6 DEF InstallInv

LEMMA CommandKeeps ==
    ASSUME InstallInv, WriteRecord \/ ResolveStarts \/ UvVenv \/ InstallPackages \/ PackagesFail \/ Stamp
    PROVE  InstallInv'
<1> DEFINE old == disk[op.slot]
<1>0. op.at \in {"record", "resolve", "venv", "packages", "stamp"}
  BY DEF WriteRecord, ResolveStarts, UvVenv, InstallPackages, PackagesFail, Stamp
<1>1. op.slot \in Slots /\ old \in Dir
  BY <1>0, WorkingDir
<1>2. disk \in [Slots -> Dir \cup {Absent}] /\ resolved \in [Slots -> SUBSET Tables]
  BY DEF InstallInv, InstallTypeOK
<1>3. /\ op.at # "record" => op.table \in Tables
      /\ op.at \in {"venv", "packages", "stamp"} =>
            op \in [at : {"venv", "packages", "stamp"}, slot : Slots, table : Tables]
  BY <1>0 DEF InstallInv, InstallTypeOK, Command, Idle
<1>4. CASE WriteRecord
  <2> DEFINE d == [old EXCEPT !.recorded = TRUE]
  <2>1. op.at = "record" /\ op.body \in Packages
    BY <1>4 DEF WriteRecord, InstallInv, InstallTypeOK, Command, Idle
  <2>2. d \in Dir /\ d.whole = old.whole /\ d.stamp = old.stamp
    BY <1>1 DEF Dir
  <2>3. disk' = [disk EXCEPT ![op.slot] = d] /\ resolved' = resolved
    BY <1>4 DEF WriteRecord
  <2>4. op' = Idle \/ (op' \in Command /\ op'.at # "record" /\ op'.slot = op.slot)
    <3>1. Table[op.body] # NoTable => Table[op.body] \in Tables
      BY <2>1, InstallAssumption
    <3>2. op' = AfterRecord
      BY <1>4 DEF WriteRecord
    <3> QED BY <1>1, <3>1, <3>2 DEF AfterRecord, Command
  <2> HIDE DEF d
  <2> QED BY <1>0, <1>2, <2>1, <2>2, <2>3, <2>4, WorkKeeps
<1>5. CASE ResolveStarts
  <2>1. op' = Idle \/ (op' \in Command /\ op'.at # "record" /\ op'.slot = op.slot)
    BY <1>0, <1>1, <1>3, <1>5 DEF ResolveStarts, Command
  <2>2. CASE disk' = disk
    <3>1. disk' = [disk EXCEPT ![op.slot] = old] /\ resolved' = resolved
      BY <1>1, <1>2, <1>5, <2>2 DEF ResolveStarts
    <3> QED BY <1>0, <1>1, <1>2, <2>1, <3>1, WorkKeeps
  <2>3. CASE disk' # disk
    <3> DEFINE d == [old EXCEPT !.pkgs["python"] = "none"]
    <3>1. d \in Dir /\ d.whole = old.whole /\ d.recorded = old.recorded /\ d.stamp = old.stamp
      BY <1>1 DEF Dir, Runtimes
    <3>2. disk' = [disk EXCEPT ![op.slot] = d] /\ resolved' = resolved
      BY <1>5, <2>3 DEF ResolveStarts
    <3> HIDE DEF d
    <3> QED BY <1>0, <1>2, <2>1, <3>1, <3>2, WorkKeeps
  <2> QED BY <2>2, <2>3
<1>6. CASE UvVenv
  <2> DEFINE d == [old EXCEPT !.pkgs["python"] = "bare"]
  <2>0. op.at = "venv" /\ op \in [at : {"venv", "packages", "stamp"}, slot : Slots, table : Tables]
    BY <1>3, <1>6 DEF UvVenv
  <2>1. d \in Dir /\ d.whole = old.whole /\ d.recorded = old.recorded /\ d.stamp = old.stamp
    BY <1>1, <2>0, InstallAssumption DEF Dir, Runtimes
  <2>2. disk' = [disk EXCEPT ![op.slot] = d] /\ resolved' = resolved
    BY <1>6 DEF UvVenv
  <2>3. op' = Idle \/ (op' \in Command /\ op'.at # "record" /\ op'.slot = op.slot)
    BY <1>1, <2>0, <1>6 DEF UvVenv, Command, Idle
  <2> HIDE DEF d
  <2> QED BY <1>0, <1>2, <2>1, <2>2, <2>3, WorkKeeps
<1>7. CASE InstallPackages
  <2> DEFINE d == [old EXCEPT !.pkgs[Runtime[op.table]] = op.table]
  <2>0. op.at = "packages" /\ op \in [at : {"venv", "packages", "stamp"}, slot : Slots, table : Tables]
    BY <1>3, <1>7 DEF InstallPackages
  <2>1. d \in Dir /\ d.whole = old.whole /\ d.recorded = old.recorded /\ d.stamp = old.stamp
    BY <1>1, <2>0, InstallAssumption DEF Dir, Runtimes
  <2>2. disk' = [disk EXCEPT ![op.slot] = d] /\ resolved' = resolved
    BY <1>7 DEF InstallPackages
  <2>3. op' = Idle \/ (op' \in Command /\ op'.at # "record" /\ op'.slot = op.slot)
    BY <1>1, <2>0, <1>7 DEF InstallPackages, Command, Idle
  <2> HIDE DEF d
  <2> QED BY <1>0, <1>2, <2>1, <2>2, <2>3, WorkKeeps
<1>8. CASE PackagesFail
  <2> DEFINE d == [old EXCEPT !.pkgs[Runtime[op.table]] = "bare"]
  <2>0. op.at = "packages" /\ op \in [at : {"venv", "packages", "stamp"}, slot : Slots, table : Tables]
    BY <1>3, <1>8 DEF PackagesFail
  <2>1. d \in Dir /\ d.whole = old.whole /\ d.recorded = old.recorded /\ d.stamp = old.stamp
    BY <1>1, <2>0, InstallAssumption DEF Dir, Runtimes
  <2>2. disk' = [disk EXCEPT ![op.slot] = d] /\ resolved' = resolved
    BY <1>8 DEF PackagesFail
  <2>3. op' = Idle \/ (op' \in Command /\ op'.at # "record" /\ op'.slot = op.slot)
    BY <1>1, <2>0, <1>8 DEF PackagesFail, Command, Idle
  <2> HIDE DEF d
  <2> QED BY <1>0, <1>2, <2>1, <2>2, <2>3, WorkKeeps
<1>9. CASE Stamp
  <2> DEFINE d == [old EXCEPT !.stamp = op.table]
  <2>1. op.table \in Tables
    BY <1>3, <1>9 DEF Stamp
  <2>2. d \in Dir /\ d.whole = old.whole /\ d.recorded = old.recorded /\ d.stamp = op.table
    BY <1>1, <2>1 DEF Dir
  <2>3. disk' = [disk EXCEPT ![op.slot] = d] /\ op' = Idle
    BY <1>9 DEF Stamp
  <2>4. /\ resolved' \in [Slots -> SUBSET Tables] /\ op.table \in resolved'[op.slot]
        /\ \A x \in Slots : resolved[x] \subseteq resolved'[x]
    BY <1>1, <1>2, <1>9, <2>1 DEF Stamp
  <2> HIDE DEF d
  <2> QED BY <1>0, <2>2, <2>3, <2>4, WorkKeeps
<1> QED BY <1>4, <1>5, <1>6, <1>7, <1>8, <1>9

\* Directories that go, or whose table is edited, keep their marks otherwise.
LEMMA HandsKeep ==
    ASSUME InstallInv,
           \/ \E s \in Slots : RemoveVersion(s[2], s[3]) \/ RemoveBrick(s[2])
           \/ \E s \in Edited, t \in Tables : EditManifest(s, t)
    PROVE  InstallInv'
<1>1. op = Idle /\ op' = op /\ resolved' = resolved
  BY DEF RemoveVersion, RemoveBrick, EditManifest
<1>2. disk \in [Slots -> Dir \cup {Absent}]
  BY DEF InstallInv, InstallTypeOK
<1>3. /\ disk' \in [Slots -> Dir \cup {Absent}]
      /\ \A x \in Slots : \/ disk'[x] = Absent
                          \/ /\ disk[x] # Absent /\ disk'[x].stamp = disk[x].stamp
                             /\ disk'[x].whole = disk[x].whole /\ disk'[x].recorded = disk[x].recorded
  <2>1. ASSUME NEW s \in Slots, RemoveVersion(s[2], s[3]) PROVE <1>3!:
    BY <1>2, <2>1 DEF RemoveVersion
  <2>2. ASSUME NEW s \in Slots, RemoveBrick(s[2]) PROVE <1>3!:
    BY <1>2, <2>2 DEF RemoveBrick
  <2>3. ASSUME NEW s \in Edited, NEW t \in Tables, EditManifest(s, t) PROVE <1>3!:
    <3> DEFINE d == [disk[s] EXCEPT !.table = t]
    <3>1. s \in Slots /\ disk[s] \in Dir /\ disk[s] # Absent
      BY <1>2, <2>3, InstallAssumption DEF EditManifest, Readable, Exists
    <3>2. d \in Dir /\ d.stamp = disk[s].stamp /\ d.whole = disk[s].whole /\ d.recorded = disk[s].recorded
      BY <3>1 DEF Dir
    <3>3. disk' = [disk EXCEPT ![s] = d]
      BY <2>3 DEF EditManifest
    <3> HIDE DEF d
    <3> QED BY <1>2, <3>1, <3>2, <3>3
  <2> QED BY <2>1, <2>2, <2>3
<1> QED BY <1>1, <1>3 DEF InstallInv, InstallTypeOK, Command, Idle, Marks, RecordedIsWhole, Exists

\* Steps that leave the disk, the command and the history alone.
LEMMA QuietKeeps ==
    ASSUME InstallInv, disk' = disk, resolved' = resolved, op' = op
    PROVE  InstallInv'
  BY DEF InstallInv, InstallTypeOK, Marks, RecordedIsWhole, Exists

LEMMA StepInv == InstallInv /\ [InstallNext]_vars => InstallInv'
<1> SUFFICES ASSUME InstallInv, [InstallNext]_vars PROVE InstallInv'
  OBVIOUS
<1>1. ASSUME NEW src \in Sources, NEW force \in BOOLEAN, NEW yes \in BOOLEAN, NEW env \in BOOLEAN,
             AddBrick(src, force, yes, env)
      PROVE  InstallInv'
  BY <1>1, AddKeeps
<1>2. ASSUME NEW yes \in BOOLEAN, Consent(yes) \/ CopyFails(yes) PROVE InstallInv'
  BY <1>2, ConsentKeeps, CopyKeeps
<1>3. CASE CopyTree
  BY <1>3, CopyKeeps, TRUE \in BOOLEAN
<1>4. CASE WriteRecord \/ ResolveStarts \/ UvVenv \/ InstallPackages \/ PackagesFail \/ Stamp
  BY <1>4, CommandKeeps
<1>5. ASSUME NEW s \in Slots, NEW force \in BOOLEAN, BrickInstall(s, force) PROVE InstallInv'
  <2>1. disk[s] \in Dir /\ disk[s] # Absent
    BY <1>5 DEF BrickInstall, Readable, Exists, InstallInv, InstallTypeOK
  <2>2. op' \in Command /\ op'.at = "resolve" /\ op'.slot = s
    BY <1>5, <2>1 DEF BrickInstall, Command, Dir
  <2> QED BY <1>5, <2>1, <2>2 DEF BrickInstall, InstallInv, InstallTypeOK, Marks, RecordedIsWhole, Exists
<1>6. CASE CommandFails
  BY <1>6 DEF CommandFails, InstallInv, InstallTypeOK, Command, Idle, Marks, RecordedIsWhole, Exists
<1>7. CASE \/ \E s \in Slots : RemoveVersion(s[2], s[3]) \/ RemoveBrick(s[2])
           \/ \E s \in Edited, t \in Tables : EditManifest(s, t)
  BY <1>7, HandsKeep
<1>8. CASE (\E v \in Releases : Upgrade(v)) \/ LoadNext \/ UNCHANGED vars
  <2>1. disk' = disk /\ resolved' = resolved /\ op' = op
    BY <1>8 DEF Upgrade, LoadNext, LoadStack, Spawn, KernelGivesUp, Bind, vars
  <2> QED BY <2>1, QuietKeeps
<1> QED BY <1>1, <1>2, <1>3, <1>4, <1>5, <1>6, <1>7, <1>8 DEF InstallNext, CommandNext

\* Through every interruption the store keeps its shape: a command at work in
\* a directory finds it there (acquire.py:286-363, environments.py:81-127).
THEOREM InstallTypeCorrect == InstallSpec => []InstallTypeOK
<1>1. InstallInv => InstallTypeOK
  BY DEF InstallInv
<1> QED BY InitInv, StepInv, <1>1, PTL DEF InstallSpec

\* An install record is only found on a whole copy (acquire.py:317-349).
THEOREM RecordedAlwaysWhole == InstallSpec => []RecordedIsWhole
<1>1. InstallInv => RecordedIsWhole
  BY DEF InstallInv
<1> QED BY InitInv, StepInv, <1>1, PTL DEF InstallSpec

\* What the kernel loads is a directory of the store.
Loading == [at : {"loaded", "spawned", "bound"}, slot : Slots, table : Tables \cup {NoTable}, body : Packages]
LoadedSlot == kernel = Nothing \/ kernel \in Loading

LEMMA LoadedStep == InstallInv /\ LoadedSlot /\ [InstallNext]_vars => LoadedSlot'
<1> SUFFICES ASSUME InstallInv, LoadedSlot, [InstallNext]_vars, kernel' # kernel PROVE LoadedSlot'
  BY DEF LoadedSlot
<1>1. LoadNext
  BY DEF InstallNext, CommandNext, vars, AddBrick, Consent, CopyFails, CopyTree, WriteRecord, BrickInstall,
         ResolveStarts, UvVenv, InstallPackages, PackagesFail, Stamp, CommandFails, RemoveVersion,
         RemoveBrick, EditManifest, Upgrade
<1>2. ASSUME NEW b \in Bindings, LoadStack(b) PROVE LoadedSlot'
  <2> DEFINE s == ResolveRef(b.name, b.pin)
  <2>1. s \in Slots /\ disk[s] \in Dir
    BY <1>2 DEF LoadStack, Readable, Exists, InstallInv, InstallTypeOK
  <2>2. kernel' = [at |-> "loaded", slot |-> s, table |-> disk[s].table, body |-> disk[s].body]
    BY <1>2 DEF LoadStack
  <2> HIDE DEF s
  <2> QED BY <2>1, <2>2 DEF LoadedSlot, Loading, Dir
<1>3. CASE KernelGivesUp
  BY <1>3 DEF KernelGivesUp, LoadedSlot, Nothing
<1>4. CASE Spawn \/ \E reported \in SUBSET Contracts : Bind(reported)
  <2>1. kernel \in Loading
    BY <1>4 DEF Spawn, Bind, LoadedSlot, Nothing
  <2>2. kernel' = [kernel EXCEPT !.at = "spawned"] \/ kernel' = [kernel EXCEPT !.at = "bound"]
    BY <1>4 DEF Spawn, Bind
  <2> QED BY <2>1, <2>2 DEF LoadedSlot, Loading
<1> QED BY <1>1, <1>2, <1>3, <1>4 DEF LoadNext

\* A brick with dependencies is bound only after an install of its table ended
\* in its directory (registry.py:63-77, manifest.py:187-203).
THEOREM BoundAlwaysResolved == InstallSpec => BoundWasResolved
<1>1. ASSUME InstallInv, LoadedSlot, [InstallNext]_vars, kernel.at = "spawned", kernel'.at = "bound",
             kernel.table # NoTable
      PROVE  kernel.table \in resolved[kernel.slot]
  <2>1. LoadNext
    BY <1>1 DEF InstallNext, CommandNext, vars, AddBrick, Consent, CopyFails, CopyTree, WriteRecord,
         BrickInstall, ResolveStarts, UvVenv, InstallPackages, PackagesFail, Stamp, CommandFails,
         RemoveVersion, RemoveBrick, EditManifest, Upgrade
  <2>2. EnvironmentState(kernel.slot, kernel.table) \notin {"missing", "stale"}
    BY <1>1, <2>1 DEF LoadNext, LoadStack, Spawn, KernelGivesUp, Bind, Nothing
  <2>3. Exists(kernel.slot) /\ disk[kernel.slot].stamp = kernel.table
    BY <1>1, <2>2 DEF EnvironmentState
  <2> QED BY <1>1, <2>3 DEF InstallInv, Marks, LoadedSlot, Loading, Nothing
<1>2. InstallInit => LoadedSlot
  BY DEF InstallInit, LoadedSlot, Nothing
<1>3. InstallInv /\ LoadedSlot /\ [InstallNext]_vars =>
        [(kernel.at = "spawned" /\ kernel'.at = "bound") =>
            kernel.table = NoTable \/ kernel.table \in resolved[kernel.slot]]_vars
  BY <1>1
<1> QED BY InitInv, StepInv, LoadedStep, <1>2, <1>3, PTL DEF InstallSpec, BoundWasResolved

(* Versions ***************************************************************)

\* A component of a version, zero when the version has no such component.
At(v, i) == IF i <= Len(v) THEN v[i] ELSE 0
Positive == Nat \ {0}

\* The width two versions are padded to does not matter.
LEMMA OlderComponents ==
    ASSUME NEW a \in Seq(Nat), NEW b \in Seq(Nat)
    PROVE  Older(a, b) <=> \E i \in Positive : /\ At(a, i) < At(b, i)
                                               /\ \A j \in 1 .. i - 1 : At(a, j) = At(b, j)
<1> DEFINE w == IF Len(a) > Len(b) THEN Len(a) ELSE Len(b)
<1>1. w \in Nat /\ Len(a) <= w /\ Len(b) <= w
  OBVIOUS
<1>2. \A i \in 1 .. w : Padded(a, w)[i] = At(a, i) /\ Padded(b, w)[i] = At(b, i)
  BY <1>1 DEF Padded, At
<1>3. Older(a, b) <=> \E i \in 1 .. w : /\ Padded(a, w)[i] < Padded(b, w)[i]
                                        /\ \A j \in 1 .. i - 1 : Padded(a, w)[j] = Padded(b, w)[j]
  BY DEF Older
<1>4. \A i \in Positive : At(a, i) < At(b, i) => i \in 1 .. w
  BY <1>1 DEF At, Positive
<1> HIDE DEF w
<1>5. \A i \in 1 .. w : i \in Positive /\ \A j \in 1 .. i - 1 : j \in 1 .. w
  BY <1>1 DEF Positive
<1> QED BY <1>1, <1>2, <1>3, <1>4, <1>5

LEMMA OlderTransitive ==
    ASSUME NEW a \in Seq(Nat), NEW b \in Seq(Nat), NEW c \in Seq(Nat), Older(a, b), Older(b, c)
    PROVE  Older(a, c)
<1>1. \A i \in Positive : At(a, i) \in Nat /\ At(b, i) \in Nat /\ At(c, i) \in Nat
  BY DEF At, Positive
<1>2. PICK i \in Positive : At(a, i) < At(b, i) /\ \A j \in 1 .. i - 1 : At(a, j) = At(b, j)
  BY OlderComponents
<1>3. PICK k \in Positive : At(b, k) < At(c, k) /\ \A j \in 1 .. k - 1 : At(b, j) = At(c, j)
  BY OlderComponents
<1>4. CASE i <= k
  <2>1. i = k => At(a, i) < At(c, i)
    <3> SUFFICES ASSUME i = k PROVE At(a, i) < At(c, i)
      OBVIOUS
    <3>1. At(a, i) < At(b, i) /\ At(b, i) < At(c, i)
      BY <1>2, <1>3
    <3> QED BY <1>1, <3>1
  <2>2. i < k => At(a, i) < At(c, i)
    BY <1>2, <1>3 DEF Positive
  <2>3. \A j \in 1 .. i - 1 : At(a, j) = At(c, j)
    BY <1>2, <1>3, <1>4 DEF Positive
  <2>4. At(a, i) < At(c, i)
    BY <1>4, <2>1, <2>2 DEF Positive
  <2> QED BY <2>3, <2>4, OlderComponents
<1>5. CASE k < i
  <2>1. At(a, k) < At(c, k)
    BY <1>2, <1>3, <1>5 DEF Positive
  <2>2. \A j \in 1 .. k - 1 : At(a, j) = At(c, j)
    BY <1>2, <1>3, <1>5 DEF Positive
  <2> QED BY <2>1, <2>2, OlderComponents
<1> QED BY <1>4, <1>5 DEF Positive

LEMMA SameComponents ==
    ASSUME NEW a \in Seq(Nat), NEW b \in Seq(Nat), NEW n \in Nat, n <= Len(a) + Len(b)
    PROVE  SameRelease(a, b, n) <=> \A i \in 1 .. n : At(a, i) = At(b, i)
<1> DEFINE w == Len(a) + Len(b)
<1>1. \A i \in 1 .. n : Padded(a, w)[i] = At(a, i) /\ Padded(b, w)[i] = At(b, i)
  BY DEF Padded, At
<1>2. SameRelease(a, b, n) <=> \A i \in 1 .. n : Padded(a, w)[i] = Padded(b, w)[i]
  BY DEF SameRelease
<1> HIDE DEF w
<1> QED BY <1>1, <1>2

\* The order of versions, as clauses compare them, lets a brick that asks for a
\* compatible release survive every upgrade within its series: two versions
\* that agree on the series agree with the clause on all it fixes
\* (versions.py:29-45, 72-84).
THEOREM UpgradesStayCompatible == InstallSpec => CompatibleUpgradeLoads
<1> DEFINE Released == running \in Releases
<1>1. InstallInit => Released
  BY DEF InstallInit
<1>2. Released /\ [InstallNext]_vars => Released'
  BY DEF InstallNext, CommandNext, LoadNext, vars, AddBrick, Consent, CopyFails, CopyTree, WriteRecord,
         BrickInstall, ResolveStarts, UvVenv, InstallPackages, PackagesFail, Stamp, CommandFails,
         RemoveVersion, RemoveBrick, EditManifest, Upgrade, LoadStack, Spawn, Bind, KernelGivesUp
<1>3. ASSUME NEW v \in Releases, NEW u \in Releases, NEW b \in Packages, NEW c \in Needs[b],
             c.op = "~=", Len(c.target) <= 3, SatisfiesClause(v, c), Older(v, u), SameRelease(v, u, 2)
      PROVE  SatisfiesClause(u, c)
  <2>1. v \in Seq(Nat) /\ u \in Seq(Nat) /\ c.target \in Seq(Nat) /\ Len(v) + Len(u) >= 2
    BY InstallAssumption
  <2>2. Len(c.target) >= 2 /\ ~ Older(v, c.target) /\ SameRelease(v, c.target, Len(c.target) - 1)
    BY <1>3 DEF SatisfiesClause
  <2>3. ~ Older(u, c.target)
    BY <1>3, <2>1, <2>2, OlderTransitive
  <2> DEFINE n == Len(c.target) - 1
  <2>4. n \in Nat /\ n <= 2 /\ n <= Len(v) + Len(c.target) /\ n <= Len(u) + Len(c.target)
    BY <1>3, <2>1, <2>2
  <2>5. \A i \in 1 .. 2 : At(v, i) = At(u, i)
    BY <1>3, <2>1, SameComponents
  <2> HIDE DEF n
  <2>6. \A i \in 1 .. n : At(v, i) = At(c.target, i)
    BY <2>1, <2>2, <2>4, SameComponents DEF n
  <2>7. \A i \in 1 .. n : At(u, i) = At(c.target, i)
    BY <2>4, <2>5, <2>6
  <2>8. SameRelease(u, c.target, n)
    BY <2>1, <2>4, <2>7, SameComponents
  <2> QED BY <1>3, <2>2, <2>3, <2>8 DEF SatisfiesClause, n
<1>4. Released /\ Released' =>
        (running' # running => \A b \in Packages : \A c \in Needs[b] :
            (/\ c.op = "~=" /\ Len(c.target) <= 3 /\ SatisfiesClause(running, c)
             /\ Older(running, running') /\ SameRelease(running, running', 2)) =>
                SatisfiesClause(running', c))
  BY <1>3
<1> QED BY <1>1, <1>2, <1>4, PTL DEF InstallSpec, CompatibleUpgradeLoads
=============================================================================
