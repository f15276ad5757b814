-------------------------- MODULE StateStoreProofs --------------------------
(***************************************************************************)
(* Proofs about StateStore, for every set of values and every generation   *)
(* bound: the safety invariants, and that the file protocol implements     *)
(* DurableRegister.                                                        *)
(***************************************************************************)
EXTENDS StateStore, TLAPS

-----------------------------------------------------------------------------
(* The inductive invariant: what the disk holds at each point of a write. *)

\* The visible entry is one of the possible ones; an absent one is certain.
Entry == /\ json \in lands
         /\ json = NoFile => lands = {NoFile}

\* A write in progress before its rename has touched nothing but state.next.
BeforeRename ==
  pc \in {"create", "write", "sync", "close", "rename"} =>
    /\ lands = {json} /\ json.state = current /\ shown = current
    /\ target \in States /\ target.gen = current.gen + 1
    /\ creating => current = NoState

Candidate ==
  /\ pc \in {"write", "sync", "close", "rename"} => next.state = target
  /\ pc \in {"write", "sync", "close"} => next \in Files
  /\ pc \in {"close", "rename"} => next = [state |-> target, data |-> "synced"]

\* Between rename and directory sync both entries are possible.
AfterRename ==
  /\ pc \in {"dirsync", "notify"} =>
       /\ target \in States /\ json = [state |-> target, data |-> "synced"]
       /\ target.gen = current.gen + 1 /\ shown = current
       /\ \A f \in lands : f.state \in {current, target}
  /\ pc = "notify" => lands = {json}

\* Only a running write can be the one of initStore.
Creation == creating => pc \in WritePcs

Halted ==
  pc = "halted" => /\ \A f \in lands : f.state \in {current, target}

Opening ==
  pc \in OpenPcs => json # NoFile /\ json.state = current

Serving ==
  pc = "ready" => /\ lands = {json} /\ json \in Files
                  /\ json.state = current /\ shown = current

Truth ==
  verdict.code = "not_committed" =>
    /\ pc \in {"halted", "closed"} \cup OpenPcs
    /\ \A f \in lands : f.state = verdict.before

SafeFiles == \A f \in lands : f = NoFile \/ f.data = "synced"

ShownFloor == \A f \in lands : f.state.gen >= shown.gen

IInv ==
  /\ TypeOK /\ Entry /\ Creation /\ BeforeRename /\ Candidate /\ AfterRename
  /\ Halted /\ Opening /\ Serving /\ Truth /\ SafeFiles /\ ShownFloor

-----------------------------------------------------------------------------
LEMMA InitIInv == Init => IInv
<1> SUFFICES ASSUME Init PROVE IInv  OBVIOUS
<1> USE StoreAssumption DEF Init
<1>1. TypeOK
  <2>1. creating \in BOOLEAN  BY Zenon
  <2>q. QED BY <2>1 DEF TypeOK, Pcs, NoVerdict, Verdicts
<1>2. Entry /\ SafeFiles /\ Creation  BY DEF Entry, SafeFiles, Creation
<1>3. BeforeRename /\ Candidate /\ AfterRename /\ Halted /\ Opening /\ Serving
  BY DEF BeforeRename, Candidate, AfterRename, Halted, Opening, Serving, OpenPcs
<1>4. Truth  BY DEF Truth, NoVerdict
<1>5. ShownFloor  BY DEF ShownFloor, NoFile, NoState
<1>q. QED BY <1>1, <1>2, <1>3, <1>4, <1>5 DEF IInv

\* Every step keeps the types.
LEMMA NextTypeOK == IInv /\ Next => TypeOK'
<1> SUFFICES ASSUME IInv, Next PROVE TypeOK'  OBVIOUS
<1> USE StoreAssumption
<1>1. creating' \in BOOLEAN
  BY Zenon DEF IInv, TypeOK, Next, InitStore, Save, Create, CreateFails, WriteFile,
     SyncFile, CloseFile, WriteFails, Rename, RenameFails, SyncDirectory,
     SyncDirectoryFails, Commit, NotifyFails, OpenRead, OpenClean, OpenSync,
     OpenFails, Stop, PowerLoss, Fail
<1> USE DEF IInv, TypeOK
<1>2. CASE InitStore  BY <1>1, <1>2 DEF InitStore, States, NoVerdict, Verdicts, Pcs, WritePcs
<1>3. CASE Save
  <2>1. current.gen + 1 \in 0..MaxGeneration
    BY <1>3 DEF Save, States, NoState
  <2>q. QED BY <1>1, <1>3, <2>1 DEF Save, States, NoVerdict, Verdicts, Pcs, WritePcs
<1>4. CASE Create
  BY <1>1, <1>4 DEF Create, Files, Pcs, WritePcs, BeforeRename
<1>5. CASE CreateFails \/ WriteFails \/ NotifyFails
  BY <1>1, <1>5 DEF CreateFails, WriteFails, NotifyFails, Fail, Verdicts, Pcs
<1>6. CASE WriteFile \/ SyncFile
  <2>1. next \in Files  BY <1>6 DEF WriteFile, SyncFile, Candidate
  <2>2. next' \in Files  BY <1>6, <2>1 DEF WriteFile, SyncFile, Files
  <2>q. QED BY <1>1, <1>6, <2>2 DEF WriteFile, SyncFile, Pcs, WritePcs
<1>7. CASE CloseFile  BY <1>1, <1>7 DEF CloseFile, Pcs, WritePcs
<1>8. CASE Rename  BY <1>1, <1>8 DEF Rename, RenameFile, Pcs, WritePcs
<1>9. CASE RenameFails
  BY <1>1, <1>9 DEF RenameFails, RenameFile, Fail, Verdicts, Pcs
<1>10. CASE SyncDirectory  BY <1>1, <1>10 DEF SyncDirectory, Pcs, WritePcs
<1>11. CASE SyncDirectoryFails
  BY <1>1, <1>11 DEF SyncDirectoryFails, Fail, Verdicts, Pcs
<1>12. CASE Commit  BY <1>1, <1>12 DEF Commit, Verdicts, Pcs
<1>13. ASSUME NEW minimum \in 0..MaxGeneration, OpenRead(minimum) PROVE TypeOK'
  BY <1>1, <1>13 DEF OpenRead, Files, NoFile, Pcs, OpenPcs
<1>14. CASE OpenClean  BY <1>1, <1>14 DEF OpenClean, Pcs, OpenPcs
<1>15. CASE OpenSync  BY <1>1, <1>15 DEF OpenSync, Pcs, NoVerdict, Verdicts
<1>16. CASE OpenFails  BY <1>1, <1>16 DEF OpenFails, Pcs
<1>17. CASE Stop  BY <1>1, <1>17 DEF Stop, Pcs
<1>18. CASE PowerLoss
  <2>1. json' \in Files \cup {NoFile}
    BY <1>18 DEF PowerLoss, Files, NoFile
  <2>2. next' \in Files \cup {NoFile}
    BY <1>18 DEF PowerLoss, Files, NoFile
  <2>q. QED BY <1>1, <1>18, <2>1, <2>2 DEF PowerLoss, Pcs
<1>q. QED
  BY <1>2, <1>3, <1>4, <1>5, <1>6, <1>7, <1>8, <1>9, <1>10, <1>11, <1>12, <1>13,
     <1>14, <1>15, <1>16, <1>17, <1>18 DEF Next

\* What the invariant says beyond the types.
DiskInv ==
  /\ Entry /\ Creation /\ BeforeRename /\ Candidate /\ AfterRename /\ Halted
  /\ Opening /\ Serving /\ Truth /\ SafeFiles /\ ShownFloor

\* Every step keeps it.
LEMMA NextDiskInv == IInv /\ Next => DiskInv'
<1> SUFFICES ASSUME IInv, Next PROVE DiskInv'  OBVIOUS
<1> USE StoreAssumption
<1>0. /\ \A s \in States \cup {NoState} : s.gen \in Int
      /\ \A f \in Files \cup {NoFile} : f.state \in States \cup {NoState}
      /\ \A f \in Files : f.state \in States
      /\ NoFile \notin Files /\ NoState.gen = -1 /\ NoFile.state = NoState
      /\ \A s \in States : s.gen \in Nat
  BY DEF States, NoState, Files, NoFile
<1> USE <1>0 DEF IInv, TypeOK, DiskInv, Entry, Creation, BeforeRename, Candidate, AfterRename,
      Halted, Opening, Serving, Truth, SafeFiles, ShownFloor, OpenPcs, WritePcs
<1>1. CASE InitStore  BY <1>1 DEF InitStore, NoVerdict, States
<1>2. CASE Save  BY <1>2 DEF Save, NoVerdict, States
<1>3. CASE Create  BY <1>3 DEF Create, Files
<1>4. CASE CreateFails  BY <1>4 DEF CreateFails, Fail
<1>5. CASE WriteFile  BY <1>5 DEF WriteFile, Files
<1>6. CASE SyncFile  BY <1>6 DEF SyncFile, Files
<1>7. CASE CloseFile  BY <1>7 DEF CloseFile
<1>8. CASE WriteFails  BY <1>8 DEF WriteFails, Fail
<1>9. CASE Rename  BY <1>9 DEF Rename, RenameFile
<1>10. CASE RenameFails  BY <1>10 DEF RenameFails, RenameFile, Fail
<1>11. CASE SyncDirectory  BY <1>11 DEF SyncDirectory
<1>12. CASE SyncDirectoryFails  BY <1>12 DEF SyncDirectoryFails, Fail
<1>13. CASE Commit  BY <1>13 DEF Commit, Files
<1>14. CASE NotifyFails  BY <1>14 DEF NotifyFails, Fail
<1>15. ASSUME NEW minimum \in 0..MaxGeneration, OpenRead(minimum) PROVE DiskInv'
  BY <1>15 DEF OpenRead, NoFile
<1>16. CASE OpenClean  BY <1>16 DEF OpenClean
<1>17. CASE OpenSync  BY <1>17 DEF OpenSync, NoVerdict
<1>18. CASE OpenFails  BY <1>18 DEF OpenFails
<1>19. CASE Stop  BY <1>19 DEF Stop
<1>20. CASE PowerLoss  BY <1>20 DEF PowerLoss, NoFile
<1>q. QED
  BY <1>1, <1>2, <1>3, <1>4, <1>5, <1>6, <1>7, <1>8, <1>9, <1>10, <1>11, <1>12, <1>13, <1>14, <1>15, <1>16, <1>17, <1>18, <1>19, <1>20 DEF Next

LEMMA NextIInv == IInv /\ [Next]_vars => IInv'
<1>1. IInv /\ Next => IInv'
  BY NextTypeOK, NextDiskInv DEF IInv, DiskInv
<1>2. IInv /\ UNCHANGED vars => IInv'
  BY DEF vars, IInv, TypeOK, Entry, Creation, BeforeRename, Candidate, AfterRename,
     Halted, Opening, Serving, Truth, SafeFiles, ShownFloor
<1>q. QED BY <1>1, <1>2

\* The invariant holds in every reachable state.
LEMMA AlwaysIInv == Spec => []IInv
BY InitIInv, NextIInv, PTL DEF Spec

-----------------------------------------------------------------------------
(* Theorems *)

\* Type correctness of the store.
THEOREM TypeCorrect == Spec => []TypeOK
<1>1. IInv => TypeOK  BY DEF IInv
<1>q. QED BY <1>1, AlwaysIInv, PTL

\* No failure of write or openStore, and no power loss, leaves a torn
\* state.json.
THEOREM NoTornState == Spec => []NeverTorn
<1>1. IInv => NeverTorn
  BY DEF IInv, NeverTorn, Recoverable, SafeFiles, Entry
<1>q. QED BY <1>1, AlwaysIInv, PTL

\* A generation returned by save or openStore is never rolled back.
THEOREM NoRollback == Spec => []ShownIsDurable
<1>1. IInv => ShownIsDurable
  BY DEF IInv, ShownIsDurable, Recoverable, ShownFloor, Entry
<1>q. QED BY <1>1, AlwaysIInv, PTL

\* write reports STORE_NOT_COMMITTED only when the old state is certain.
THEOREM NotCommittedTruthful == Spec => []NotCommittedIsTrue
<1>1. IInv => NotCommittedIsTrue
  BY DEF IInv, NotCommittedIsTrue, Recoverable, Truth, Entry
<1>q. QED BY <1>1, AlwaysIInv, PTL

\* A failed write leaves the old or the new state, and a node in service
\* agrees with its disk.
THEOREM WritesAreAtomic == Spec => [](OldOrNew /\ ServesDurable)
<1>1. IInv => OldOrNew
  BY DEF IInv, OldOrNew, Recoverable, Entry, BeforeRename, AfterRename, Halted, WritePcs
<1>2. IInv => ServesDurable
  BY DEF IInv, ServesDurable, Recoverable, Serving
<1>q. QED BY <1>1, <1>2, AlwaysIInv, PTL

-----------------------------------------------------------------------------
(* Refinement *)

\* The states state.json may hold; `possible' of the register.
Held == {f.state : f \in Recoverable}

LEMMA RefineInit == Init => Register!ARegisterInit
<1> SUFFICES ASSUME Init PROVE Register!ARegisterInit  OBVIOUS
<1>1. Held = {NoState}  BY DEF Held, Init, Recoverable, NoFile
<1>q. QED BY <1>1 DEF Init, Held, Register!ARegisterInit, WritePcs

\* Each step of the file protocol is a step of the register or a stutter.
LEMMA RefineNext == IInv /\ Next => [Register!ANext]_(Register!avars)
<1> SUFFICES ASSUME IInv, Next PROVE [Register!ANext]_(Register!avars)  OBVIOUS
<1> USE StoreAssumption
<1>0. /\ Recoverable = lands
      /\ IInv' /\ Recoverable' = lands'
  <2>1. IInv'  BY NextIInv
  <2>q. QED BY <2>1 DEF IInv, Entry, Recoverable
<1> DEFINE ph == IF pc = "ready" THEN "up" ELSE IF pc \in WritePcs THEN "busy" ELSE "down"
<1>a. ASSUME UNCHANGED <<lands, shown, target>>, ph' = ph
      PROVE  UNCHANGED Register!avars
  BY <1>0, <1>a DEF Register!avars, Recoverable
<1>b. ASSUME ph' = "down", UNCHANGED <<shown, target>>, lands' # {},
             \A f \in lands' : (\E g \in lands : g.state = f.state)
                               \/ (ph = "busy" /\ f.state = target)
      PROVE  Register!AFail
  <2>1. {f.state : f \in lands'} # {}  BY <1>b
  <2>2. {f.state : f \in lands'} \subseteq {f.state : f \in lands}
          \cup (IF ph = "busy" THEN {target} ELSE {})
    BY <1>b
  <2>q. QED BY <1>0, <1>b, <2>1, <2>2 DEF Register!AFail
<1> HIDE DEF ph
<1>1. CASE InitStore
  <2>1. lands = {NoFile} /\ lands' = {NoFile}
    BY <1>1 DEF InitStore, IInv, Entry
  <2>2. shown = NoState
    <3>1. NoFile.state.gen >= shown.gen  BY <2>1 DEF IInv, ShownFloor
    <3>q. QED BY <3>1 DEF IInv, TypeOK, States, NoState, NoFile
  <2>3. ph = "down" /\ ph' = "busy" /\ shown' = shown
    BY <1>1 DEF InitStore, ph, WritePcs
  <2>4. {f.state : f \in lands} = {NoState} /\ {f.state : f \in lands'} = {NoState}
    BY <2>1 DEF NoFile
  <2>5. target' \in States /\ <<shown, target'>> \in NextGeneration
    BY <1>1, <2>2 DEF InitStore, NextGeneration, States, NoState
  <2>q. QED BY <1>0, <2>3, <2>4, <2>5 DEF Register!ANext, Register!ABegin, ph
<1>2. CASE Save
  <2>1. ph = "up" /\ ph' = "busy" /\ shown' = shown /\ lands' = lands
    BY <1>2 DEF Save, ph, WritePcs
  <2>2. shown = current /\ current.gen + 1 \in 0..MaxGeneration
    BY <1>2 DEF Save, IInv, Serving, TypeOK, States, NoState
  <2>3. target' \in States /\ <<shown, target'>> \in NextGeneration
    BY <1>2, <2>2 DEF Save, NextGeneration, States, IInv, TypeOK
  <2>q. QED BY <1>0, <2>1, <2>3 DEF Register!ANext, Register!ABegin, ph
<1>3. CASE Create \/ WriteFile \/ SyncFile \/ CloseFile
  BY <1>3, <1>a DEF Create, WriteFile, SyncFile, CloseFile, ph, WritePcs
<1>4. CASE CreateFails \/ WriteFails \/ NotifyFails
  <2>1. Register!AFail
    BY <1>4, <1>b DEF CreateFails, WriteFails, NotifyFails, Fail, ph, WritePcs, IInv, TypeOK
  <2>q. QED BY <2>1 DEF Register!ANext
<1>5. CASE Rename
  <2>1. ph = "busy" /\ ph' = "busy" /\ shown' = shown /\ target' = target
    BY <1>5 DEF Rename, ph, WritePcs
  <2>2. lands' = lands \cup {next} /\ next.state = target
    BY <1>5 DEF Rename, RenameFile, IInv, Candidate
  <2>3. {f.state : f \in lands'} = {f.state : f \in lands} \cup {target}
    BY <2>2
  <2>q. QED BY <1>0, <2>1, <2>3 DEF Register!ANext, Register!ALand, ph
<1>6. CASE RenameFails
  <2>1. Register!AFail
    <3>1. \A f \in lands' : f \in lands \/ f.state = target
      BY <1>6 DEF RenameFails, RenameFile, IInv, Candidate
    <3>2. ph = "busy" /\ ph' = "down"  BY <1>6 DEF RenameFails, Fail, ph, WritePcs
    <3>q. QED BY <1>6, <1>b, <3>1, <3>2 DEF RenameFails, RenameFile, Fail, IInv, TypeOK
  <2>q. QED BY <2>1 DEF Register!ANext
<1>7. CASE SyncDirectory
  <2>1. ph = "busy" /\ ph' = "busy" /\ shown' = shown /\ target' = target
    BY <1>7 DEF SyncDirectory, ph, WritePcs
  <2>2. lands' = {json} /\ json \in lands /\ json.state = target
    BY <1>7 DEF SyncDirectory, IInv, Entry, AfterRename
  <2>3. {f.state : f \in lands'} = {target} /\ target \in {f.state : f \in lands}
    BY <2>2
  <2>q. QED BY <1>0, <2>1, <2>3 DEF Register!ANext, Register!ALand, ph
<1>8. CASE SyncDirectoryFails
  <2>1. Register!AFail
    BY <1>8, <1>b DEF SyncDirectoryFails, Fail, ph, WritePcs, IInv, TypeOK, Entry
  <2>q. QED BY <2>1 DEF Register!ANext
<1>9. CASE Commit
  <2>1. ph = "busy" /\ ph' = "up" /\ shown' = target /\ target' = target /\ lands' = lands
    BY <1>9 DEF Commit, ph, WritePcs
  <2>2. lands = {json} /\ json.state = target
    BY <1>9 DEF Commit, IInv, AfterRename
  <2>3. {f.state : f \in lands} = {target}  BY <2>2
  <2>q. QED BY <1>0, <2>1, <2>3 DEF Register!ANext, Register!AAcknowledge, ph
<1>10. ASSUME NEW minimum \in 0..MaxGeneration, OpenRead(minimum)
       PROVE  UNCHANGED Register!avars
  BY <1>10, <1>a DEF OpenRead, ph, WritePcs
<1>11. CASE OpenClean
  BY <1>11, <1>a DEF OpenClean, ph, WritePcs
<1>12. CASE OpenSync
  <2>1. ph = "down" /\ ph' = "up" /\ shown' = current /\ target' = target
    BY <1>12 DEF OpenSync, ph, WritePcs
  <2>2. lands' = {json} /\ json \in lands /\ json.state = current /\ json # NoFile
    BY <1>12 DEF OpenSync, IInv, Entry, Opening, OpenPcs
  <2>3. current # NoState
    BY <2>2 DEF IInv, TypeOK, Files, NoFile, States, NoState
  <2>4. {f.state : f \in lands'} = {current} /\ current \in {f.state : f \in lands}
    BY <2>2
  <2>q. QED BY <1>0, <2>1, <2>3, <2>4 DEF Register!ANext, Register!ARecover, ph
<1>13. CASE OpenFails
  <2>1. Register!AFail
    BY <1>13, <1>b DEF OpenFails, ph, WritePcs, IInv, TypeOK, Entry
  <2>q. QED BY <2>1 DEF Register!ANext
<1>14. CASE Stop
  <2>1. Register!AFail
    BY <1>14, <1>b DEF Stop, ph, WritePcs, IInv, TypeOK
  <2>q. QED BY <2>1 DEF Register!ANext
<1>15. CASE PowerLoss
  <2>1. \E g \in lands : g.state = json'.state
    BY <1>15 DEF PowerLoss, IInv, TypeOK, Files, NoFile
  <2>2. Register!AFail
    BY <1>15, <1>b, <2>1 DEF PowerLoss, ph, WritePcs
  <2>q. QED BY <2>2 DEF Register!ANext
<1>q. QED
  BY <1>1, <1>2, <1>3, <1>4, <1>5, <1>6, <1>7, <1>8, <1>9, <1>10, <1>11, <1>12,
     <1>13, <1>14, <1>15 DEF Next

\* The file protocol of store.go implements the durable register.
THEOREM StoreRefinesRegister == Spec => RegisterRefined
<1>1. UNCHANGED vars => UNCHANGED Register!avars
  BY DEF vars, Register!avars, Recoverable
<1>2. IInv /\ [Next]_vars => [Register!ANext]_(Register!avars)
  BY <1>1, RefineNext
<1>q. QED BY <1>2, RefineInit, AlwaysIInv, PTL DEF Spec, RegisterRefined, Register!ARegisterSpec
=============================================================================
