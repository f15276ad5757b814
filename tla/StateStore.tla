----------------------------- MODULE StateStore -----------------------------
(***************************************************************************)
(* The file protocol of synthetic/store.go: a node's state is one file     *)
(* state.json, replaced through state.next.                                *)
(*                                                                         *)
(*   initStore, save  -> write: create O_EXCL, write, fsync, close,        *)
(*                       rename, fsync of the directory, notification      *)
(*   openStore        -> read state.json, remove a left-over state.next,   *)
(*                       fsync of the directory                            *)
(*                                                                         *)
(* Any call of the operating system may fail, and the process may stop     *)
(* between any two of them.  A power loss additionally forgets what was    *)
(* not synced: the directory entry of state.json falls back to any of      *)
(* `lands', and a file that was not fsynced may be torn.                   *)
(***************************************************************************)
EXTENDS Integers, FiniteSets

CONSTANTS
  Values,         \* what a state may hold besides its generation
  MaxGeneration   \* bound on the generations

ASSUME StoreAssumption == MaxGeneration \in Nat

VARIABLES
  pc,        \* where the process is; "closed" when no process has the store
  creating,  \* the running write belongs to initStore
  current,   \* st.current
  target,    \* the state being written
  json,      \* state.json as the system shows it
  lands,     \* what state.json may be after a power loss
  next,      \* state.next as the system shows it
  shown,     \* the state a caller was shown last
  verdict    \* the reported outcome of the last write, with the state before it

vars == <<pc, creating, current, target, json, lands, next, shown, verdict>>

NoState == [gen |-> -1, val |-> "none"]
States  == [gen: 0..MaxGeneration, val: Values]

\* A file: the state it was written from and how much of it is safe.
NoFile == [state |-> NoState, data |-> "absent"]
Files  == [state: States, data: {"partial", "written", "synced"}]

WritePcs == {"create", "write", "sync", "close", "rename", "dirsync", "notify"}
OpenPcs  == {"clean", "recover"}
Pcs      == {"closed", "ready", "halted"} \cup WritePcs \cup OpenPcs

Verdicts  == {"none", "committed", "not_committed", "unknown"}
NoVerdict == [code |-> "none", before |-> NoState]

Init ==
  /\ pc = "closed"
  /\ creating = FALSE
  /\ current = NoState
  /\ target = NoState
  /\ json = NoFile
  /\ lands = {NoFile}
  /\ next = NoFile
  /\ shown = NoState
  /\ verdict = NoVerdict

-----------------------------------------------------------------------------
(* write: one action per call, and one for its failure *)

\* Write errors leave the store object unusable; initStore returns none.
Fail(code) ==
  /\ pc' = IF creating THEN "closed" ELSE "halted"
  /\ creating' = FALSE
  /\ verdict' = [code |-> code, before |-> current]
  /\ UNCHANGED <<current, target, shown>>

\* initStore on an empty directory writes generation 0.
InitStore ==
  /\ pc = "closed" /\ json = NoFile /\ next = NoFile
  /\ \E v \in Values : target' = [gen |-> 0, val |-> v]
  /\ pc' = "create" /\ creating' = TRUE
  /\ current' = NoState
  /\ verdict' = NoVerdict
  /\ UNCHANGED <<json, lands, next, shown>>

\* The bug "the generation is not advanced".
Save_sameGeneration ==
  /\ pc = "ready" /\ current.gen < MaxGeneration
  /\ \E v \in Values : target' = [gen |-> current.gen, val |-> v]
  /\ pc' = "create"
  /\ verdict' = NoVerdict
  /\ UNCHANGED <<creating, current, json, lands, next, shown>>

\* save: the successor generation of the current state.
Save ==
  /\ pc = "ready" /\ current.gen < MaxGeneration
  /\ \E v \in Values : target' = [gen |-> current.gen + 1, val |-> v]
  /\ pc' = "create"
  /\ verdict' = NoVerdict
  /\ UNCHANGED <<creating, current, json, lands, next, shown>>

Create ==
  /\ pc = "create" /\ next = NoFile
  /\ next' = [state |-> target, data |-> "partial"]
  /\ pc' = "write"
  /\ UNCHANGED <<creating, current, target, json, lands, shown, verdict>>

\* The call fails, or O_EXCL meets a left-over file.
CreateFails ==
  /\ pc = "create"
  /\ Fail("not_committed")
  /\ UNCHANGED <<json, lands, next>>

WriteFile ==
  /\ pc = "write"
  /\ next' = [next EXCEPT !.data = "written"]
  /\ pc' = "sync"
  /\ UNCHANGED <<creating, current, target, json, lands, shown, verdict>>

\* The bug "rename without waiting for the file's fsync".
SyncFile_skipped ==
  /\ pc = "sync"
  /\ pc' = "close"
  /\ UNCHANGED <<creating, current, target, json, lands, next, shown, verdict>>

SyncFile ==
  /\ pc = "sync"
  /\ next' = [next EXCEPT !.data = "synced"]
  /\ pc' = "close"
  /\ UNCHANGED <<creating, current, target, json, lands, shown, verdict>>

CloseFile ==
  /\ pc = "close"
  /\ pc' = "rename"
  /\ UNCHANGED <<creating, current, target, json, lands, next, shown, verdict>>

\* A short write, a failed fsync or close.
WriteFails ==
  /\ pc \in {"write", "sync", "close"}
  /\ Fail("not_committed")
  /\ UNCHANGED <<json, lands, next>>

RenameFile ==
  /\ json' = next
  /\ next' = NoFile
  /\ lands' = lands \cup {next}

Rename ==
  /\ pc = "rename"
  /\ RenameFile
  /\ pc' = "dirsync"
  /\ UNCHANGED <<creating, current, target, shown, verdict>>

\* The bug "a failed rename is reported as not committed".
RenameFails_notCommitted ==
  /\ pc = "rename"
  /\ RenameFile \/ UNCHANGED <<json, next, lands>>
  /\ Fail("not_committed")

\* rename reported an error: it may still have happened.
RenameFails ==
  /\ pc = "rename"
  /\ RenameFile \/ UNCHANGED <<json, next, lands>>
  /\ Fail("unknown")

SyncDirectory ==
  /\ pc = "dirsync"
  /\ lands' = {json}
  /\ pc' = "notify"
  /\ UNCHANGED <<creating, current, target, json, next, shown, verdict>>

\* The after_rename hook, the directory's open, fsync or close failed.
SyncDirectoryFails ==
  /\ pc = "dirsync"
  /\ lands' = {json} \/ lands' = lands
  /\ Fail("unknown")
  /\ UNCHANGED <<json, next>>

\* write returned nil: save publishes the state.
Commit ==
  /\ pc = "notify"
  /\ pc' = "ready" /\ creating' = FALSE
  /\ current' = target
  /\ shown' = target
  /\ verdict' = [code |-> "committed", before |-> current]
  /\ UNCHANGED <<target, json, lands, next>>

\* The committed hook failed.
NotifyFails ==
  /\ pc = "notify"
  /\ Fail("unknown")
  /\ UNCHANGED <<json, lands, next>>

-----------------------------------------------------------------------------
(* openStore *)

\* A readable state.json of at least the generation the supervisor demands;
\* any other makes openStore fail and leaves everything as it was.
OpenRead(minimum) ==
  /\ pc = "closed"
  /\ json.data \in {"written", "synced"}
  /\ json.state.gen >= minimum
  /\ current' = json.state
  /\ pc' = "clean"
  /\ UNCHANGED <<creating, target, json, lands, next, shown, verdict>>

\* state.next is removed, never promoted.
OpenClean ==
  /\ pc = "clean"
  /\ next' = NoFile
  /\ pc' = "recover"
  /\ UNCHANGED <<creating, current, target, json, lands, shown, verdict>>

\* The bug "the state that was read is handed out without a directory sync".
OpenSync_skipped ==
  /\ pc = "recover"
  /\ pc' = "ready"
  /\ shown' = current
  /\ verdict' = NoVerdict
  /\ UNCHANGED <<creating, current, target, json, lands, next>>

\* The directory is synced before the node sees the state.
OpenSync ==
  /\ pc = "recover"
  /\ lands' = {json}
  /\ pc' = "ready"
  /\ shown' = current
  /\ verdict' = NoVerdict
  /\ UNCHANGED <<creating, current, target, json, next>>

OpenFails ==
  /\ pc \in OpenPcs
  /\ lands' = lands \/ (pc = "recover" /\ lands' = {json})
  /\ pc' = "closed"
  /\ UNCHANGED <<creating, current, target, json, next, shown, verdict>>

-----------------------------------------------------------------------------
(* The environment *)

\* The process ends, or drops a halted store to open it again.
Stop ==
  /\ pc # "closed"
  /\ pc' = "closed" /\ creating' = FALSE
  /\ UNCHANGED <<current, target, json, lands, next, shown, verdict>>

\* Power is lost: unsynced directory entries fall back, unsynced data tears.
PowerLoss ==
  /\ pc' = "closed" /\ creating' = FALSE
  /\ \E f \in lands :
       \/ json' = f
       \/ f.data = "written" /\ json' = [f EXCEPT !.data = "partial"]
  /\ lands' = {json'}
  /\ next' \in {NoFile} \cup (IF next = NoFile THEN {} ELSE {[next EXCEPT !.data = "partial"]})
  /\ UNCHANGED <<current, target, shown, verdict>>

Next ==
  \/ InitStore \/ Save
  \/ Create \/ CreateFails \/ WriteFile \/ SyncFile \/ CloseFile \/ WriteFails
  \/ Rename \/ RenameFails \/ SyncDirectory \/ SyncDirectoryFails
  \/ Commit \/ NotifyFails
  \/ \E minimum \in 0..MaxGeneration : OpenRead(minimum)
  \/ OpenClean \/ OpenSync \/ OpenFails
  \/ Stop \/ PowerLoss

Spec == Init /\ [][Next]_vars

-----------------------------------------------------------------------------
(* Properties *)

\* What state.json may be, now or after a power loss.
Recoverable == {json} \cup lands

\* Every variable has its type.
TypeOK ==
  /\ pc \in Pcs
  /\ creating \in BOOLEAN
  /\ current \in States \cup {NoState}
  /\ target \in States \cup {NoState}
  /\ json \in Files \cup {NoFile} /\ next \in Files \cup {NoFile}
  /\ lands \subseteq Files \cup {NoFile} /\ lands # {}
  /\ shown \in States \cup {NoState}
  /\ verdict \in [code: Verdicts, before: States \cup {NoState}]

\* state.json is absent or complete and safe on disk, whatever failed: no
\* reader ever meets a torn state.
NeverTorn == \A f \in Recoverable : f = NoFile \/ f.data = "synced"

\* A generation that a caller was shown, by a successful save or open, is
\* never taken back: no recovery finds an older one.
ShownIsDurable == \A f \in Recoverable : f.state.gen >= shown.gen

\* STORE_NOT_COMMITTED tells the truth: until the next open, every recovery
\* finds exactly the state before the write.
NotCommittedIsTrue ==
  verdict.code = "not_committed" /\ pc \in {"halted", "closed"} =>
    \A f \in Recoverable : f.state = verdict.before

\* A recovery after any failed write finds the old state or the new one,
\* both whole, and nothing else.
OldOrNew ==
  pc \in WritePcs \cup {"halted"} =>
    \A f \in Recoverable : f.state \in {current, target}

\* A node in service holds what its disk holds, for good.
ServesDurable == pc = "ready" => Recoverable = {json} /\ json.state = current

-----------------------------------------------------------------------------
(* Refinement of DurableRegister *)

\* A save writes the next generation.
NextGeneration ==
  {p \in (States \cup {NoState}) \X States : p[2].gen = p[1].gen + 1}

Register == INSTANCE DurableRegister WITH
  Follows  <- NextGeneration,
  phase    <- IF pc = "ready" THEN "up" ELSE IF pc \in WritePcs THEN "busy" ELSE "down",
  value    <- shown,
  target   <- target,
  possible <- {f.state : f \in Recoverable}

\* The store implements the durable register: what save and openStore show
\* is durable, an unacknowledged write lands whole or not at all, and each
\* recovery settles it.
RegisterRefined == Register!ARegisterSpec
=============================================================================
