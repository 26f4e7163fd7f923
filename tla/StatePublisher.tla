--------------------------- MODULE StatePublisher ---------------------------
(***************************************************************************)
(* state._Publisher and the stores that publish through it (queue,         *)
(* history, session, settings): a snapshot and its version are taken       *)
(* together under the store's lock, and written outside it.  The process   *)
(* may die between any two steps and starts again from the file.           *)
(*                                                                         *)
(* A store value is the number of the mutation that produced it.           *)
(***************************************************************************)
EXTENDS Naturals

CONSTANTS Writers,       \* threads that mutate and persist one store
          NoWriter,      \* the holder of a free write lock
          MaxMutations   \* bound on the number of mutations

ASSUME WriterAssumption == NoWriter \notin Writers
ASSUME MaxMutationsAssumption == MaxMutations \in Nat

VARIABLES
    memory,     \* the store's global, behind its store lock
    disk,       \* the JSON file os.replace left behind
    version,    \* _version
    written,    \* _written
    writeLock,  \* the holder of _write_lock
    failing,    \* persistence_health() lists this file
    pc,         \* per writer: its next step
    ticket,     \* per writer: the version it reserved
    payload,    \* per writer: the snapshot it took
    clock,      \* history: mutations so far, in every incarnation
    acked,      \* history: the newest mutation reported as saved
    faultless   \* history: no write has failed since the process started

vars == <<memory, disk, version, written, writeLock, failing, pc, ticket, payload,
          clock, acked, faultless>>

Steps == {"idle", "dirty", "publish", "writing", "replaced", "unwritten"}

Init ==
    /\ memory = 0 /\ disk = 0 /\ clock = 0 /\ acked = 0
    /\ version = 0 /\ written = 0 /\ writeLock = NoWriter
    /\ failing = FALSE /\ faultless = TRUE
    /\ pc = [w \in Writers |-> "idle"]
    /\ ticket = [w \in Writers |-> 0]
    /\ payload = [w \in Writers |-> 0]

Goto(w, step) == pc' = [pc EXCEPT ![w] = step]
At(w, step) == pc[w] = step
Later(a, b) == IF a > b THEN a ELSE b

-----------------------------------------------------------------------------
MutateStore ==
    /\ clock < MaxMutations
    /\ clock' = clock + 1
    /\ memory' = clock + 1

\* Under the store lock: the version orders with the snapshot it describes.
Reserve(w, value) ==
    /\ version' = version + 1
    /\ ticket' = [ticket EXCEPT ![w] = version + 1]
    /\ payload' = [payload EXCEPT ![w] = value]

\* A queue or history edit; it is persisted in a second critical section.
Mutate(w) ==
    /\ At(w, "idle")
    /\ MutateStore
    /\ Goto(w, "dirty")
    /\ UNCHANGED <<disk, version, written, writeLock, failing, ticket, payload,
                   acked, faultless>>

\* persist_queue, persist_history, persist_session, persist_settings.
Persist(w) ==
    /\ pc[w] \in {"idle", "dirty"}
    /\ At(w, "idle") => version < MaxMutations
    /\ Reserve(w, memory)
    /\ Goto(w, "publish")
    /\ UNCHANGED <<memory, disk, written, writeLock, failing, clock, acked, faultless>>

\* update_session and update_settings mutate and reserve in one section.
Update(w) ==
    /\ At(w, "idle")
    /\ MutateStore
    /\ Reserve(w, clock + 1)
    /\ Goto(w, "publish")
    /\ UNCHANGED <<disk, written, writeLock, failing, acked, faultless>>

\* A bug: the version is reserved when the write starts, not with the snapshot.
PublishReserving(w) ==
    /\ At(w, "publish") /\ writeLock = NoWriter
    /\ version' = version + 1
    /\ ticket' = [ticket EXCEPT ![w] = version + 1]
    /\ writeLock' = w
    /\ Goto(w, "writing")
    /\ UNCHANGED <<memory, disk, written, failing, payload, clock, acked, faultless>>

\* A bug: a snapshot is dropped when a newer one exists, written or not.
PublishNewestOnly(w) ==
    /\ At(w, "publish") /\ writeLock = NoWriter
    /\ IF ticket[w] <= version
         THEN Goto(w, "unwritten") /\ UNCHANGED writeLock
         ELSE Goto(w, "writing") /\ writeLock' = w
    /\ UNCHANGED <<memory, disk, version, written, failing, ticket, payload,
                   clock, acked, faultless>>

\* publish: a snapshot that is no longer the newest is dropped.
Publish(w) ==
    /\ At(w, "publish") /\ writeLock = NoWriter
    /\ IF ticket[w] <= written
         THEN Goto(w, "unwritten") /\ UNCHANGED writeLock
         ELSE Goto(w, "writing") /\ writeLock' = w
    /\ UNCHANGED <<memory, disk, version, written, failing, ticket, payload,
                   clock, acked, faultless>>

\* _atomic_write_json: the temporary file replaces the state file.
Replace(w) ==
    /\ At(w, "writing")
    /\ disk' = payload[w]
    /\ Goto(w, "replaced")
    /\ UNCHANGED <<memory, version, written, writeLock, failing, ticket, payload,
                   clock, acked, faultless>>

\* _atomic_write_json fails before the replace and records the failure.
WriteFail(w) ==
    /\ At(w, "writing")
    /\ failing' = TRUE
    /\ faultless' = FALSE
    /\ writeLock' = NoWriter
    /\ Goto(w, "unwritten")
    /\ UNCHANGED <<memory, disk, version, written, ticket, payload, clock, acked>>

\* _record_write_success, then _written, then the caller is told True.
RecordWritten(w) ==
    /\ At(w, "replaced")
    /\ failing' = FALSE
    /\ written' = Later(ticket[w], written)
    /\ writeLock' = NoWriter
    /\ acked' = Later(payload[w], acked)
    /\ Goto(w, "idle")
    /\ UNCHANGED <<memory, disk, version, ticket, payload, clock, faultless>>

\* A bug: every write that was not applied is reported as superseded.
SettleBlindly(w) ==
    /\ At(w, "unwritten")
    /\ acked' = Later(payload[w], acked)
    /\ Goto(w, "idle")
    /\ UNCHANGED <<memory, disk, version, written, writeLock, failing, ticket, payload,
                   clock, faultless>>

\* publish returned False.  update_settings reports success all the same when
\* superseded() finds that a newer snapshot landed.
Settle(w) ==
    /\ At(w, "unwritten")
    /\ acked' = IF ticket[w] <= written THEN Later(payload[w], acked) ELSE acked
    /\ Goto(w, "idle")
    /\ UNCHANGED <<memory, disk, version, written, writeLock, failing, ticket, payload,
                   clock, faultless>>

\* The process dies and loads its file again (_load_persisted_state,
\* _load_persisted_session, load_settings).
Restart ==
    /\ memory' = disk
    /\ version' = 0 /\ written' = 0 /\ writeLock' = NoWriter
    /\ failing' = FALSE /\ faultless' = TRUE
    /\ pc' = [w \in Writers |-> "idle"]
    /\ ticket' = [w \in Writers |-> 0]
    /\ payload' = [w \in Writers |-> 0]
    /\ UNCHANGED <<disk, clock, acked>>

Next ==
    \/ \E w \in Writers :
         \/ Mutate(w) \/ Persist(w) \/ Update(w) \/ Publish(w)
         \/ Replace(w) \/ WriteFail(w) \/ RecordWritten(w) \/ Settle(w)
    \/ Restart

\* A thread that took a snapshot gets to write it; nothing obliges the disk to
\* fail, the users to edit, or the process to die.
Fairness ==
    \A w \in Writers :
      WF_vars((At(w, "dirty") /\ Persist(w)) \/ Publish(w) \/ Replace(w)
              \/ RecordWritten(w) \/ Settle(w))

Spec == Init /\ [][Next]_vars
FairSpec == Spec /\ Fairness

-----------------------------------------------------------------------------
(* Properties *)

\* The shape of the state: no version or value from the future.
TypeOK ==
    /\ clock \in Nat /\ version \in Nat
    /\ memory \in 0..clock /\ disk \in 0..clock /\ acked \in 0..clock
    /\ written \in 0..version
    /\ writeLock \in Writers \cup {NoWriter}
    /\ failing \in BOOLEAN /\ faultless \in BOOLEAN
    /\ pc \in [Writers -> Steps]
    /\ ticket \in [Writers -> 0..version]
    /\ payload \in [Writers -> 0..clock]

\* The state file never goes back to an older state, whatever the order in
\* which the writers reach it and across restarts.
DiskNeverRegresses == [][disk' >= disk]_vars

\* What a caller was told is saved is in the file, and survives a crash; also
\* when the caller's own write was dropped or failed but was superseded.
AckedIsDurable == acked <= disk

\* When no write has failed, the file agrees with memory as soon as nobody is
\* on the way to write it: no mutation is left behind by a dropped snapshot.
FaultlessDiskIsCurrent ==
    faultless /\ (\A w \in Writers : At(w, "idle")) => disk = memory

\* What the file keeps, whatever overtakes, fails and dies: everything that was
\* acknowledged, and without a failed write everything.
SavesAreKept == TypeOK /\ AckedIsDurable /\ FaultlessDiskIsCurrent

\* Every mutation reaches the file, unless a write fails or the process dies.
MutationsAreSaved ==
    \A n \in 1..MaxMutations :
      memory = n ~> (disk >= n \/ ~faultless \/ memory < n)

\* The store keeps the promise of DurableStore.
Store == INSTANCE DurableStore WITH state <- memory, saved <- disk
StoreSpec == Store!Spec
=============================================================================
