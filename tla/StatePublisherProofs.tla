------------------------ MODULE StatePublisherProofs ------------------------
(***************************************************************************)
(* The versions order the snapshots, so the file only moves forward, for   *)
(* any number of writers, mutations, failures and restarts; and the store  *)
(* implements DurableStore.                                                *)
(***************************************************************************)
EXTENDS StatePublisher, TLAPS

Pending == {"publish", "writing", "replaced", "unwritten"}
Holding == {"writing", "replaced"}

\* The write lock is held across the write and its record.
LockOK == \A w \in Writers : writeLock = w <=> pc[w] \in Holding

\* Versions and snapshots are taken in the same order, and the file holds the
\* snapshot of the newest version written, or of the one just replaced.
OrderOK ==
    /\ disk <= memory
    /\ \A w \in Writers : pc[w] \in Pending => payload[w] <= memory
    /\ \A v, w \in Writers :
         pc[v] \in Pending /\ pc[w] \in Pending /\ ticket[v] <= ticket[w]
           => payload[v] <= payload[w]
    /\ \A w \in Writers : pc[w] \in Pending /\ ticket[w] > written =>
         \/ disk <= payload[w]
         \/ \E v \in Writers : pc[v] = "replaced" /\ ticket[w] <= ticket[v]
    /\ \A w \in Writers : pc[w] \in Pending /\ ticket[w] <= written => payload[w] <= disk
    /\ \A w \in Writers : pc[w] = "writing" => ticket[w] > written
    /\ \A w \in Writers : pc[w] = "replaced" => disk = payload[w] /\ ticket[w] > written

\* Until a write fails, somebody is on the way to write what the file lacks.
CarriedOK ==
    faultless =>
      \/ disk = memory
      \/ \E w \in Writers :
           \/ pc[w] = "dirty"
           \/ pc[w] \in {"publish", "writing", "replaced"} /\ payload[w] = memory

IInv == TypeOK /\ LockOK /\ OrderOK /\ AckedIsDurable /\ CarriedOK

-----------------------------------------------------------------------------
\* A fresh process has nothing in memory, on disk or on the way.
LEMMA InitInv == Init => IInv
<1> SUFFICES ASSUME Init PROVE IInv
  OBVIOUS
<1>1. \A w \in Writers : pc[w] = "idle" /\ writeLock # w
  BY WriterAssumption DEF Init
<1>2. TypeOK
  <2>1. /\ pc \in [Writers -> Steps]
        /\ ticket \in [Writers -> 0..version] /\ payload \in [Writers -> 0..clock]
    BY DEF Init, Steps
  <2>2. failing \in BOOLEAN /\ faultless \in BOOLEAN
    BY Zenon DEF Init
  <2>3. memory \in 0..clock /\ disk \in 0..clock /\ acked \in 0..clock /\ written \in 0..version
    BY DEF Init
  <2>4. clock \in Nat /\ version \in Nat /\ writeLock \in Writers \cup {NoWriter}
    BY DEF Init
  <2> QED BY <2>1, <2>2, <2>3, <2>4 DEF TypeOK
<1>3. LockOK /\ OrderOK
  BY <1>1 DEF Init, LockOK, OrderOK, Pending, Holding
<1>4. AckedIsDurable /\ CarriedOK
  BY DEF Init, AckedIsDurable, CarriedOK
<1> QED BY <1>2, <1>3, <1>4 DEF IInv

\* Edits and snapshots: a new version is the newest, and so is its payload.
LEMMA SnapshotInv ==
    ASSUME IInv, NEW w \in Writers, Mutate(w) \/ Persist(w) \/ Update(w)
    PROVE  IInv'
<1> USE DEF IInv, Goto, At
<1>1. CASE Mutate(w)
  <2>1. TypeOK' /\ LockOK'
    BY <1>1, WriterAssumption DEF Mutate, MutateStore, TypeOK, LockOK, Steps, Holding
  <2>2. OrderOK' /\ AckedIsDurable'
    BY <1>1 DEF Mutate, MutateStore, TypeOK, OrderOK, AckedIsDurable, Pending
  <2>3. CarriedOK'
    BY <1>1 DEF Mutate, TypeOK, CarriedOK
  <2> QED BY <2>1, <2>2, <2>3
<1>2. CASE Persist(w)
  <2>1. TypeOK' /\ LockOK'
    BY <1>2, WriterAssumption DEF Persist, Reserve, TypeOK, LockOK, Steps, Holding
  <2>2. OrderOK' /\ AckedIsDurable'
    BY <1>2 DEF Persist, Reserve, TypeOK, OrderOK, AckedIsDurable, Pending
  <2>3. CarriedOK'
    BY <1>2 DEF Persist, Reserve, TypeOK, CarriedOK
  <2> QED BY <2>1, <2>2, <2>3
<1>3. CASE Update(w)
  <2>1. TypeOK' /\ LockOK'
    BY <1>3, WriterAssumption DEF Update, MutateStore, Reserve, TypeOK, LockOK, Steps, Holding
  <2>2. OrderOK' /\ AckedIsDurable'
    BY <1>3 DEF Update, MutateStore, Reserve, TypeOK, OrderOK, AckedIsDurable, Pending
  <2>3. CarriedOK'
    BY <1>3 DEF Update, MutateStore, Reserve, TypeOK, CarriedOK
  <2> QED BY <2>1, <2>2, <2>3
<1> QED BY <1>1, <1>2, <1>3

\* The write: only the lock holder is past its version check, so the file it
\* replaces is no newer than its payload.
LEMMA WriteInv ==
    ASSUME IInv, NEW w \in Writers, Publish(w) \/ Replace(w) \/ WriteFail(w)
    PROVE  IInv'
<1> USE DEF IInv, Goto, At
<1>1. CASE Publish(w)
  <2>1. TypeOK' /\ LockOK'
    BY <1>1, WriterAssumption DEF Publish, TypeOK, LockOK, Steps, Holding
  <2>2. OrderOK' /\ AckedIsDurable'
    BY <1>1 DEF Publish, TypeOK, OrderOK, AckedIsDurable, Pending
  <2>3. CarriedOK'
    BY <1>1 DEF Publish, TypeOK, CarriedOK, OrderOK, Pending
  <2> QED BY <2>1, <2>2, <2>3
<1>2. CASE Replace(w)
  <2>1. \A v \in Writers : pc[v] = "replaced" => FALSE
    BY <1>2, WriterAssumption DEF Replace, LockOK, Holding
  <2>2. disk <= payload[w] /\ payload[w] <= memory
    BY <1>2, <2>1 DEF Replace, OrderOK, Pending
  <2>3. TypeOK' /\ LockOK'
    BY <1>2 DEF Replace, TypeOK, LockOK, Steps, Holding
  <2>4. OrderOK'
    BY <1>2, <2>1, <2>2 DEF Replace, TypeOK, OrderOK, Pending
  <2>5. AckedIsDurable' /\ CarriedOK'
    BY <1>2, <2>2 DEF Replace, TypeOK, AckedIsDurable, CarriedOK
  <2> QED BY <2>3, <2>4, <2>5
<1>3. CASE WriteFail(w)
  <2>1. TypeOK' /\ LockOK'
    BY <1>3, WriterAssumption DEF WriteFail, TypeOK, LockOK, Steps, Holding
  <2>2. OrderOK' /\ AckedIsDurable' /\ CarriedOK'
    BY <1>3 DEF WriteFail, TypeOK, OrderOK, AckedIsDurable, CarriedOK, Pending
  <2> QED BY <2>1, <2>2
<1> QED BY <1>1, <1>2, <1>3

\* The record of a write, the answer to the caller, and a restart.
LEMMA SettleInv ==
    ASSUME IInv, NEW w \in Writers, RecordWritten(w) \/ Settle(w)
    PROVE  IInv'
<1> USE DEF IInv, Goto, At, Later
<1>1. CASE RecordWritten(w)
  <2>1. TypeOK' /\ LockOK'
    BY <1>1, WriterAssumption DEF RecordWritten, TypeOK, LockOK, Steps, Holding
  <2>2. written' = ticket[w] /\ disk = payload[w]
    BY <1>1 DEF RecordWritten, OrderOK, TypeOK
  <2>3. \A v \in Writers : pc[v] = "replaced" => v = w
    BY <1>1, WriterAssumption DEF RecordWritten, LockOK, Holding
  <2>4. OrderOK'
    BY <1>1, <2>2, <2>3 DEF RecordWritten, TypeOK, OrderOK, Pending, LockOK, Holding
  <2>5. AckedIsDurable' /\ CarriedOK'
    BY <1>1, <2>2 DEF RecordWritten, TypeOK, AckedIsDurable, CarriedOK
  <2> QED BY <2>1, <2>4, <2>5
<1>2. CASE Settle(w)
  <2>1. TypeOK' /\ LockOK'
    BY <1>2 DEF Settle, TypeOK, LockOK, Steps, Holding
  <2>2. OrderOK' /\ AckedIsDurable' /\ CarriedOK'
    BY <1>2 DEF Settle, TypeOK, OrderOK, AckedIsDurable, CarriedOK, Pending
  <2> QED BY <2>1, <2>2
<1> QED BY <1>1, <1>2

\* The process starts again from the file.
LEMMA RestartInv == IInv /\ Restart => IInv'
<1> SUFFICES ASSUME IInv, Restart PROVE IInv'
  OBVIOUS
<1>1. \A w \in Writers : pc'[w] = "idle" /\ writeLock' # w
  BY WriterAssumption DEF Restart
<1>2. TypeOK'
  <2>1. /\ pc' \in [Writers -> Steps] /\ clock' \in Nat
        /\ ticket' \in [Writers -> 0..version'] /\ payload' \in [Writers -> 0..clock']
    BY DEF IInv, Restart, TypeOK, Steps
  <2>2. failing' \in BOOLEAN /\ faultless' \in BOOLEAN
    BY Zenon DEF Restart
  <2>3. /\ memory' \in 0..clock' /\ disk' \in 0..clock' /\ acked' \in 0..clock'
        /\ version' \in Nat /\ written' \in 0..version'
        /\ writeLock' \in Writers \cup {NoWriter}
    BY DEF IInv, Restart, TypeOK
  <2> QED BY <2>1, <2>2, <2>3 DEF TypeOK
<1>3. LockOK' /\ OrderOK'
  BY <1>1, <1>2 DEF Restart, TypeOK, LockOK, OrderOK, Pending, Holding
<1>4. AckedIsDurable' /\ CarriedOK'
  BY DEF IInv, Restart, AckedIsDurable, CarriedOK
<1> QED BY <1>2, <1>3, <1>4 DEF IInv

\* Every step, and every stutter, keeps the invariant.
LEMMA StepInv == IInv /\ [Next]_vars => IInv'
<1>1. IInv /\ UNCHANGED vars => IInv'
  BY DEF vars, IInv, TypeOK, LockOK, OrderOK, AckedIsDurable, CarriedOK
<1> QED BY <1>1, SnapshotInv, WriteInv, SettleInv, RestartInv DEF Next

\* The invariant of every behaviour, for any set of writers.
THEOREM Invariance == Spec => []IInv
BY InitInv, StepInv, PTL DEF Spec

\* No version and no value from the future.
THEOREM TypeCorrect == Spec => []TypeOK
<1>1. IInv => TypeOK
  BY DEF IInv
<1> QED BY <1>1, Invariance, PTL

\* What a caller was told is saved is in the file, also after a crash.
THEOREM AckedDurability == Spec => []AckedIsDurable
<1>1. IInv => AckedIsDurable
  BY DEF IInv
<1> QED BY <1>1, Invariance, PTL

\* Without write failures nothing is left behind once the writers are idle.
THEOREM FaultlessCurrency == Spec => []FaultlessDiskIsCurrent
<1>1. IInv => FaultlessDiskIsCurrent
  BY DEF IInv, CarriedOK, FaultlessDiskIsCurrent, At
<1> QED BY <1>1, Invariance, PTL

\* Both together: snapshots that overtake each other lose nothing.
THEOREM SavesKept == Spec => []SavesAreKept
<1>1. TypeOK /\ AckedIsDurable /\ FaultlessDiskIsCurrent => SavesAreKept
  BY DEF SavesAreKept
<1> QED BY <1>1, TypeCorrect, AckedDurability, FaultlessCurrency, PTL

-----------------------------------------------------------------------------
(* What one step does to memory and disk: the refinement of DurableStore. *)

\* Replacing the file is the only step that changes it, and it moves forward.
LEMMA DiskStep ==
    ASSUME IInv, Next
    PROVE  disk' = disk \/ (disk' > disk /\ disk' <= memory /\ memory' = memory)
<1>1. ASSUME NEW w \in Writers, Replace(w)
      PROVE  disk <= disk' /\ disk' <= memory /\ memory' = memory
  <2>1. \A v \in Writers : pc[v] = "replaced" => FALSE
    BY <1>1, WriterAssumption DEF Replace, At, IInv, LockOK, Holding
  <2> QED BY <1>1, <2>1 DEF Replace, At, IInv, TypeOK, OrderOK, Pending
<1>2. CASE \E w \in Writers : Replace(w)
  BY <1>1, <1>2 DEF IInv, TypeOK, Replace
<1>3. CASE ~ \E w \in Writers : Replace(w)
  BY <1>3 DEF Next, Mutate, Persist, Update, Publish, WriteFail, RecordWritten, Settle, Restart
<1> QED BY <1>2, <1>3

\* Otherwise memory moves forward, stays, or restarts from the file.
LEMMA MemoryStep ==
    ASSUME IInv, Next, disk' = disk
    PROVE  memory' = memory \/ memory' > memory \/ memory' = disk
BY DEF IInv, TypeOK, Next, Mutate, MutateStore, Persist, Update, Publish, Replace, WriteFail,
       RecordWritten, Settle, Restart

\* The state file never goes back to an older state.
THEOREM DiskMonotonic == Spec => DiskNeverRegresses
<1>1. IInv /\ IInv' /\ [Next]_vars => [disk' >= disk]_vars
  <2>1. ASSUME IInv, IInv', Next PROVE disk' >= disk
    <3>1. disk \in Nat /\ disk' \in Nat
      BY <2>1 DEF IInv, TypeOK
    <3> QED BY <2>1, <3>1, DiskStep
  <2> QED BY <2>1
<1> QED BY <1>1, Invariance, PTL DEF Spec, DiskNeverRegresses

\* Threads, versions, locks, failures and crashes implement DurableStore.
THEOREM Refinement == Spec => StoreSpec
<1>1. Init => Store!Init
  BY DEF Init, Store!Init
<1>2. IInv /\ IInv' /\ [Next]_vars => [Store!Next]_(Store!vars)
  <2>1. ASSUME IInv, IInv', Next PROVE [Store!Next]_(Store!vars)
    <3>1. memory \in Nat /\ memory' \in Nat /\ disk' \in Nat
      BY <2>1 DEF IInv, TypeOK
    <3> QED
      BY <2>1, <3>1, DiskStep, MemoryStep
      DEF Store!Next, Store!Mutate, Store!Save, Store!Restart, Store!vars
  <2>2. UNCHANGED vars => UNCHANGED Store!vars
    BY DEF vars, Store!vars
  <2> QED BY <2>1, <2>2
<1> QED BY <1>1, <1>2, Invariance, PTL DEF Spec, StoreSpec, Store!Spec
=============================================================================
