---------------------------- MODULE JobPoolProofs ----------------------------
(***************************************************************************)
(* Proofs about JobPool, for any number of calls, workers and limits.      *)
(***************************************************************************)
EXTENDS JobPool, FiniteSetTheorems, TLAPS

(* Pushing to the end of a queue adds the pushed call and nothing else.     *)
LEMMA AppendListed ==
  ASSUME NEW S, NEW q \in Seq(S), NEW e \in S
  PROVE  /\ Append(q, e) \in Seq(S)
         /\ Listed(Append(q, e)) = Listed(q) \union {e}
         /\ Distinct(q) /\ e \notin Listed(q) => Distinct(Append(q, e))
<1>1. /\ Append(q, e) \in Seq(S)
      /\ Len(Append(q, e)) = Len(q) + 1
      /\ Append(q, e)[Len(q) + 1] = e
      /\ \A i \in 1..Len(q) : Append(q, e)[i] = q[i]
      /\ Len(q) \in Nat
  OBVIOUS
<1>2. Listed(Append(q, e)) = Listed(q) \union {e}
  <2>1. 1..(Len(q) + 1) = 1..Len(q) \union {Len(q) + 1}
    BY <1>1
  <2> QED BY <1>1, <2>1, Zenon DEF Listed
<1>3. ASSUME Distinct(q), e \notin Listed(q) PROVE Distinct(Append(q, e))
  BY <1>1, <1>3, SMT DEF Distinct, Listed
<1> QED BY <1>1, <1>2, <1>3

(* Shifting the first call from a queue removes that call and no other.     *)
LEMMA TailListed ==
  ASSUME NEW S, NEW q \in Seq(S), q # <<>>
  PROVE  /\ Tail(q) \in Seq(S)
         /\ Head(q) \in S
         /\ Head(q) \in Listed(q)
         /\ Distinct(q) => /\ Distinct(Tail(q))
                           /\ Listed(Tail(q)) = Listed(q) \ {Head(q)}
<1>1. /\ Tail(q) \in Seq(S)
      /\ Len(q) \in Nat \ {0}
      /\ Len(Tail(q)) = Len(q) - 1
      /\ Head(q) = q[1]
      /\ \A i \in 1..(Len(q) - 1) : Tail(q)[i] = q[i + 1]
      /\ \A i \in 1..Len(q) : q[i] \in S
  OBVIOUS
<1>2. ASSUME Distinct(q) PROVE Distinct(Tail(q))
  BY <1>1, <1>2, SMT DEF Distinct
<1>3. ASSUME Distinct(q) PROVE Listed(Tail(q)) = Listed(q) \ {Head(q)}
  <2>1. ASSUME NEW i \in 1..(Len(q) - 1)
        PROVE  Tail(q)[i] \in Listed(q) \ {Head(q)}
    BY <1>1, <1>3, <2>1, SMT DEF Distinct, Listed
  <2>2. ASSUME NEW i \in 1..Len(q), q[i] # Head(q)
        PROVE  q[i] \in Listed(Tail(q))
    <3>1. i - 1 \in 1..(Len(q) - 1) /\ Tail(q)[i - 1] = q[i]
      BY <1>1, <2>2, SMT
    <3> QED BY <1>1, <3>1 DEF Listed
  <2>3. Listed(Tail(q)) \subseteq Listed(q) \ {Head(q)}
    BY <1>1, <2>1 DEF Listed
  <2>4. \A x \in Listed(q) \ {Head(q)} : \E i \in 1..Len(q) : x = q[i]
    BY DEF Listed
  <2> QED BY <2>2, <2>3, <2>4
<1>4. Head(q) \in S /\ Head(q) \in Listed(q)
  BY <1>1 DEF Listed
<1> QED BY <1>1, <1>2, <1>3, <1>4

(* The empty queue lists nobody. *)
LEMMA EmptyListed == Distinct(<<>>) /\ Listed(<<>>) = {}
  BY DEF Distinct, Listed

(* A queue that is not empty lists somebody. *)
LEMMA NonEmptyListed ==
  ASSUME NEW S, NEW q \in Seq(S)
  PROVE  q = <<>> <=> Listed(q) = {}
<1>1. CASE q = <<>> BY <1>1, EmptyListed
<1>2. CASE q # <<>> BY <1>2, TailListed
<1> QED BY <1>1, <1>2

-----------------------------------------------------------------------------
(* The inductive invariant: the properties the runs check, together.        *)
IInv ==
  /\ TypeOK
  /\ SerialWithinWorker
  /\ BusyHasHolder
  /\ QueuesExact
  /\ SlotsAccounted
  /\ NoStall

LEMMA WorkingFinite == IsFiniteSet(Working)
  BY RunsAssumption, FS_Subset DEF Working

(* Initially nobody is in the pool. *)
LEMMA InitIInv == PoolInit => IInv
<1> SUFFICES ASSUME PoolInit PROVE IInv
  OBVIOUS
<1> USE DEF PoolInit
<1>1. TypeOK
  BY LimitsAssumption DEF TypeOK, Phases
<1>2. SerialWithinWorker /\ BusyHasHolder
  BY DEF SerialWithinWorker, BusyHasHolder, HoldsLock
<1>3. QueuesExact
  BY EmptyListed DEF QueuesExact
<1>4. SlotsAccounted
  <2>1. Working = {}
    BY DEF Working
  <2> QED BY <2>1, FS_EmptySet DEF SlotsAccounted
<1>5. NoStall
  BY DEF NoStall
<1> QED BY <1>1, <1>2, <1>3, <1>4, <1>5 DEF IInv

(* A call that enters the pool takes a free lock or queues behind it.       *)
LEMMA EnqueueIInv ==
  ASSUME IInv, NEW r \in Runs, Enqueue(r)
  PROVE  IInv'
<1> DEFINE w == WorkerOf[r]
<1> USE DEF IInv, TypeOK, HoldsLock
<1>0. w \in Workers
  BY WorkerOfAssumption
<1>1. /\ pc[r] = "out"
      /\ UNCHANGED <<activeJobCount, jobSlotWaiters, limit>>
      /\ pc \in [Runs -> Phases]
  BY DEF Enqueue
<1>2. \A s \in Runs \ {r} : pc'[s] = pc[s]
  BY <1>1 DEF Enqueue, AcquireWorkerLock
<1>3. pc'[r] \in {"locked", "worker"}
  BY <1>1 DEF Enqueue, AcquireWorkerLock
<1>4. Working' = Working
  BY <1>1, <1>2, <1>3 DEF Working
<1>5. SlotsAccounted' /\ (jobSlotWaiters' # <<>> => activeJobCount' > 0)
  BY <1>1, <1>4 DEF SlotsAccounted, NoStall
<1>6. {s \in Runs : pc'[s] = "slot"} = {s \in Runs : pc[s] = "slot"}
  BY <1>1, <1>2, <1>3
<1>7. CASE w \notin busyWorkers
  <2>1. /\ busyWorkers' = busyWorkers \union {w}
        /\ pc' = [pc EXCEPT ![r] = "locked"]
        /\ workerLockWaiters' = workerLockWaiters
    BY <1>7 DEF Enqueue, AcquireWorkerLock
  <2>2. TypeOK'
    BY <1>0, <1>1, <2>1 DEF Phases
  <2>3. \A s \in Runs : WorkerOf[s] = w => pc[s] \notin {"locked", "slot", "work"}
    BY <1>0, <1>7 DEF BusyHasHolder
  <2>4. SerialWithinWorker'
    BY <1>1, <1>2, <2>1, <2>3 DEF SerialWithinWorker
  <2>5. BusyHasHolder'
    BY <1>1, <1>2, <2>1 DEF BusyHasHolder
  <2>6. \A v \in Workers : {s \in Runs : pc'[s] = "worker" /\ WorkerOf[s] = v}
                           = {s \in Runs : pc[s] = "worker" /\ WorkerOf[s] = v}
    BY <1>1, <1>2, <2>1
  <2>7. QueuesExact'
    BY <1>1, <1>6, <2>1, <2>6 DEF QueuesExact
  <2>8. NoStall'
    BY <1>5, <2>1 DEF NoStall
  <2> QED BY <1>5, <2>2, <2>4, <2>5, <2>7, <2>8
<1>8. CASE w \in busyWorkers
  <2>1. /\ workerLockWaiters' = [workerLockWaiters EXCEPT ![w] = Append(@, r)]
        /\ pc' = [pc EXCEPT ![r] = "worker"]
        /\ busyWorkers' = busyWorkers
    BY <1>8 DEF Enqueue, AcquireWorkerLock
  <2>2. /\ r \notin Listed(workerLockWaiters[w])
        /\ workerLockWaiters[w] \in Seq(Runs)
        /\ Distinct(workerLockWaiters[w])
    BY <1>0, <1>1 DEF QueuesExact
  <2>3. /\ workerLockWaiters'[w] \in Seq(Runs)
        /\ Listed(workerLockWaiters'[w]) = Listed(workerLockWaiters[w]) \union {r}
        /\ Distinct(workerLockWaiters'[w])
    BY <1>0, <2>1, <2>2, AppendListed
  <2>4. TypeOK'
    BY <1>0, <1>1, <2>1, <2>3 DEF Phases
  <2>5. SerialWithinWorker' /\ BusyHasHolder'
    BY <1>1, <1>2, <2>1 DEF SerialWithinWorker, BusyHasHolder
  <2>6. ASSUME NEW v \in Workers
        PROVE  /\ Distinct(workerLockWaiters'[v])
               /\ Listed(workerLockWaiters'[v]) =
                    {s \in Runs : pc'[s] = "worker" /\ WorkerOf[s] = v}
    <3>1. CASE v = w
      <4>1. {s \in Runs : pc'[s] = "worker" /\ WorkerOf[s] = w}
              = {s \in Runs : pc[s] = "worker" /\ WorkerOf[s] = w} \union {r}
        BY <1>1, <1>2, <2>1
      <4> QED BY <1>0, <2>3, <3>1, <4>1 DEF QueuesExact
    <3>2. CASE v # w
      <4>1. workerLockWaiters'[v] = workerLockWaiters[v]
        BY <2>1, <3>2
      <4>2. {s \in Runs : pc'[s] = "worker" /\ WorkerOf[s] = v}
              = {s \in Runs : pc[s] = "worker" /\ WorkerOf[s] = v}
        BY <1>1, <1>2, <2>1, <3>2
      <4> QED BY <4>1, <4>2 DEF QueuesExact
    <3> QED BY <3>1, <3>2
  <2>7. QueuesExact'
    BY <1>1, <1>6, <2>6 DEF QueuesExact
  <2>8. NoStall'
    BY <1>0, <1>5, <1>8, <2>1 DEF NoStall
  <2> QED BY <1>5, <2>4, <2>5, <2>7, <2>8
<1> QED BY <1>7, <1>8

(* A call that holds its worker's lock takes a free slot or queues for one. *)
LEMMA AcquireJobSlotIInv ==
  ASSUME IInv, NEW r \in Runs, AcquireJobSlot(r)
  PROVE  IInv'
<1> USE DEF IInv, TypeOK, HoldsLock
<1>1. /\ pc[r] = "locked"
      /\ UNCHANGED <<busyWorkers, workerLockWaiters, limit>>
      /\ pc \in [Runs -> Phases]
      /\ limit \in Nat \ {0}
  BY LimitsAssumption DEF AcquireJobSlot
<1>2. /\ \A s \in Runs \ {r} : pc'[s] = pc[s]
      /\ pc'[r] \in {"slot", "work"}
      /\ pc' \in [Runs -> Phases]
  BY <1>1 DEF AcquireJobSlot, Phases
<1>3. SerialWithinWorker' /\ BusyHasHolder'
  BY <1>1, <1>2 DEF SerialWithinWorker, BusyHasHolder
<1>4. \A v \in Workers : {s \in Runs : pc'[s] = "worker" /\ WorkerOf[s] = v}
                         = {s \in Runs : pc[s] = "worker" /\ WorkerOf[s] = v}
  BY <1>1, <1>2
<1>5. CASE activeJobCount < limit
  <2>1. /\ activeJobCount' = activeJobCount + 1
        /\ pc'[r] = "work"
        /\ jobSlotWaiters' = jobSlotWaiters
    BY <1>1, <1>5 DEF AcquireJobSlot
  <2>2. Working' = Working \union {r} /\ r \notin Working
    BY <1>1, <1>2, <2>1 DEF Working
  <2>3. SlotsAccounted' /\ NoStall'
    <3>1. Cardinality(Working \union {r}) = Cardinality(Working) + 1
      BY <2>2, WorkingFinite, FS_AddElement
    <3> QED BY <1>1, <2>1, <2>2, <3>1 DEF SlotsAccounted, NoStall
  <2>4. {s \in Runs : pc'[s] = "slot"} = {s \in Runs : pc[s] = "slot"}
    BY <1>1, <1>2, <2>1
  <2>5. QueuesExact'
    BY <1>1, <1>4, <2>1, <2>4 DEF QueuesExact
  <2> QED BY <1>1, <1>2, <1>3, <2>1, <2>3, <2>5
<1>6. CASE activeJobCount >= limit
  <2>1. /\ activeJobCount' = activeJobCount
        /\ pc'[r] = "slot"
        /\ jobSlotWaiters' = Append(jobSlotWaiters, r)
    BY <1>1, <1>6 DEF AcquireJobSlot
  <2>2. Working' = Working
    BY <1>1, <1>2, <2>1 DEF Working
  <2>3. SlotsAccounted' /\ NoStall'
    BY <1>1, <1>6, <2>1, <2>2 DEF SlotsAccounted, NoStall
  <2>4. {s \in Runs : pc'[s] = "slot"} = {s \in Runs : pc[s] = "slot"} \union {r}
    BY <1>1, <1>2, <2>1
  <2>5. r \notin Listed(jobSlotWaiters) /\ Distinct(jobSlotWaiters)
    BY <1>1 DEF QueuesExact
  <2>6. /\ jobSlotWaiters' \in Seq(Runs)
        /\ Listed(jobSlotWaiters') = Listed(jobSlotWaiters) \union {r}
        /\ Distinct(jobSlotWaiters')
    BY <2>1, <2>5, AppendListed
  <2>7. QueuesExact'
    BY <1>1, <1>4, <2>4, <2>6 DEF QueuesExact
  <2> QED BY <1>1, <1>2, <1>3, <2>1, <2>3, <2>6, <2>7
<1> QED BY <1>1, <1>5, <1>6

(* The work of a call ends: its slot and its lock go to the first waiters.  *)
LEMMA FinishIInv ==
  ASSUME IInv, NEW r \in Runs, Finish(r)
  PROVE  IInv'
<1> DEFINE w == WorkerOf[r]
<1> USE DEF IInv, TypeOK, HoldsLock
<1>0. w \in Workers
  BY WorkerOfAssumption
<1>1. /\ pc[r] = "work"
      /\ limit' = limit
      /\ pc \in [Runs -> Phases]
      /\ limit \in Nat \ {0}
      /\ w \in busyWorkers
  BY <1>0, LimitsAssumption DEF Finish, BusyHasHolder
\* the slot that is given back was counted
<1>2. /\ activeJobCount \in Nat \ {0}
      /\ ActiveAfterRelease = activeJobCount - 1
      /\ Cardinality(Working \ {r}) = activeJobCount - 1
      /\ IsFiniteSet(Working \ {r})
      /\ r \in Working
  <2>1. r \in Working
    BY <1>1 DEF Working
  <2>2. /\ IsFiniteSet(Working \ {r})
        /\ Cardinality(Working \ {r}) = Cardinality(Working) - 1
    BY <2>1, WorkingFinite, FS_RemoveElement
  <2>3. Cardinality(Working \ {r}) \in Nat
    BY <2>2, FS_CardinalityType
  <2> QED BY <2>1, <2>2, <2>3 DEF SlotsAccounted, ActiveAfterRelease
\* who inherits the lock and the slot
<1>3. /\ \A s \in LockHeirs(w) : pc[s] = "worker" /\ WorkerOf[s] = w
      /\ \A s \in SlotHeirs : pc[s] = "slot"
      /\ LockHeirs(w) \subseteq Runs /\ SlotHeirs \subseteq Runs
  <2>1. ASSUME NEW s \in LockHeirs(w)
        PROVE  pc[s] = "worker" /\ WorkerOf[s] = w
    BY <1>0, <2>1, TailListed DEF LockHeirs, QueuesExact
  <2>2. ASSUME NEW s \in SlotHeirs PROVE pc[s] = "slot"
    BY <2>2, TailListed DEF SlotHeirs, QueuesExact
  <2> QED BY <2>1, <2>2 DEF LockHeirs, SlotHeirs
<1>4. /\ pc' \in [Runs -> Phases]
      /\ pc'[r] = "out"
      /\ \A s \in LockHeirs(w) : pc'[s] = "locked"
      /\ \A s \in SlotHeirs : pc'[s] = "work"
      /\ \A s \in Runs \ ({r} \union LockHeirs(w) \union SlotHeirs) : pc'[s] = pc[s]
  BY <1>1, <1>3, SMTT(30) DEF Finish, Phases
<1>5. /\ Distinct(workerLockWaiters'[w])
      /\ workerLockWaiters' \in [Workers -> Seq(Runs)]
      /\ Listed(workerLockWaiters'[w]) = Listed(workerLockWaiters[w]) \ LockHeirs(w)
      /\ \A v \in Workers \ {w} : workerLockWaiters'[v] = workerLockWaiters[v]
  <2>1. CASE workerLockWaiters[w] = <<>>
    BY <1>0, <2>1, EmptyListed DEF Finish, ReleaseWorkerLock, LockHeirs, QueuesExact
  <2>2. CASE workerLockWaiters[w] # <<>>
    <3>1. workerLockWaiters' = [workerLockWaiters EXCEPT ![w] = Tail(@)]
      BY <2>2 DEF Finish, ReleaseWorkerLock
    <3>2. LockHeirs(w) = {Head(workerLockWaiters[w])}
      BY <1>0, <2>2, TailListed DEF LockHeirs
    <3> QED BY <1>0, <2>2, <3>1, <3>2, TailListed DEF QueuesExact
  <2> QED BY <2>1, <2>2
<1>6. /\ Distinct(jobSlotWaiters')
      /\ jobSlotWaiters' \in Seq(Runs)
      /\ Listed(jobSlotWaiters') = Listed(jobSlotWaiters) \ SlotHeirs
  <2>1. CASE SlotHeirs = {}
    BY <2>1 DEF Finish, ReleaseJobSlot, QueuesExact
  <2>2. CASE SlotHeirs # {}
    <3>1. /\ jobSlotWaiters' = Tail(jobSlotWaiters)
          /\ jobSlotWaiters # <<>>
          /\ SlotHeirs = {Head(jobSlotWaiters)}
      BY <2>2 DEF Finish, ReleaseJobSlot, SlotHeirs
    <3> QED BY <3>1, TailListed DEF QueuesExact
  <2> QED BY <2>1, <2>2
\* one holder of w leaves, at most one enters; other workers keep theirs
<1>7. SerialWithinWorker'
  <2>1. \A s \in Runs : pc'[s] \in {"locked", "slot", "work"} =>
          s \in LockHeirs(w) \/ (s # r /\ pc[s] \in {"locked", "slot", "work"})
    BY <1>3, <1>4
  <2>2. \A s, t \in LockHeirs(w) : s = t
    BY DEF LockHeirs
  <2>3. \A s \in Runs : s # r /\ pc[s] \in {"locked", "slot", "work"}
                         => WorkerOf[s] # w
    BY <1>1 DEF SerialWithinWorker
  <2> QED BY <1>3, <2>1, <2>2, <2>3 DEF SerialWithinWorker
<1>8. BusyHasHolder'
  <2>1. ASSUME NEW v \in Workers, v # w
        PROVE  v \in busyWorkers' <=>
                 \E s \in Runs : WorkerOf[s] = v /\ pc'[s] \in {"locked", "slot", "work"}
    <3>1. v \in busyWorkers' <=> v \in busyWorkers
      BY <2>1 DEF Finish, ReleaseWorkerLock
    <3>2. \A s \in Runs : WorkerOf[s] = v =>
            (pc'[s] \in {"locked", "slot", "work"}
               <=> pc[s] \in {"locked", "slot", "work"})
      BY <1>3, <1>4, <2>1
    <3> QED BY <3>1, <3>2 DEF BusyHasHolder
  <2>2. w \in busyWorkers' <=>
          \E s \in Runs : WorkerOf[s] = w /\ pc'[s] \in {"locked", "slot", "work"}
    <3>1. CASE workerLockWaiters[w] = <<>>
      <4>1. w \notin busyWorkers' /\ LockHeirs(w) = {}
        BY <3>1 DEF Finish, ReleaseWorkerLock, LockHeirs
      <4>2. \A s \in Runs : WorkerOf[s] = w => pc'[s] \notin {"locked", "slot", "work"}
        BY <1>1, <1>3, <1>4, <4>1 DEF SerialWithinWorker
      <4> QED BY <4>1, <4>2
    <3>2. CASE workerLockWaiters[w] # <<>>
      <4>1. w \in busyWorkers'
        BY <1>1, <3>2 DEF Finish, ReleaseWorkerLock
      <4>2. Head(workerLockWaiters[w]) \in LockHeirs(w)
        BY <1>0, <3>2, TailListed DEF LockHeirs
      <4> QED BY <1>3, <1>4, <4>1, <4>2
    <3> QED BY <3>1, <3>2
  <2> QED BY <2>1, <2>2 DEF BusyHasHolder
<1>9. QueuesExact'
  <2>1. ASSUME NEW v \in Workers
        PROVE  /\ Distinct(workerLockWaiters'[v])
               /\ Listed(workerLockWaiters'[v]) =
                    {s \in Runs : pc'[s] = "worker" /\ WorkerOf[s] = v}
    <3>1. CASE v = w
      <4>1. {s \in Runs : pc'[s] = "worker" /\ WorkerOf[s] = w}
              = {s \in Runs : pc[s] = "worker" /\ WorkerOf[s] = w} \ LockHeirs(w)
        BY <1>1, <1>3, <1>4
      <4> QED BY <1>0, <1>5, <3>1, <4>1 DEF QueuesExact
    <3>2. CASE v # w
      <4>1. {s \in Runs : pc'[s] = "worker" /\ WorkerOf[s] = v}
              = {s \in Runs : pc[s] = "worker" /\ WorkerOf[s] = v}
        BY <1>1, <1>3, <1>4, <3>2
      <4> QED BY <1>5, <3>2, <4>1 DEF QueuesExact
    <3> QED BY <3>1, <3>2
  <2>2. {s \in Runs : pc'[s] = "slot"} = {s \in Runs : pc[s] = "slot"} \ SlotHeirs
    BY <1>1, <1>3, <1>4
  <2> QED BY <1>6, <2>1, <2>2 DEF QueuesExact
<1>10. Working' = (Working \ {r}) \union SlotHeirs
  BY <1>1, <1>3, <1>4 DEF Working
<1>11. TypeOK' /\ SlotsAccounted' /\ NoStall'
  <2>1. busyWorkers' \subseteq Workers
    BY DEF Finish, ReleaseWorkerLock
  <2>5. ASSUME NEW v \in Workers, workerLockWaiters'[v] # <<>>
        PROVE  v \in busyWorkers'
    <3>1. CASE v = w
      BY <1>0, <1>1, <2>5, <3>1 DEF Finish, ReleaseWorkerLock
    <3>2. CASE v # w
      BY <1>5, <2>5, <3>2 DEF Finish, ReleaseWorkerLock, NoStall
    <3> QED BY <3>1, <3>2
  <2>2. CASE SlotHeirs = {}
    <3>1. activeJobCount' = activeJobCount - 1 /\ jobSlotWaiters' = jobSlotWaiters
      BY <1>2, <2>2 DEF Finish, ReleaseJobSlot
    <3>2. jobSlotWaiters # <<>> => activeJobCount - 1 >= limit
      <4>1. jobSlotWaiters # <<>> => Head(jobSlotWaiters) \in Runs
        BY TailListed
      <4> QED BY <1>1, <1>2, <2>2, <4>1 DEF SlotHeirs
    <3> QED BY <1>1, <1>2, <1>4, <1>5, <1>6, <1>10, <2>1, <2>2, <2>5, <3>1, <3>2
        DEF SlotsAccounted, NoStall
  <2>3. CASE SlotHeirs # {}
    <3>1. activeJobCount' = activeJobCount /\ SlotHeirs = {Head(jobSlotWaiters)}
      BY <1>2, <2>3 DEF Finish, ReleaseJobSlot, SlotHeirs
    <3>2. Head(jobSlotWaiters) \notin Working \ {r}
      BY <1>3, <3>1 DEF Working
    <3>3. Cardinality(Working') = activeJobCount
      <4> DEFINE rest == Working \ {r}
      <4>1. Cardinality(rest \union {Head(jobSlotWaiters)}) = Cardinality(rest) + 1
        BY <1>2, <3>2, FS_AddElement
      <4>2. Cardinality(rest) = activeJobCount - 1
        BY <1>2
      <4> HIDE DEF rest
      <4> QED BY <1>2, <1>10, <3>1, <4>1, <4>2 DEF rest
    <3> QED BY <1>1, <1>2, <1>4, <1>5, <1>6, <2>1, <2>5, <3>1, <3>3
        DEF SlotsAccounted, NoStall
  <2> QED BY <2>2, <2>3
<1> QED BY <1>7, <1>8, <1>9, <1>11

(* Changing the limit disturbs nobody in the pool. *)
LEMMA SetLimitIInv ==
  ASSUME IInv, NEW n \in Limits, SetLimit(n)
  PROVE  IInv'
  BY DEF IInv, TypeOK, SetLimit, SerialWithinWorker, BusyHasHolder, HoldsLock,
         QueuesExact, SlotsAccounted, Working, NoStall

LEMMA NextIInv == IInv /\ [PoolNext]_poolVars => IInv'
<1> SUFFICES ASSUME IInv, [PoolNext]_poolVars PROVE IInv'
  OBVIOUS
<1>1. ASSUME NEW r \in Runs, Enqueue(r) PROVE IInv'
  BY <1>1, EnqueueIInv
<1>2. ASSUME NEW r \in Runs, AcquireJobSlot(r) PROVE IInv'
  BY <1>2, AcquireJobSlotIInv
<1>3. ASSUME NEW r \in Runs, Finish(r) PROVE IInv'
  BY <1>3, FinishIInv
<1>4. ASSUME NEW n \in Limits \ {limit}, SetLimit(n) PROVE IInv'
  BY <1>4, SetLimitIInv
<1>5. CASE UNCHANGED poolVars
  BY <1>5 DEF poolVars, IInv, TypeOK, SerialWithinWorker, BusyHasHolder,
              HoldsLock, QueuesExact, SlotsAccounted, Working, NoStall
<1> QED BY <1>1, <1>2, <1>3, <1>4, <1>5 DEF PoolNext

(* The invariants the runs check hold for every pool. *)
THEOREM PoolInvariant == PoolSpec => []IInv
<1>1. IInv /\ [PoolNext]_poolVars => IInv'
  BY NextIInv
<1> QED BY InitIInv, <1>1, PTL DEF PoolSpec

(* activeJobCount, busyWorkers and the queues of waiters agree with what    *)
(* the calls of enqueueJobExecution are doing: no slot or lock is leaked.   *)
THEOREM PoolBooksCorrect == PoolSpec => []PoolAccounted
<1>1. IInv => PoolAccounted
  BY DEF IInv, PoolAccounted
<1> QED BY PoolInvariant, <1>1, PTL

(* "Parallel across workers, serial within a worker", for any number of     *)
(* calls, workers and whatever the limit does meanwhile.                    *)
THEOREM PoolIsSerialWithinWorker == PoolSpec => []SerialWithinWorker
<1>1. IInv => SerialWithinWorker
  BY DEF IInv
<1> QED BY PoolInvariant, <1>1, PTL

(* No wake-up is lost: a queued call always has a running one ahead of it.  *)
THEOREM PoolNeverStalls == PoolSpec => []NoStall
<1>1. IInv => NoStall
  BY DEF IInv
<1> QED BY PoolInvariant, <1>1, PTL

(* No step admits a run above the limit in force. *)
THEOREM PoolAdmitsWithinLimit == PoolSpec => AdmitsWithinLimit
<1>1. ASSUME IInv, [PoolNext]_poolVars
      PROVE  Working' \subseteq Working \/ Cardinality(Working') <= limit
  <2> USE DEF IInv, TypeOK
  <2>1. /\ Cardinality(Working') = activeJobCount'
        /\ limit \in Nat
    BY <1>1, NextIInv, LimitsAssumption DEF SlotsAccounted
  <2>2. ASSUME NEW r \in Runs, Enqueue(r) PROVE Working' \subseteq Working
    BY <1>1, <2>2 DEF Enqueue, AcquireWorkerLock, Working
  <2>3. ASSUME NEW r \in Runs, AcquireJobSlot(r)
        PROVE  Working' \subseteq Working \/ Cardinality(Working') <= limit
    BY <1>1, <2>1, <2>3 DEF AcquireJobSlot, Working
  <2>4. ASSUME NEW r \in Runs, Finish(r)
        PROVE  Working' \subseteq Working \/ Cardinality(Working') <= limit
    <3>1. CASE SlotHeirs = {}
      BY <1>1, <2>4, <3>1 DEF Finish, Working
    <3>2. CASE SlotHeirs # {}
      BY <1>1, <2>1, <2>4, <3>2 DEF Finish, ReleaseJobSlot, SlotHeirs, ActiveAfterRelease
    <3> QED BY <3>1, <3>2
  <2>5. ASSUME NEW n \in Limits, SetLimit(n) PROVE Working' \subseteq Working
    BY <2>5 DEF SetLimit, Working
  <2>6. CASE UNCHANGED poolVars
    BY <2>6 DEF poolVars, Working
  <2> QED BY <1>1, <2>2, <2>3, <2>4, <2>5, <2>6 DEF PoolNext
<1>2. IInv /\ [PoolNext]_poolVars
        => [Working' \subseteq Working \/ Cardinality(Working') <= limit]_poolVars
  BY <1>1
<1> QED BY PoolInvariant, <1>2, PTL DEF PoolSpec, AdmitsWithinLimit

-----------------------------------------------------------------------------
(* The pool implements SerialWorkers.                                       *)

(* The call that holds a worker's lock is the head of that worker's line.   *)
LEMMA HolderUnique ==
  ASSUME IInv, NEW r \in Runs, HoldsLock(r)
  PROVE  /\ Holder(WorkerOf[r]) = r
         /\ LineOf(WorkerOf[r]) = <<r>> \o workerLockWaiters[WorkerOf[r]]
<1> DEFINE w == WorkerOf[r]
<1>1. w \in Workers
  BY WorkerOfAssumption
<1>2. \A s \in Runs : WorkerOf[s] = w /\ HoldsLock(s) <=> s = r
  BY DEF IInv, SerialWithinWorker
<1>3. Holder(w) = r
  BY <1>2, Zenon DEF Holder
<1>4. w \in busyWorkers
  BY <1>1 DEF IInv, BusyHasHolder
<1> QED BY <1>3, <1>4 DEF LineOf

(* A line that nobody joins or leaves does not change.                      *)
LEMMA LineStable ==
  ASSUME NEW v \in Workers,
         v \in busyWorkers' <=> v \in busyWorkers,
         workerLockWaiters'[v] = workerLockWaiters[v],
         \A s \in Runs : WorkerOf[s] = v => (HoldsLock(s)' <=> HoldsLock(s))
  PROVE  LineOf(v)' = LineOf(v)
<1>1. Holder(v)' = Holder(v)
  BY Zenon DEF Holder
<1> QED BY <1>1 DEF LineOf

(* Pushing behind, and shifting from behind, the head of a line.            *)
LEMMA LineSequences ==
  ASSUME NEW S, NEW q \in Seq(S), NEW h \in S, NEW e \in S
  PROVE  /\ <<h>> \o Append(q, e) = Append(<<h>> \o q, e)
         /\ Head(<<h>> \o q) = h /\ <<h>> \o q # <<>>
         /\ Tail(<<h>> \o q) = q
         /\ q # <<>> => <<Head(q)>> \o Tail(q) = q
         /\ Append(<<>>, e) = <<e>> \o <<>>
  OBVIOUS

(* The abstract module counts the way this one does. *)
LEMMA SameCardinality == \A S : Abs!Cardinality(S) = Cardinality(S)
  BY DEF Abs!Cardinality, Cardinality

absLine == [w \in Workers |-> LineOf(w)]

(* Initially every line is empty and nobody executes. *)
LEMMA InitRefines == PoolInit => Abs!AbsInit
  BY DEF PoolInit, Abs!AbsInit, LineOf, Working

(* Nobody is in a line before it enters the pool. *)
LEMMA OutNotInLine ==
  ASSUME IInv, NEW r \in Runs, pc[r] = "out"
  PROVE  \A i \in 1..Len(LineOf(WorkerOf[r])) : LineOf(WorkerOf[r])[i] # r
<1> DEFINE w == WorkerOf[r]
<1> DEFINE q == workerLockWaiters[w]
<1>1. w \in Workers /\ q \in Seq(Runs)
  BY WorkerOfAssumption DEF IInv, TypeOK
<1>2. CASE w \notin busyWorkers
  BY <1>2 DEF LineOf
<1>3. CASE w \in busyWorkers
  <2>1. PICK h \in Runs : WorkerOf[h] = w /\ HoldsLock(h)
    BY <1>1, <1>3 DEF IInv, BusyHasHolder
  <2>2. LineOf(w) = <<h>> \o q
    BY <2>1, HolderUnique
  <2>3. h # r
    BY <2>1 DEF HoldsLock
  <2>4. r \notin Listed(q)
    BY <1>1 DEF IInv, QueuesExact
  <2>5. \A i \in 1..Len(q) : q[i] # r
    BY <2>4 DEF Listed
  <2> HIDE DEF q
  <2>6. \A i \in 1..Len(<<h>> \o q) : (<<h>> \o q)[i] # r
    BY <1>1, <2>3, <2>5
  <2> QED BY <2>2, <2>6
<1> QED BY <1>2, <1>3

(* Entering the pool is joining the end of a line. *)
LEMMA EnqueueRefines ==
  ASSUME IInv, IInv', NEW r \in Runs, Enqueue(r)
  PROVE  Abs!Arrive(r)
<1> DEFINE w == WorkerOf[r]
<1> USE DEF IInv, TypeOK
<1>1. /\ w \in Workers
      /\ pc[r] = "out"
      /\ limit' = limit
  BY WorkerOfAssumption DEF Enqueue
<1>2. /\ \A s \in Runs \ {r} : pc'[s] = pc[s]
      /\ pc'[r] \in {"locked", "worker"}
  BY DEF Enqueue, AcquireWorkerLock
<1>3. Working' = Working
  BY <1>1, <1>2 DEF Working
<1>4. LineOf(w)' = Append(LineOf(w), r)
  <2>1. CASE w \notin busyWorkers
    <3>1. /\ pc'[r] = "locked"
          /\ workerLockWaiters'[w] = workerLockWaiters[w]
      BY <2>1 DEF Enqueue, AcquireWorkerLock
    <3>2. workerLockWaiters[w] = <<>>
      BY <1>1, <2>1 DEF NoStall
    <3>3. LineOf(w)' = <<r>> \o <<>>
      <4>1. HoldsLock(r)' => LineOf(w)' = <<r>> \o workerLockWaiters'[w]
        <5>1. w \in busyWorkers'
          BY <2>1 DEF Enqueue, AcquireWorkerLock
        <5>2. \A s \in Runs : WorkerOf[s] = w /\ HoldsLock(s)' => s = r
          BY <1>1, <1>2, <2>1 DEF HoldsLock, BusyHasHolder
        <5>3. HoldsLock(r)' => Holder(w)' = r
          BY <5>2, Zenon DEF Holder
        <5> QED BY <5>1, <5>3 DEF LineOf
      <4> QED BY <3>1, <3>2, <4>1 DEF HoldsLock
    <3>4. LineOf(w) = <<>>
      BY <2>1 DEF LineOf
    <3> QED BY <3>3, <3>4, LineSequences
  <2>2. CASE w \in busyWorkers
    <3>1. /\ workerLockWaiters'[w] = Append(workerLockWaiters[w], r)
          /\ busyWorkers' = busyWorkers
          /\ pc'[r] = "worker"
      BY <1>1, <2>2 DEF Enqueue, AcquireWorkerLock
    <3>2. PICK h \in Runs : WorkerOf[h] = w /\ HoldsLock(h)
      BY <1>1, <2>2 DEF BusyHasHolder
    <3>3. LineOf(w) = <<h>> \o workerLockWaiters[w]
      BY <3>2, HolderUnique
    <3>4. \A s \in Runs : HoldsLock(s)' <=> HoldsLock(s)
      BY <1>1, <1>2, <3>1 DEF HoldsLock
    <3>5. Holder(w)' = Holder(w)
      BY <3>4, Zenon DEF Holder
    <3>6. LineOf(w)' = <<h>> \o workerLockWaiters'[w]
      BY <2>2, <3>1, <3>2, <3>5, HolderUnique DEF LineOf
    <3> DEFINE q == workerLockWaiters[w]
    <3>7. q \in Seq(Runs)
      BY <1>1
    <3> HIDE DEF q, IInv, TypeOK
    <3>8. <<h>> \o Append(q, r) = Append(<<h>> \o q, r)
      BY ONLY <3>7, LineSequences, h \in Runs, r \in Runs
    <3> USE DEF q
    <3> QED BY <3>1, <3>3, <3>6, <3>8
  <2> QED BY <2>1, <2>2
<1>5. ASSUME NEW v \in Workers, v # w PROVE LineOf(v)' = LineOf(v)
  <2>1. /\ v \in busyWorkers' <=> v \in busyWorkers
        /\ workerLockWaiters'[v] = workerLockWaiters[v]
    BY <1>1, <1>5 DEF Enqueue, AcquireWorkerLock
  <2>2. \A s \in Runs : WorkerOf[s] = v => (HoldsLock(s)' <=> HoldsLock(s))
    BY <1>2, <1>5 DEF HoldsLock
  <2> QED BY <2>1, <2>2, LineStable
<1>6. absLine' = [absLine EXCEPT ![w] = Append(@, r)]
  BY <1>1, <1>4, <1>5 DEF absLine
<1> QED BY <1>1, <1>3, <1>6, OutNotInLine DEF Abs!Arrive, Abs!InLine, absLine

(* Being granted a slot is starting; queueing for one is invisible.         *)
LEMMA AcquireJobSlotRefines ==
  ASSUME IInv, NEW r \in Runs, AcquireJobSlot(r)
  PROVE  Abs!Start(r) \/ UNCHANGED <<absLine, Working, limit>>
<1> DEFINE w == WorkerOf[r]
<1> USE DEF IInv, TypeOK
<1>1. /\ w \in Workers
      /\ pc[r] = "locked"
      /\ UNCHANGED <<busyWorkers, workerLockWaiters, limit>>
  BY WorkerOfAssumption DEF AcquireJobSlot
<1>2. /\ \A s \in Runs \ {r} : pc'[s] = pc[s]
      /\ pc'[r] \in {"slot", "work"}
  BY DEF AcquireJobSlot
<1>3. ASSUME NEW v \in Workers PROVE LineOf(v)' = LineOf(v)
  <2>1. \A s \in Runs : HoldsLock(s)' <=> HoldsLock(s)
    BY <1>1, <1>2 DEF HoldsLock
  <2> QED BY <1>1, <2>1, LineStable
<1>4. absLine' = absLine
  BY <1>3 DEF absLine
<1>5. CASE activeJobCount < limit
  <2>1. Working' = Working \union {r} /\ r \notin Working
    <3>1. pc'[r] = "work"
      BY <1>1, <1>5, LimitsAssumption DEF AcquireJobSlot
    <3> QED BY <1>1, <1>2, <3>1 DEF Working
  <2>2. /\ LineOf(w) = <<r>> \o workerLockWaiters[w]
        /\ workerLockWaiters[w] \in Seq(Runs)
    BY <1>1, HolderUnique DEF HoldsLock
  <2>3. absLine[w] # <<>> /\ r = Head(absLine[w])
    BY <1>1, <2>2, LineSequences DEF absLine
  <2>4. Cardinality(Working) < limit
    BY <1>5 DEF SlotsAccounted
  <2> QED BY <1>1, <1>4, <2>1, <2>3, <2>4, SameCardinality DEF Abs!Start, absLine
<1>6. CASE activeJobCount >= limit
  <2>1. activeJobCount' = activeJobCount /\ pc'[r] = "slot"
    BY <1>1, <1>6, LimitsAssumption DEF AcquireJobSlot
  <2>2. Working' = Working
    BY <1>1, <1>2, <2>1 DEF Working
  <2> QED BY <1>1, <1>4, <2>2
<1>7. activeJobCount < limit \/ activeJobCount >= limit
  BY LimitsAssumption
<1> QED BY <1>5, <1>6, <1>7

(* Finishing is leaving the line, and handing the slot to another head.     *)
LEMMA FinishRefines ==
  ASSUME IInv, IInv', NEW r \in Runs, Finish(r)
  PROVE  Abs!Leave(r)
<1> DEFINE w == WorkerOf[r]
<1> USE DEF IInv, TypeOK
<1>1. /\ w \in Workers
      /\ pc[r] = "work"
      /\ r \in Working
      /\ HoldsLock(r)
      /\ limit' = limit
      /\ workerLockWaiters[w] \in Seq(Runs)
  BY WorkerOfAssumption DEF Finish, Working, HoldsLock
<1>2. /\ \A s \in LockHeirs(w) : pc[s] = "worker" /\ WorkerOf[s] = w
      /\ \A s \in SlotHeirs : pc[s] = "slot"
      /\ LockHeirs(w) \subseteq Runs /\ SlotHeirs \subseteq Runs
  <2>1. ASSUME NEW s \in LockHeirs(w)
        PROVE  pc[s] = "worker" /\ WorkerOf[s] = w
    BY <1>1, <2>1, TailListed DEF LockHeirs, QueuesExact
  <2>2. ASSUME NEW s \in SlotHeirs PROVE pc[s] = "slot"
    BY <2>2, TailListed DEF SlotHeirs, QueuesExact
  <2> QED BY <2>1, <2>2 DEF LockHeirs, SlotHeirs
<1>3. /\ pc'[r] = "out"
      /\ \A s \in LockHeirs(w) : pc'[s] = "locked"
      /\ \A s \in SlotHeirs : pc'[s] = "work"
      /\ \A s \in Runs \ ({r} \union LockHeirs(w) \union SlotHeirs) : pc'[s] = pc[s]
  BY <1>1, <1>2, SMTT(30) DEF Finish
<1>4. Working' = (Working \ {r}) \union SlotHeirs
  BY <1>1, <1>2, <1>3 DEF Working
<1>5. LineOf(w) = <<r>> \o workerLockWaiters[w]
  BY <1>1, HolderUnique
<1>6. LineOf(w) # <<>> /\ r = Head(LineOf(w)) /\ Tail(LineOf(w)) = workerLockWaiters[w]
  BY <1>1, <1>5, LineSequences
<1>7. LineOf(w)' = workerLockWaiters[w]
  <2>1. CASE workerLockWaiters[w] = <<>>
    BY <2>1 DEF Finish, ReleaseWorkerLock, LineOf
  <2>2. CASE workerLockWaiters[w] # <<>>
    <3>1. PICK h \in Runs : /\ h = Head(workerLockWaiters[w])
                            /\ LockHeirs(w) = {h}
      BY <1>1, <2>2, TailListed DEF LockHeirs
    <3>2. /\ workerLockWaiters'[w] = Tail(workerLockWaiters[w])
          /\ w \in busyWorkers'
      BY <1>1, <2>2 DEF Finish, ReleaseWorkerLock, BusyHasHolder
    <3>3. HoldsLock(h)' /\ WorkerOf[h] = w /\ h \in Runs
      BY <1>2, <1>3, <3>1 DEF HoldsLock
    <3>4. \A s \in Runs : WorkerOf[s] = w /\ HoldsLock(s)' <=> s = h
      BY <3>3 DEF SerialWithinWorker, HoldsLock
    <3>5. Holder(w)' = h
      BY <3>4, Zenon DEF Holder
    <3>6. LineOf(w)' = <<h>> \o Tail(workerLockWaiters[w])
      BY <3>2, <3>5 DEF LineOf
    <3> QED BY <1>1, <2>2, <3>1, <3>6, LineSequences
  <2> QED BY <2>1, <2>2
<1>8. ASSUME NEW v \in Workers, v # w PROVE LineOf(v)' = LineOf(v)
  <2>1. v \in busyWorkers' <=> v \in busyWorkers
    BY <1>8 DEF Finish, ReleaseWorkerLock
  <2>2. workerLockWaiters'[v] = workerLockWaiters[v]
    BY <1>1, <1>8 DEF Finish, ReleaseWorkerLock
  <2>3. \A s \in Runs : WorkerOf[s] = v => (HoldsLock(s)' <=> HoldsLock(s))
    BY <1>2, <1>3, <1>8 DEF HoldsLock
  <2> QED BY <2>1, <2>2, <2>3, LineStable
<1>9. absLine' = [absLine EXCEPT ![w] = Tail(@)]
  BY <1>1, <1>6, <1>7, <1>8 DEF absLine
<1>10. \/ Working' = Working \ {r}
       \/ \E s \in Runs \ Working :
            /\ absLine[WorkerOf[s]] # <<>> /\ s = Head(absLine[WorkerOf[s]])
            /\ Cardinality(Working \ {r}) < limit
            /\ Working' = (Working \ {r}) \union {s}
  <2>1. CASE SlotHeirs = {}
    BY <1>4, <2>1
  <2>2. CASE SlotHeirs # {}
    <3>1. PICK s \in SlotHeirs : SlotHeirs = {s}
      BY <2>2 DEF SlotHeirs
    <3>2. /\ s \in Runs \ Working /\ HoldsLock(s)
          /\ WorkerOf[s] \in Workers
          /\ workerLockWaiters[WorkerOf[s]] \in Seq(Runs)
      BY <1>2, <3>1, WorkerOfAssumption DEF Working, HoldsLock
    <3>3. LineOf(WorkerOf[s]) = <<s>> \o workerLockWaiters[WorkerOf[s]]
      BY <3>2, HolderUnique
    <3>4. LineOf(WorkerOf[s]) # <<>> /\ s = Head(LineOf(WorkerOf[s]))
      BY <3>2, <3>3, LineSequences
    <3>5. Cardinality(Working \ {r}) = ActiveAfterRelease
      <4>1. Cardinality(Working \ {r}) = Cardinality(Working) - 1
        BY <1>1, WorkingFinite, FS_RemoveElement
      <4>2. Cardinality(Working \ {r}) \in Nat
        BY WorkingFinite, FS_RemoveElement, FS_CardinalityType
      <4> QED BY <4>1, <4>2 DEF SlotsAccounted, ActiveAfterRelease
    <3>6. ActiveAfterRelease < limit
      BY <3>1 DEF SlotHeirs
    <3> QED BY <1>4, <3>1, <3>2, <3>4, <3>5, <3>6 DEF absLine
  <2> QED BY <2>1, <2>2
<1>11. absLine[w] # <<>> /\ r = Head(absLine[w])
  BY <1>1, <1>6 DEF absLine
<1> QED BY <1>1, <1>9, <1>10, <1>11, SameCardinality DEF Abs!Leave, absLine

(* Every step of the pool is a step of SerialWorkers or invisible there:    *)
(* service in order within a worker, and bounded over all of them.          *)
THEOREM PoolImplementsSerialWorkers == PoolSpec => ImplementsSerialWorkers
<1>1. ASSUME IInv, IInv', [PoolNext]_poolVars
      PROVE  [Abs!AbsNext]_<<absLine, Working, limit>>
  <2>1. ASSUME NEW r \in Runs, Enqueue(r) PROVE Abs!AbsNext
    BY <1>1, <2>1, EnqueueRefines DEF Abs!AbsNext
  <2>2. ASSUME NEW r \in Runs, AcquireJobSlot(r)
        PROVE  Abs!AbsNext \/ UNCHANGED <<absLine, Working, limit>>
    BY <1>1, <2>2, AcquireJobSlotRefines DEF Abs!AbsNext
  <2>3. ASSUME NEW r \in Runs, Finish(r) PROVE Abs!AbsNext
    BY <1>1, <2>3, FinishRefines DEF Abs!AbsNext
  <2>4. ASSUME NEW n \in Limits, SetLimit(n) PROVE Abs!AbsNext
    <3>1. UNCHANGED <<pc, busyWorkers, workerLockWaiters>> /\ limit' = n
      BY <2>4 DEF SetLimit
    <3>2. absLine' = absLine /\ Working' = Working
      BY <3>1 DEF absLine, LineOf, Holder, HoldsLock, Working
    <3> QED BY <3>1, <3>2 DEF Abs!AbsNext, Abs!Reconfigure, absLine
  <2>5. CASE UNCHANGED poolVars
    BY <2>5 DEF poolVars, absLine, LineOf, Holder, HoldsLock, Working
  <2> QED BY <1>1, <2>1, <2>2, <2>3, <2>4, <2>5 DEF PoolNext
<1>2. [Abs!AbsNext]_<<absLine, Working, limit>> => [Abs!AbsNext]_(Abs!absVars)
  BY DEF Abs!absVars, absLine
<1>3. IInv /\ IInv' /\ [PoolNext]_poolVars => [Abs!AbsNext]_(Abs!absVars)
  BY <1>1, <1>2
<1> QED
  BY InitRefines, PoolInvariant, <1>3, PTL
  DEF PoolSpec, ImplementsSerialWorkers, Abs!AbsSpec
=============================================================================
