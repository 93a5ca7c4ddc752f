---------------------------- MODULE ItemBusProofs ----------------------------
(***************************************************************************)
(* The lock of the item bus and the rows behind it.  The chain of a process*)
(* admits its callers one at a time and in order, whatever fails.  The file*)
(* excludes the processes from each other, as long as no body outlives     *)
(* LOCK_STALE_MS, no backend starts beside a live task, and no two can     *)
(* break the file of a third.  While it does, nobody's change of the rows  *)
(* is lost and nothing is posted that is not due.                          *)
(***************************************************************************)
EXTENDS ItemBus, SequenceTheorems, TLAPS

-----------------------------------------------------------------------------
(*                                 The lock                                *)

(* The types of what the code keeps; calm only records.                     *)
QueueStateOK ==
  /\ status \in [Processes -> {"absent", "booting", "clearing", "up", "dead"}]
  /\ file \in Processes \union {Nobody}
  /\ age \in {"young", "old"} /\ (age = "old" => file # Nobody)
  /\ chain \in [Processes -> Seq(Callers)]
  /\ stage \in [Callers -> Stages]

LEMMA StepOfState == [QueueNext]_<<queueVars, calm>> => [QueueStep]_queueVars
BY DEF QueueNext

Past(t) == stage[t] \notin {"idle", "queued"}

(* Each chain holds calls of its own process, each one once, none that is   *)
(* done; whoever is past the chain is at its head.                          *)
ChainOfProcess ==
  \A p \in Processes : \A i \in 1..Len(chain[p]) :
    ProcOf[chain[p][i]] = p /\ stage[chain[p][i]] # "idle"
NoRepeats ==
  \A p \in Processes : \A i, j \in 1..Len(chain[p]) : chain[p][i] = chain[p][j] => i = j
AtHead ==
  \A t \in Callers : Past(t) => chain[ProcOf[t]] # <<>> /\ Head(chain[ProcOf[t]]) = t

ChainInv == QueueStateOK /\ ChainOfProcess /\ NoRepeats /\ AtHead

LEMMA ChainInit == QueueInit => ChainInv
<1> SUFFICES ASSUME QueueInit PROVE ChainInv
  OBVIOUS
<1>1. QueueStateOK
  BY ProcessesAssumption DEF QueueInit, QueueStateOK, Stages
<1>2. ChainOfProcess /\ NoRepeats
  BY DEF QueueInit, ChainOfProcess, NoRepeats
<1>3. AtHead
  BY DEF QueueInit, AtHead, Past
<1> QED BY <1>1, <1>2, <1>3 DEF ChainInv

(* The chain stays as it is when a caller goes on that is past it.          *)
LEMMA GoOn ==
  ASSUME ChainInv, NEW t \in Callers, NEW s \in Stages \ {"idle"},
         Goto(t, s), chain' = chain, QueueStateOK', Past(t)
  PROVE  ChainInv'
<1>1. ChainOfProcess'
  BY DEF ChainInv, ChainOfProcess, Goto, QueueStateOK
<1>2. NoRepeats'
  BY DEF ChainInv, NoRepeats
<1>3. AtHead'
  BY DEF ChainInv, AtHead, Past, Goto, QueueStateOK
<1> QED BY <1>1, <1>2, <1>3 DEF ChainInv

(* Leaving the chain moves every other caller one place ahead.              *)
LEMMA LeaveChain ==
  ASSUME ChainInv, NEW t \in Callers, Past(t), Leave(t), QueueStateOK'
  PROVE  ChainInv'
<1> DEFINE p == ProcOf[t]
<1> USE ProcessesAssumption
<1>1. p \in Processes /\ chain[p] \in Seq(Callers) /\ chain[p] # <<>> /\ Head(chain[p]) = t
  BY DEF ChainInv, AtHead, QueueStateOK
<1>2. /\ chain'[p] = Tail(chain[p])
      /\ \A q \in Processes : q # p => chain'[q] = chain[q]
  BY <1>1 DEF Leave, ChainInv, QueueStateOK
<1>3. /\ Len(chain'[p]) = Len(chain[p]) - 1
      /\ \A i \in 1..Len(chain'[p]) :
           chain'[p][i] = chain[p][i + 1] /\ i + 1 \in 1..Len(chain[p])
  BY <1>1, <1>2, HeadTailProperties
<1>4. chain[p][1] = t /\ 1 \in 1..Len(chain[p])
  BY <1>1, HeadTailProperties, EmptySeq, LenProperties
<1>5. \A i \in 1..Len(chain'[p]) : chain'[p][i] # t
  BY <1>1, <1>3, <1>4, LenProperties DEF ChainInv, NoRepeats
<1>6. stage' = [stage EXCEPT ![t] = "idle"] /\ stage \in [Callers -> Stages]
  BY DEF Leave, Goto, ChainInv, QueueStateOK
<1>7. ChainOfProcess'
  <2> SUFFICES ASSUME NEW q \in Processes, NEW i \in 1..Len(chain'[q])
               PROVE  ProcOf[chain'[q][i]] = q /\ stage'[chain'[q][i]] # "idle"
    BY DEF ChainOfProcess
  <2>1. CASE q = p
    BY <2>1, <1>1, <1>3, <1>5, <1>6 DEF ChainInv, ChainOfProcess
  <2>2. CASE q # p
    BY <2>2, <1>1, <1>2, <1>6 DEF ChainInv, ChainOfProcess
  <2> QED BY <2>1, <2>2
<1>8. NoRepeats'
  <2> SUFFICES ASSUME NEW q \in Processes, NEW i \in 1..Len(chain'[q]), NEW j \in 1..Len(chain'[q]),
                      chain'[q][i] = chain'[q][j]
               PROVE  i = j
    BY DEF NoRepeats
  <2>1. CASE q = p
    <3>1. i \in 1..Len(chain'[p]) /\ j \in 1..Len(chain'[p])
      BY <2>1
    <3>2. /\ chain[p][i + 1] = chain[p][j + 1]
          /\ i + 1 \in 1..Len(chain[p]) /\ j + 1 \in 1..Len(chain[p])
      BY <3>1, <2>1, <1>3
    <3>3. i + 1 = j + 1
      BY <3>2, <1>1 DEF ChainInv, NoRepeats
    <3> QED BY <3>3
  <2>2. CASE q # p
    BY <2>2, <1>2 DEF ChainInv, NoRepeats
  <2> QED BY <2>1, <2>2
<1>9. AtHead'
  <2> SUFFICES ASSUME NEW u \in Callers, Past(u)'
               PROVE  chain'[ProcOf[u]] # <<>> /\ Head(chain'[ProcOf[u]]) = u
    BY DEF AtHead
  <2>1. u # t /\ Past(u)
    BY <1>6 DEF Past
  <2>2. chain[ProcOf[u]] # <<>> /\ Head(chain[ProcOf[u]]) = u
    BY <2>1 DEF ChainInv, AtHead
  <2>3. ProcOf[u] # p
    BY <2>1, <2>2, <1>1
  <2> QED BY <2>2, <2>3, <1>2
<1> QED BY <1>7, <1>8, <1>9 DEF ChainInv

(* Types: the sequences stay sequences of callers.                          *)
LEMMA QueueTypeStep == ChainInv /\ [QueueStep]_queueVars => QueueStateOK'
<1> SUFFICES ASSUME ChainInv, [QueueStep]_queueVars PROVE QueueStateOK'
  OBVIOUS
<1> USE ProcessesAssumption DEF ChainInv, QueueStateOK, Goto, File
<1>1. CASE UNCHANGED queueVars
  BY <1>1 DEF queueVars
<1>2. ASSUME NEW t \in Callers, Call(t) PROVE QueueStateOK'
  <2>1. Append(chain[ProcOf[t]], t) \in Seq(Callers)
    BY AppendProperties
  <2> QED BY <1>2, <2>1 DEF Call, Stages
<1>3. ASSUME NEW t \in Callers, Past(t), Leave(t)
      PROVE  chain' \in [Processes -> Seq(Callers)] /\ stage' \in [Callers -> Stages]
  <2>1. chain[ProcOf[t]] # <<>> /\ chain[ProcOf[t]] \in Seq(Callers)
    BY <1>3 DEF AtHead
  <2>2. Tail(chain[ProcOf[t]]) \in Seq(Callers)
    BY <2>1, HeadTailProperties
  <2> QED BY <1>3, <2>2 DEF Leave, Stages
<1>4. ASSUME NEW t \in Callers, GiveUp(t) \/ CreateThrows(t) \/ Release(t) PROVE QueueStateOK'
  BY <1>3, <1>4 DEF GiveUp, CreateThrows, Release, Past
<1>5. ASSUME NEW t \in Callers, Admit(t) \/ Stat(t) \/ LookAtOwner(t) \/ Poll(t) PROVE QueueStateOK'
  BY <1>5 DEF Admit, Stat, LookAtOwner, Poll, Stages
<1>6. ASSUME NEW t \in Callers, Create(t) \/ Recreate(t) \/ Unlink(t) PROVE QueueStateOK'
  BY <1>6 DEF Create, Recreate, Unlink, TryCreate, Stages
<1>7. ASSUME NEW p \in Processes, Start(p) \/ BootRead(p) \/ BootUnlink(p) PROVE QueueStateOK'
  BY <1>7 DEF Start, BootRead, BootUnlink, Become
<1>8. ASSUME NEW p \in Processes, Crash(p) PROVE QueueStateOK'
  <2>1. <<>> \in Seq(Callers)
    BY EmptySeq
  <2> QED BY <1>8, <2>1 DEF Crash, Become, Stages
<1>9. CASE Age
  BY <1>9 DEF Age
<1> QED BY <1>1, <1>2, <1>4, <1>5, <1>6, <1>7, <1>8, <1>9 DEF QueueStep, Acquire

(* A call joins its chain at the end.                                       *)
LEMMA JoinChain ==
  ASSUME ChainInv, NEW t \in Callers, Call(t), QueueStateOK'
  PROVE  ChainInv'
<1> DEFINE p == ProcOf[t]
<1>  n == Len(chain[p])
<1> USE ProcessesAssumption
<1>1. p \in Processes /\ chain[p] \in Seq(Callers) /\ n \in Nat /\ stage[t] = "idle"
  BY LenProperties DEF ChainInv, QueueStateOK, Call
<1>2. /\ chain'[p] = Append(chain[p], t)
      /\ \A q \in Processes : q # p => chain'[q] = chain[q]
      /\ stage' = [stage EXCEPT ![t] = "queued"] /\ stage \in [Callers -> Stages]
  BY <1>1 DEF Call, Goto, ChainInv, QueueStateOK
<1>3. /\ Len(chain'[p]) = n + 1 /\ chain'[p][n + 1] = t /\ chain'[p] # <<>>
      /\ \A i \in 1..n : chain'[p][i] = chain[p][i]
  BY <1>1, <1>2, AppendProperties
<1>4. \A i \in 1..n : chain[p][i] # t
  BY <1>1 DEF ChainInv, ChainOfProcess
<1>5. \A i \in 1..(n + 1) : i \in 1..n \/ i = n + 1
  BY <1>1
<1> HIDE DEF p, n
<1>6. ChainOfProcess'
  <2> SUFFICES ASSUME NEW q \in Processes, NEW i \in 1..Len(chain'[q])
               PROVE  ProcOf[chain'[q][i]] = q /\ stage'[chain'[q][i]] # "idle"
    BY DEF ChainOfProcess
  <2>1. CASE q = p /\ i = n + 1
    BY <2>1, <1>2, <1>3 DEF p
  <2>2. CASE q = p /\ i \in 1..n
    <3>1. chain'[q][i] = chain[q][i] /\ ProcOf[chain[q][i]] = q /\ stage[chain[q][i]] # "idle"
      BY <2>2, <1>3 DEF ChainInv, ChainOfProcess, n
    <3> QED BY <3>1, <1>2
  <2>3. CASE q # p
    BY <2>3, <1>2 DEF ChainInv, ChainOfProcess
  <2>4. q = p => i \in 1..(n + 1)
    BY <1>3
  <2> QED BY <2>1, <2>2, <2>3, <2>4, <1>5
<1>7. NoRepeats'
  <2> SUFFICES ASSUME NEW q \in Processes, NEW i \in 1..Len(chain'[q]), NEW j \in 1..Len(chain'[q]),
                      chain'[q][i] = chain'[q][j]
               PROVE  i = j
    BY DEF NoRepeats
  <2>1. CASE q = p /\ i \in 1..n /\ j \in 1..n
    BY <2>1, <1>3 DEF ChainInv, NoRepeats, n
  <2>2. CASE q = p /\ i = n + 1 /\ j = n + 1
    BY <2>2
  <2>3. CASE q # p
    BY <2>3, <1>2 DEF ChainInv, NoRepeats
  <2> QED BY <2>1, <2>2, <2>3, <1>3, <1>4, <1>5
<1>8. AtHead'
  <2> SUFFICES ASSUME NEW u \in Callers, Past(u)'
               PROVE  chain'[ProcOf[u]] # <<>> /\ Head(chain'[ProcOf[u]]) = u
    BY DEF AtHead
  <2>1. u # t /\ Past(u)
    BY <1>2 DEF Past
  <2>2. chain[ProcOf[u]] # <<>> /\ Head(chain[ProcOf[u]]) = u
    BY <2>1 DEF ChainInv, AtHead
  <2>3. CASE ProcOf[u] = p
    <3>1. n # 0
      BY <2>2, <2>3, <1>1, EmptySeq DEF n, p
    <3>2. 1 \in 1..n
      BY <3>1, <1>1
    <3>3. Head(chain'[p]) = chain'[p][1] /\ Head(chain[p]) = chain[p][1]
      OBVIOUS
    <3> QED BY <2>2, <2>3, <3>2, <3>3, <1>3
  <2>4. CASE ProcOf[u] # p
    BY <2>2, <2>4, <1>2
  <2> QED BY <2>3, <2>4
<1> QED BY <1>6, <1>7, <1>8 DEF ChainInv

LEMMA ChainStep == ChainInv /\ [QueueStep]_queueVars => ChainInv'
<1> SUFFICES ASSUME ChainInv, [QueueStep]_queueVars PROVE ChainInv'
  OBVIOUS
<1>0. QueueStateOK'
  BY QueueTypeStep
<1> USE ProcessesAssumption
<1>1. CASE UNCHANGED queueVars
  BY <1>0, <1>1 DEF queueVars, ChainInv, ChainOfProcess, NoRepeats, AtHead, Past
<1>2. ASSUME NEW t \in Callers, Call(t) PROVE ChainInv'
  BY <1>0, <1>2, JoinChain
<1>3. ASSUME NEW t \in Callers, GiveUp(t) \/ CreateThrows(t) \/ Release(t) PROVE ChainInv'
  <2>1. Past(t) /\ Leave(t)
    BY <1>3 DEF GiveUp, CreateThrows, Release, Past
  <2> QED BY <2>1, <1>0, LeaveChain
<1>4. ASSUME NEW t \in Callers, Admit(t) PROVE ChainInv'
  <2>1. /\ chain' = chain /\ Head(chain[ProcOf[t]]) = t /\ stage[t] = "queued"
        /\ stage' = [stage EXCEPT ![t] = "create"] /\ stage \in [Callers -> Stages]
    BY <1>4 DEF Admit, Goto, ChainInv, QueueStateOK
  <2>2. chain[ProcOf[t]] # <<>>
    BY <1>4 DEF Admit
  <2>3. ChainOfProcess' /\ NoRepeats'
    BY <2>1 DEF ChainInv, ChainOfProcess, NoRepeats
  <2>4. AtHead'
    BY <2>1, <2>2 DEF ChainInv, AtHead, Past
  <2> QED BY <1>0, <2>3, <2>4 DEF ChainInv
<1>5. ASSUME NEW t \in Callers,
             \/ Stat(t) \/ LookAtOwner(t) \/ Poll(t) \/ Create(t) \/ Recreate(t) \/ Unlink(t)
      PROVE  ChainInv'
  <2>1. Past(t) /\ chain' = chain /\ \E s \in Stages \ {"idle"} : Goto(t, s)
    BY <1>5 DEF Stat, LookAtOwner, Poll, Create, Recreate, Unlink, TryCreate, Past, Stages
  <2> QED BY <2>1, <1>0, GoOn
<1>6. ASSUME NEW p \in Processes, Start(p) \/ BootRead(p) \/ BootUnlink(p) PROVE ChainInv'
  <2>1. chain' = chain /\ stage' = stage
    BY <1>6 DEF Start, BootRead, BootUnlink
  <2> QED BY <1>0, <2>1 DEF ChainInv, ChainOfProcess, NoRepeats, AtHead, Past
<1>7. ASSUME NEW p \in Processes, Crash(p) PROVE ChainInv'
  <2>1. /\ chain' = [chain EXCEPT ![p] = <<>>] /\ chain \in [Processes -> Seq(Callers)]
        /\ stage' = [t \in Callers |-> IF ProcOf[t] = p THEN "idle" ELSE stage[t]]
    BY <1>7 DEF Crash, ChainInv, QueueStateOK
  <2>2. \A q \in Processes : \A i \in 1..Len(chain'[q]) :
          q # p /\ chain'[q] = chain[q] /\ i \in 1..Len(chain[q])
    <3>1. Len(chain'[p]) = 0
      BY <2>1, EmptySeq
    <3>2. \A q \in Processes : q # p => chain'[q] = chain[q]
      BY <2>1
    <3> QED BY <3>1, <3>2
  <2>3. \A q \in Processes : \A i \in 1..Len(chain[q]) : chain[q][i] \in Callers
    BY <2>1, LenProperties
  <2>4. ChainOfProcess'
    BY <2>1, <2>2, <2>3 DEF ChainInv, ChainOfProcess
  <2>5. NoRepeats'
    BY <2>2 DEF ChainInv, NoRepeats
  <2>6. AtHead'
    BY <2>1 DEF ChainInv, AtHead, Past
  <2> QED BY <1>0, <2>4, <2>5, <2>6 DEF ChainInv
<1>8. CASE Age
  BY <1>0, <1>8 DEF Age, ChainInv, ChainOfProcess, NoRepeats, AtHead, Past
<1> QED BY <1>1, <1>2, <1>3, <1>4, <1>5, <1>6, <1>7, <1>8 DEF QueueStep, Acquire

THEOREM ChainInvariant == QueueSpec => []ChainInv
<1> QED BY ChainInit, ChainStep, StepOfState, PTL DEF QueueSpec

(* Types, of withQueueLock and of the lock file.                            *)
THEOREM QueueTypeCorrect == QueueSpec => []QueueTypeOK
<1>1. QueueInit => calm \in BOOLEAN
  BY DEF QueueInit
<1>2. calm \in BOOLEAN /\ [QueueNext]_<<queueVars, calm>> => (calm \in BOOLEAN)'
  BY Zenon DEF QueueNext
<1>3. QueueSpec => [](calm \in BOOLEAN)
  BY <1>1, <1>2, PTL DEF QueueSpec
<1>4. ChainInv /\ calm \in BOOLEAN => QueueTypeOK
  BY DEF ChainInv, QueueStateOK, QueueTypeOK
<1> QED BY <1>3, <1>4, ChainInvariant, PTL

(* withQueueLock admits the calls of a process in their order, whatever     *)
(* fails, times out or crashes.                                             *)
THEOREM ChainCorrect == QueueSpec => []ChainInOrder
<1>1. ChainInv => ChainInOrder
  BY DEF ChainInv, ChainInOrder, ChainOfProcess, AtHead, Past
<1> QED BY <1>1, ChainInvariant, PTL

-----------------------------------------------------------------------------
(* Who breaks the file of a dead process has nobody beside it: no process  *)
(* is ever killed, or there are two, or there is one task beside backends   *)
(* that follow each other.  Of three, two may break the same file, and the  *)
(* later one removes what the other has created meanwhile.                  *)
OneStarted == \A p, q \in Backends \intersect Started : p = q
OneBreaker ==
  \/ "crash" \notin Faults
  \/ \A p, q, r \in Processes : p = q \/ q = r \/ p = r
  \/ OneStarted /\ \A p, q \in Processes \ Backends : p = q

Dead(p) == status[p] = "dead"

(* Calls are of processes that are up, only backends clear the lock, and    *)
(* calm says that nothing was disturbed so far.                             *)
OnlyUpCall == \A t \in Callers : stage[t] # "idle" => status[ProcOf[t]] = "up"
BackendsBoot == \A p \in Processes : status[p] \in {"booting", "clearing"} => p \in Backends
NoneDies == "crash" \notin Faults => \A p \in Processes : ~Dead(p)
CalmSays == calm \in BOOLEAN /\ (calm => ~Disturbed)

(* One backend is alive at a time, and none that is up finds the file of an *)
(* earlier one.                                                             *)
Alive(p) == status[p] \notin {"absent", "dead"}
OneBackend == \A p, q \in Backends : Alive(p) /\ Alive(q) => p = q
EarlierGone == \A p \in Backends : status[p] = "up" => file \notin Backends \ {p}

(* The file is that of the caller that runs its body; who is to break a file*)
(* is of the only process alive, and if another is to come it is a backend. *)
HeldByFile == \A t \in Callers : stage[t] = "held" => file = ProcOf[t]
BreakerAlone ==
  \A t \in Callers : stage[t] \in {"owner", "unlink", "recreate"} =>
    \A p \in Processes \ {ProcOf[t]} : ~Alive(p) /\ (Dead(p) \/ p \in Backends)

ProcInv == OnlyUpCall /\ BackendsBoot /\ NoneDies /\ (OneStarted => OneBackend /\ EarlierGone)
FileInv == ChainInv /\ ProcInv /\ CalmSays /\ (calm => HeldByFile /\ BreakerAlone)

LEMMA FileInit == QueueInit => FileInv
<1> SUFFICES ASSUME QueueInit PROVE FileInv
  OBVIOUS
<1>1. ProcInv /\ HeldByFile /\ BreakerAlone
  BY ProcessesAssumption
     DEF QueueInit, ProcInv, OnlyUpCall, BackendsBoot, NoneDies, OneStarted, OneBackend, EarlierGone,
         Alive, Dead, HeldByFile, BreakerAlone
<1>2. CalmSays
  BY ProcessesAssumption DEF QueueInit, CalmSays, Disturbed
<1> QED BY <1>1, <1>2, ChainInit DEF FileInv

LEMMA CalmStays == CalmSays /\ [QueueNext]_<<queueVars, calm>> => CalmSays' /\ (calm' => calm)
<1> SUFFICES ASSUME CalmSays, [QueueNext]_<<queueVars, calm>> PROVE CalmSays' /\ (calm' => calm)
  OBVIOUS
<1>1. CASE QueueNext
  <2>1. calm' = (calm /\ ~Disturbed')
    BY <1>1 DEF QueueNext
  <2> QED BY <2>1 DEF CalmSays
<1>2. CASE UNCHANGED <<queueVars, calm>>
  <2>1. (Disturbed' <=> Disturbed) /\ calm' = calm
    BY <1>2 DEF queueVars, Disturbed
  <2> QED BY <2>1 DEF CalmSays
<1> QED BY <1>1, <1>2

LEMMA ProcStep == QueueStateOK /\ ProcInv /\ [QueueStep]_queueVars => ProcInv'
<1> SUFFICES ASSUME QueueStateOK, ProcInv, [QueueStep]_queueVars PROVE ProcInv'
  OBVIOUS
<1> DEFINE Plain == OnlyUpCall /\ BackendsBoot /\ NoneDies
           Single == OneBackend /\ EarlierGone
<1>0. Plain /\ (OneStarted => Single) /\ (Plain' /\ (OneStarted => Single') => ProcInv')
  BY DEF ProcInv
<1> SUFFICES Plain' /\ (OneStarted => Single')
  BY <1>0
<1> USE ProcessesAssumption, <1>0
    DEF OnlyUpCall, BackendsBoot, NoneDies, Dead, OneBackend, EarlierGone, Alive, QueueStateOK
<1>1. CASE UNCHANGED queueVars
  BY <1>1 DEF queueVars
<1>2. ASSUME NEW t \in Callers, Call(t) \/ Acquire(t) \/ GiveUp(t) \/ CreateThrows(t)
      PROVE  Plain' /\ (OneStarted => Single')
  <2>1. status' = status /\ \E s \in Stages : stage' = [stage EXCEPT ![t] = s]
    BY <1>2 DEF Call, Acquire, Admit, Create, Stat, LookAtOwner, Unlink, Recreate, Poll, Release, GiveUp,
                CreateThrows, TryCreate, Leave, Goto, Stages
  <2>2. status[ProcOf[t]] = "up"
    BY <1>2 DEF Call, Acquire, Admit, Create, Stat, LookAtOwner, Unlink, Recreate, Poll, Release, GiveUp,
                CreateThrows
  <2>3. file' \in {file, Nobody, ProcOf[t]}
    BY <1>2 DEF Call, Acquire, Admit, Create, Stat, LookAtOwner, Unlink, Recreate, Poll, Release, GiveUp,
                CreateThrows, TryCreate, Leave, File
  <2>4. Plain'
    BY <2>1, <2>2
  <2>5. OneStarted => Single'
    <3> SUFFICES ASSUME OneStarted PROVE Single'
      OBVIOUS
    <3>1. OneBackend'
      BY <2>1
    <3>2. ASSUME NEW q \in Backends, status[q] = "up" PROVE file' \notin Backends \ {q}
      <4>1. ProcOf[t] \in Backends => ProcOf[t] = q
        BY <2>2, <3>2
      <4>2. file \notin Backends \ {q} /\ Nobody \notin Backends
        BY <3>2
      <4> QED BY <2>3, <4>1, <4>2
    <3> QED BY <2>1, <3>1, <3>2
  <2> QED BY <2>4, <2>5
<1>3. ASSUME NEW p \in Processes, Start(p) PROVE Plain' /\ (OneStarted => Single')
  <2>1. status[p] = "absent" /\ UNCHANGED <<file, stage>>
    BY <1>3 DEF Start
  <2>2. CASE p \notin Backends /\ status' = [status EXCEPT ![p] = "up"]
    BY <2>1, <2>2
  <2>3. CASE /\ p \in Backends /\ status' = [status EXCEPT ![p] = "booting"]
             /\ \A q \in Backends : status[q] \in {"absent", "dead"}
    <3>1. Plain'
      BY <2>1, <2>3
    <3>2. OneBackend' /\ EarlierGone'
      BY <2>1, <2>3
    <3> QED BY <3>1, <3>2
  <2> QED BY <1>3, <2>2, <2>3 DEF Start, Become
<1>4. ASSUME NEW p \in Processes, BootRead(p) \/ BootUnlink(p) PROVE Plain' /\ (OneStarted => Single')
  <2>1. PICK s \in {"clearing", "up"} : status' = [status EXCEPT ![p] = s] /\ stage' = stage
    BY <1>4 DEF BootRead, BootUnlink, Become
  <2>2. /\ status[p] \in {"booting", "clearing"} /\ p \in Backends
        /\ file' = file \/ file' = Nobody
        /\ status'[p] = "up" => file' = Nobody
    BY <1>4, <2>1 DEF BootRead, BootUnlink, Become, File
  <2>3. Plain'
    BY <2>1, <2>2
  <2>4. OneStarted => OneBackend'
    BY <2>1, <2>2
  <2>5. OneStarted => EarlierGone'
    BY <2>1, <2>2
  <2> QED BY <2>3, <2>4, <2>5
<1>5. ASSUME NEW p \in Processes, Crash(p) PROVE Plain' /\ (OneStarted => Single')
  BY <1>5 DEF Crash, Become
<1>6. CASE Age
  BY <1>6 DEF Age
<1> QED BY <1>1, <1>2, <1>3, <1>4, <1>5, <1>6 DEF QueueStep

(* Two callers of one process are not both past its chain.                  *)
LEMMA OnePast ==
  ASSUME ChainInv, NEW t \in Callers, NEW u \in Callers, Past(t), Past(u), ProcOf[t] = ProcOf[u]
  PROVE  t = u
BY DEF ChainInv, AtHead

(* So nobody else runs its body while a caller holds the lock or breaks it. *)
LEMMA HeldAlone ==
  ASSUME FileInv, calm, NEW t \in Callers, NEW u \in Callers, stage[t] = "held", stage[u] = "held"
  PROVE  t = u
<1>1. ProcOf[t] = ProcOf[u]
  BY DEF FileInv, HeldByFile
<1> QED BY <1>1, OnePast DEF FileInv, Past

LEMMA BreakerOnly ==
  ASSUME FileInv, calm, NEW t \in Callers, stage[t] \in {"owner", "unlink", "recreate"},
         NEW u \in Callers, stage[u] = "held"
  PROVE  FALSE
<1>1. ProcOf[u] = ProcOf[t]
  BY ProcessesAssumption DEF FileInv, ProcInv, OnlyUpCall, BreakerAlone, Alive
<1> QED BY <1>1, OnePast DEF FileInv, Past

(* In a calm state the owner of an old file is dead, and a backend that     *)
(* clears the lock is the only process alive.                               *)
LEMMA OldIsDead == ASSUME FileInv, calm, age = "old" PROVE file \in Processes /\ Dead(file)
BY DEF FileInv, ChainInv, QueueStateOK, CalmSays, Disturbed, Dead

LEMMA BootAlone ==
  ASSUME FileInv, calm, NEW p \in Processes, status[p] \in {"booting", "clearing"}
  PROVE  \A t \in Callers : stage[t] = "idle"
<1> SUFFICES ASSUME NEW t \in Callers, stage[t] # "idle" PROVE FALSE
  OBVIOUS
<1>1. status[ProcOf[t]] = "up" /\ ProcOf[t] \in Processes \ {p} /\ p \in Backends
  BY ProcessesAssumption DEF FileInv, ProcInv, OnlyUpCall, BackendsBoot
<1> QED BY <1>1 DEF FileInv, CalmSays, Disturbed

LEMMA FileStep ==
  ASSUME OneBreaker, FileInv, [QueueNext]_<<queueVars, calm>> PROVE FileInv'
<1>0. ChainInv' /\ ChainInv /\ QueueStateOK /\ ProcInv /\ ProcInv' /\ CalmSays'
  BY ChainStep, ProcStep, CalmStays, StepOfState DEF FileInv, ChainInv
<1> SUFFICES ASSUME calm' PROVE HeldByFile' /\ BreakerAlone'
  BY <1>0 DEF FileInv
<1>01. calm /\ HeldByFile /\ BreakerAlone
  BY CalmStays DEF FileInv
<1>02. [QueueStep]_queueVars
  BY StepOfState
<1> DEFINE Goal == HeldByFile' /\ BreakerAlone'
<1> USE ProcessesAssumption, <1>01 DEF HeldByFile, BreakerAlone, Dead, Alive
<1>1. CASE UNCHANGED queueVars
  BY <1>1 DEF queueVars
<1>2. ASSUME NEW t \in Callers, Call(t) \/ Admit(t) \/ Poll(t) \/ GiveUp(t) \/ CreateThrows(t)
      PROVE  Goal
  <2>1. /\ UNCHANGED <<status, file, age>>
        /\ \E s \in {"queued", "create", "idle"} : stage' = [stage EXCEPT ![t] = s]
    BY <1>2 DEF Call, Admit, Poll, GiveUp, CreateThrows, Leave, Goto
  <2> QED BY <1>0, <2>1 DEF QueueStateOK
<1>3. ASSUME NEW t \in Callers, Create(t) \/ Recreate(t) PROVE Goal
  <2>1. file = Nobody => \A u \in Callers : stage[u] # "held"
    OBVIOUS
  <2>2. status' = status /\ stage \in [Callers -> Stages]
    BY <1>0, <1>3 DEF Create, Recreate, QueueStateOK
  <2>3. CASE file = Nobody /\ file' = ProcOf[t] /\ stage' = [stage EXCEPT ![t] = "held"]
    BY <2>1, <2>2, <2>3
  <2>4. ASSUME NEW no \in {"stat", "sleep"}, file' = file, stage' = [stage EXCEPT ![t] = no]
        PROVE  Goal
    BY <2>2, <2>4
  <2> QED BY <1>3, <2>3, <2>4 DEF Create, Recreate, TryCreate, File, Goto
<1>4. ASSUME NEW t \in Callers, Stat(t) PROVE Goal
  <2>1. stage[t] = "stat" /\ UNCHANGED <<status, file, age>>
    BY <1>4 DEF Stat
  <2>2. age = "old" =>
          \A p \in Processes \ {ProcOf[t]} : ~Alive(p) /\ (Dead(p) \/ p \in Backends)
    <3> SUFFICES ASSUME age = "old", NEW p \in Processes \ {ProcOf[t]}
                 PROVE  ~Alive(p) /\ (Dead(p) \/ p \in Backends)
      OBVIOUS
    <3>1. file \in Processes /\ status[file] = "dead"
      BY OldIsDead
    <3>2. status[ProcOf[t]] = "up" /\ ProcOf[t] \in Processes
      BY <1>0, <2>1 DEF ProcInv, OnlyUpCall
    <3>3. "crash" \in Faults
      BY <1>0, <3>1 DEF ProcInv, NoneDies
    <3>4. CASE \A q, r, s \in Processes : q = r \/ r = s \/ q = s
      BY <3>1, <3>2, <3>4
    <3>5. CASE OneStarted /\ \A q, r \in Processes \ Backends : q = r
      <4>1. OneBackend /\ EarlierGone
        BY <1>0, <3>5 DEF ProcInv
      <4>2. CASE ProcOf[t] \in Backends
        <5>1. file \in Processes \ Backends
          BY <3>1, <3>2, <4>1, <4>2 DEF EarlierGone
        <5>2. CASE p \in Backends
          BY <3>2, <4>1, <4>2, <5>2 DEF OneBackend
        <5>3. CASE p \notin Backends
          BY <3>1, <3>5, <5>1, <5>3
        <5> QED BY <5>2, <5>3
      <4>3. CASE ProcOf[t] \notin Backends
        <5>1. p \in Backends /\ file \in Backends
          BY <3>1, <3>2, <3>5, <4>3
        <5>2. status[p] # "up"
          BY <3>1, <4>1, <5>1 DEF EarlierGone
        <5>3. status[p] \notin {"booting", "clearing"}
          BY <2>1, BootAlone
        <5> QED BY <1>0, <5>1, <5>2, <5>3 DEF QueueStateOK
      <4> QED BY <4>2, <4>3
    <3> QED BY <3>3, <3>4, <3>5, OneBreaker DEF OneBreaker
  <2>3. stage' = [stage EXCEPT ![t] = IF file # Nobody /\ age = "old" THEN "owner" ELSE "sleep"]
    BY <1>4 DEF Stat, Goto
  <2> QED BY <1>0, <2>1, <2>2, <2>3 DEF QueueStateOK
<1>5. ASSUME NEW t \in Callers, LookAtOwner(t) PROVE Goal
  BY <1>0, <1>5 DEF LookAtOwner, Goto, QueueStateOK
<1>6. ASSUME NEW t \in Callers, Unlink(t) PROVE Goal
  <2>1. \A u \in Callers : stage[u] # "held"
    BY <1>6, BreakerOnly DEF Unlink
  <2> QED BY <1>0, <1>6, <2>1 DEF Unlink, File, Goto, QueueStateOK
<1>7. ASSUME NEW t \in Callers, Release(t) PROVE Goal
  <2>1. \A u \in Callers : stage[u] = "held" => u = t
    BY <1>7, HeldAlone DEF Release
  <2> QED BY <1>0, <1>7, <2>1 DEF Release, Leave, File, Goto, QueueStateOK
<1>8. ASSUME NEW p \in Processes, Start(p) PROVE Goal
  <2>1. status[p] = "absent" /\ UNCHANGED <<file, stage>>
    BY <1>8 DEF Start
  <2>2. \A t \in Callers : stage[t] # "idle" => ProcOf[t] # p
    BY <1>0, <2>1 DEF ProcInv, OnlyUpCall
  <2>3. CASE p \in Backends
    <3>1. status' = [status EXCEPT ![p] = "booting"]
      BY <1>8, <2>3 DEF Start, Become
    <3>2. \A q \in Processes \ {p} : status[q] \in {"absent", "dead"}
      BY <1>0, <2>3, <3>1 DEF CalmSays, Disturbed, QueueStateOK
    <3>3. \A t \in Callers : stage[t] = "idle"
      BY <1>0, <2>1, <3>2 DEF ProcInv, OnlyUpCall
    <3> QED BY <2>1, <3>3
  <2>4. CASE p \notin Backends
    BY <2>1, <2>2, <2>4
  <2> QED BY <2>3, <2>4
<1>9. ASSUME NEW p \in Processes, BootRead(p) \/ BootUnlink(p) PROVE Goal
  <2>1. status[p] \in {"booting", "clearing"} /\ stage' = stage
    BY <1>9 DEF BootRead, BootUnlink
  <2> QED BY <2>1, BootAlone
<1>10. ASSUME NEW p \in Processes, Crash(p) PROVE Goal
  BY <1>0, <1>10 DEF Crash, Become, QueueStateOK
<1>11. CASE Age
  BY <1>11 DEF Age
<1> QED BY <1>02, <1>1, <1>2, <1>3, <1>4, <1>5, <1>6, <1>7, <1>8, <1>9, <1>10, <1>11
        DEF QueueStep, Acquire

(* withQueueLock runs one body at a time, whenever processes start and,     *)
(* where one of them at most can break a file, whoever is killed            *)
(* (queue.ts:802).                                                          *)
THEOREM OneBodyAtATime == ASSUME OneBreaker PROVE QueueSpec => []Exclusive
<1>1. FileInv /\ [QueueNext]_<<queueVars, calm>> => FileInv'
  BY FileStep
<1>2. FileInv => Exclusive
  BY HeldAlone DEF Exclusive
<1> QED BY <1>1, <1>2, FileInit, PTL DEF QueueSpec

(* ... and acquireFileLock breaks no lock that is held.                     *)
THEOREM HeldFileStays == ASSUME OneBreaker PROVE QueueSpec => LockKept
<1>1. FileInv /\ [QueueNext]_<<queueVars, calm>> => FileInv'
  BY FileStep
<1>2. FileInv' => [calm' => \A t \in Callers :
           stage[t] = "held" /\ file = ProcOf[t] /\ stage'[t] = "held" => file' = file]_queueVars
  BY DEF FileInv, HeldByFile
<1> QED BY <1>1, <1>2, FileInit, PTL DEF QueueSpec, LockKept

-----------------------------------------------------------------------------
(*                                 The rows                                *)

(* The rows are changed under the lock: what is proved of the lock alone    *)
(* holds with the rows around it.                                           *)
LEMMA CalmStep == CalmSays /\ [BusNext]_allVars => CalmSays'
<1> SUFFICES ASSUME CalmSays, [BusNext]_allVars PROVE CalmSays'
  OBVIOUS
<1>1. CASE BusNext
  <2>1. calm' = (calm /\ ~Disturbed')
    BY <1>1 DEF BusNext
  <2>2. calm' \in BOOLEAN
    BY <2>1
  <2> QED
    BY <2>1, <2>2 DEF CalmSays
<1>2. CASE UNCHANGED allVars
  <2>1. UNCHANGED <<calm, status, age, file>>
    BY <1>2 DEF allVars, queueVars
  <2>2. Disturbed' <=> Disturbed
    BY <2>1 DEF Disturbed
  <2> QED
    BY <2>1, <2>2 DEF CalmSays
<1> QED
  BY <1>1, <1>2

LEMMA BusStepOfQueue ==
  ASSUME CalmSays, [BusNext]_allVars
  PROVE  [QueueNext]_<<queueVars, calm>>
<1>1. CASE UNCHANGED allVars
  BY <1>1 DEF allVars
<1>2. CASE BusNext
  <2>1. calm' = (calm /\ ~Disturbed')
    BY <1>2 DEF BusNext
  <2>2. CASE LockStep
    BY <2>1, <2>2 DEF LockStep, Approach, QueueNext, QueueStep, Acquire
  <2>3. ASSUME NEW t \in Callers, EndBody(t) PROVE QueueNext
    BY <2>1, <2>3 DEF EndBody, QueueNext, QueueStep, Acquire
  <2>4. ASSUME NEW p \in Processes, Die(p) PROVE QueueNext
    BY <2>1, <2>4 DEF Die, QueueNext, QueueStep
  <2>5. CASE UNCHANGED queueVars
    <3>1. Disturbed' <=> Disturbed
      BY <2>5 DEF queueVars, Disturbed
    <3>2. calm' = calm
      BY <2>1, <3>1 DEF CalmSays
    <3> QED
      BY <2>5, <3>2
  <2> QED
    BY <1>2, <2>2, <2>3, <2>4, <2>5 DEF BusNext, BusStep
<1> QED
  BY <1>1, <1>2

(* Those who change the rows use the lock by its own operations only, so    *)
(* that what it promises holds around them.                                 *)
THEOREM RowsAreBehindTheLock == BusSpec => QueueSpec
<1>1. BusInit => QueueInit /\ CalmSays
  <2> SUFFICES ASSUME BusInit PROVE QueueInit /\ CalmSays
    OBVIOUS
  <2>1. QueueInit
    BY DEF BusInit
  <2>2. \A p \in Processes : status[p] \in {"up", "absent"}
    BY <2>1 DEF QueueInit
  <2>3. ~Disturbed
    BY <2>1, <2>2, ProcessesAssumption DEF QueueInit, Disturbed
  <2> QED
    BY <2>1, <2>3 DEF QueueInit, CalmSays
<1> QED
  BY <1>1, CalmStep, BusStepOfQueue, PTL DEF BusSpec, QueueSpec

-----------------------------------------------------------------------------
RowType == [state : States, tries : 0..MaxAttempts]
TableType == [Items -> RowType]
Places == {"begin", "decide", "post", "chosen", "replace", "delete", "over"}

(* The publisher has an attempt left for the item that it has chosen, and   *)
(* for one whose post it may yet take for a failed one.                     *)
BodyType ==
  {b \in [at : Places, copy : TableType, about : SUBSET Items] :
     \A i \in b.about :
       b.at = "chosen" \/ (b.at = "replace" /\ b.copy[i].state = "posted")
         => b.copy[i].tries < MaxAttempts}

Fates == {"never", "once", "twice", "lost"}

RowsTyped ==
  /\ rows \in TableType /\ expired \subseteq Items
  /\ body \in [Callers -> BodyType]
  /\ sent \in [Items -> Fates]
  /\ \A t \in Callers : stage[t] # "held" => body[t] = Rest

LEMMA RestTyped == Rest \in BodyType /\ Rest.at = "begin" /\ [Rest EXCEPT !.at = "over"] \in BodyType
<1>1. Gone \in RowType
  BY ItemBusAssumption DEF Gone, Row, RowType, States
<1>2. [i \in Items |-> Gone] \in TableType
  BY <1>1 DEF TableType
<1> QED
  BY <1>2 DEF Rest, BodyType, Places

(* A table is what a step of a caller makes of it.                          *)
LEMMA TableTyped ==
  ASSUME RowsTyped, NEW new \in TableType, Table(new)
  PROVE  rows' \in TableType /\ expired' \subseteq Items /\ sent' \in [Items -> Fates]
<1>1. \A i \in Items : (IF new[i] = Gone THEN "never" ELSE sent[i]) \in Fates
  BY DEF RowsTyped, Fates
<1> QED
  BY <1>1 DEF Table, RowsTyped

LEMMA MarkTyped ==
  ASSUME NEW copy \in TableType, NEW i \in Items, NEW outcome \in {"sent", "duplicate", "error"},
         copy[i].tries < MaxAttempts
  PROVE  /\ Marked(copy, i, outcome) \in TableType
         /\ Marked(copy, i, outcome)[i].state = "posted"
              => Marked(copy, i, outcome)[i].tries < MaxAttempts
<1>1. copy[i] \in RowType
  BY DEF TableType
<1>2. MaxAttempts \in Nat \ {0}
  BY ItemBusAssumption
<1> DEFINE row == CASE outcome = "sent" -> Row("posted", copy[i].tries)
                    [] outcome = "duplicate" -> Row("rejected", MaxAttempts)
                    [] outcome = "error" -> Row("failed", copy[i].tries + 1)
<1>3. /\ row \in RowType
      /\ row.state = "posted" => row.tries < MaxAttempts
  <2>1. copy[i].tries \in 0..(MaxAttempts - 1)
    BY <1>1, <1>2 DEF RowType
  <2>2. CASE outcome = "sent"
    <3>1. row = Row("posted", copy[i].tries)
      BY <2>2
    <3> QED
      BY <1>2, <2>1, <2>2, <3>1 DEF Row, RowType, States
  <2>3. CASE outcome = "duplicate"
    <3>1. row = Row("rejected", MaxAttempts)
      BY <2>3
    <3> QED
      BY <1>2, <2>3, <3>1 DEF Row, RowType, States
  <2>4. CASE outcome = "error"
    <3>1. row = Row("failed", copy[i].tries + 1)
      BY <2>4
    <3> QED
      BY <1>2, <2>1, <2>4, <3>1 DEF Row, RowType, States
  <2> QED
    BY <2>2, <2>3, <2>4
<1>4. Marked(copy, i, outcome) = [copy EXCEPT ![i] = row]
  BY DEF Marked
<1> HIDE DEF row
<1> QED
  BY <1>3, <1>4 DEF TableType

LEMMA MarkOne ==
  ASSUME NEW copy \in TableType, NEW i \in Items, NEW outcome \in {"sent", "duplicate", "error"}
  PROVE  /\ \A j \in Items \ {i} : Marked(copy, i, outcome)[j] = copy[j]
         /\ Marked(copy, i, outcome)[i].state = "posted" <=> outcome = "sent"
<1> DEFINE row == CASE outcome = "sent" -> Row("posted", copy[i].tries)
                    [] outcome = "duplicate" -> Row("rejected", MaxAttempts)
                    [] outcome = "error" -> Row("failed", copy[i].tries + 1)
<1>1. row.state = "posted" <=> outcome = "sent"
  BY DEF Row
<1>2. Marked(copy, i, outcome) = [copy EXCEPT ![i] = row]
  BY DEF Marked
<1> HIDE DEF row
<1> QED
  BY <1>1, <1>2 DEF TableType

(* What a caller does to its own body; the rows and those of others stay    *)
(* of their types.                                                          *)
LEMMA BodyTyped ==
  ASSUME RowsTyped, NEW t \in Callers, BodyStep(t)
  PROVE  /\ stage[t] = "held" /\ body' \in [Callers -> BodyType]
         /\ \A u \in Callers \ {t} : body'[u] = body[u]
         /\ rows' \in TableType /\ expired' \subseteq Items /\ sent' \in [Items -> Fates]
<1>1. body[t] \in BodyType /\ body \in [Callers -> BodyType] /\ rows \in TableType
  BY DEF RowsTyped
<1>2. body[t].copy \in TableType /\ body[t].about \subseteq Items /\ expired \subseteq Items
  BY <1>1 DEF BodyType, RowsTyped
<1>3. ASSUME NEW b \in BodyType, body' = [body EXCEPT ![t] = b]
      PROVE  body' \in [Callers -> BodyType] /\ \A u \in Callers \ {t} : body'[u] = body[u]
  BY <1>1, <1>3
<1>4. ASSUME Over(t)
      PROVE  body' \in [Callers -> BodyType] /\ \A u \in Callers \ {t} : body'[u] = body[u]
  BY <1>3, <1>4, RestTyped DEF Over
<1>5. ASSUME NEW copy \in TableType, NEW about \in SUBSET Items, Save(t, copy, about),
             \A i \in about : copy[i].state = "posted" => copy[i].tries < MaxAttempts
      PROVE  body' \in [Callers -> BodyType] /\ \A u \in Callers \ {t} : body'[u] = body[u]
  <2>1. [at |-> "replace", copy |-> copy, about |-> about] \in BodyType
    BY <1>5 DEF BodyType, Places
  <2> QED
    BY <1>3, <1>5, <2>1 DEF Save
<1>6. Gone \in RowType /\ Row("queued", 0) \in RowType
  BY ItemBusAssumption DEF Gone, Row, RowType, States
<1>7. ASSUME UNCHANGED <<rows, expired, sent>>
      PROVE  rows' \in TableType /\ expired' \subseteq Items /\ sent' \in [Items -> Fates]
  BY <1>7 DEF RowsTyped
<1>8. CASE Insert(t)
  <2>1. PICK i \in Items : Table(IF rows[i] = Gone THEN [rows EXCEPT ![i] = Row("queued", 0)] ELSE rows)
    BY <1>8 DEF Insert
  <2>2. (IF rows[i] = Gone THEN [rows EXCEPT ![i] = Row("queued", 0)] ELSE rows) \in TableType
    BY <1>1, <1>6 DEF TableType
  <2> QED
    BY <1>4, <1>8, <2>1, <2>2, TableTyped DEF Insert, Begins, Body
<1>9. CASE Load(t)
  <2>1. PICK op \in {"decide", "post"} :
          /\ Begins(t, op)
          /\ body' = [body EXCEPT ![t].at = op,
               ![t].copy = [i \in Items |-> IF op = "post" /\ i \in expired THEN Gone ELSE rows[i]]]
    BY <1>9 DEF Load
  <2> DEFINE copy == [i \in Items |-> IF op = "post" /\ i \in expired THEN Gone ELSE rows[i]]
  <2>2. copy \in TableType
    BY <1>1, <1>6 DEF TableType
  <2>3. body' = [body EXCEPT ![t] = [body[t] EXCEPT !.at = op, !.copy = copy]]
    BY <1>1, <2>1
  <2> HIDE DEF copy
  <2>4. [body[t] EXCEPT !.at = op, !.copy = copy] \in BodyType
    BY <1>1, <2>2 DEF BodyType, Places
  <2> QED
    BY <1>3, <1>7, <1>9, <2>1, <2>3, <2>4 DEF Load, Begins, Body
<1>10. CASE Decide(t)
  <2>1. PICK i \in Items, verdict \in {"approved", "rejected"} :
          Save(t, [body[t].copy EXCEPT ![i].state = verdict], {i}) \/ Over(t)
    BY <1>10 DEF Decide
  <2>2. /\ [body[t].copy EXCEPT ![i].state = verdict] \in TableType
        /\ [body[t].copy EXCEPT ![i].state = verdict][i].state # "posted"
    <3>1. [body[t].copy[i] EXCEPT !.state = verdict] \in RowType
      BY <1>2 DEF TableType, RowType, States
    <3> QED
      BY <1>2, <3>1 DEF TableType
  <2> QED
    <3> DEFINE copy == [body[t].copy EXCEPT ![i].state = verdict]
    <3>1. CASE Over(t)
      BY <1>4, <1>7, <1>10, <3>1 DEF Decide, Body
    <3>2. CASE Save(t, copy, {i})
      <4> HIDE DEF copy
      <4>1. copy \in TableType /\ \A j \in {i} : copy[j].state # "posted"
        BY <2>2 DEF copy
      <4>2. body' \in [Callers -> BodyType] /\ \A u \in Callers \ {t} : body'[u] = body[u]
        BY <1>5, <3>2, <4>1
      <4> QED
        BY <1>7, <1>10, <4>2 DEF Decide, Body
    <3> QED
      BY <2>1, <3>1, <3>2
<1>11. CASE Choose(t)
  <2>1. CASE Save(t, body[t].copy, {}) \/ Over(t)
    BY <1>2, <1>4, <1>5, <1>7, <1>11, <2>1 DEF Choose, Body
  <2>2. CASE \E i \in Items : /\ Eligible(body[t].copy[i])
                              /\ body' = [body EXCEPT ![t].at = "chosen", ![t].about = {i}]
    <3>1. PICK i \in Items : /\ body[t].copy[i].tries < MaxAttempts
                             /\ body' = [body EXCEPT ![t] = [body[t] EXCEPT !.at = "chosen",
                                                                            !.about = {i}]]
      BY <1>1, <2>2 DEF Eligible
    <3>2. [body[t] EXCEPT !.at = "chosen", !.about = {i}] \in BodyType
      BY <1>1, <3>1 DEF BodyType, Places
    <3> QED
      BY <1>3, <1>7, <1>11, <3>1, <3>2 DEF Choose, Body
  <2> QED
    BY <1>11, <2>1, <2>2 DEF Choose
<1>12. CASE Tweet(t)
  <2>1. PICK i \in body[t].about, outcome \in {"sent", "duplicate", "error"}, taken \in BOOLEAN :
          /\ sent' = [sent EXCEPT ![i] = IF taken THEN After(@, outcome = "sent") ELSE @]
          /\ Save(t, Marked(body[t].copy, i, outcome), {i})
    BY <1>12 DEF Tweet
  <2>2. /\ i \in Items /\ Marked(body[t].copy, i, outcome) \in TableType
        /\ Marked(body[t].copy, i, outcome)[i].state = "posted"
             => Marked(body[t].copy, i, outcome)[i].tries < MaxAttempts
    <3>1. i \in Items /\ body[t].copy[i].tries < MaxAttempts
      BY <1>1, <1>2, <1>12 DEF Tweet, Body, BodyType
    <3> QED
      BY <1>2, <3>1, MarkTyped
  <2>3. (IF taken THEN After(sent[i], outcome = "sent") ELSE sent[i]) \in Fates
    BY <2>2 DEF After, Fates, RowsTyped
  <2>4. sent' \in [Items -> Fates]
    BY <2>1, <2>3 DEF RowsTyped
  <2> QED
    <3>1. body' \in [Callers -> BodyType] /\ \A u \in Callers \ {t} : body'[u] = body[u]
      BY <1>5, <2>1, <2>2
    <3>2. stage[t] = "held" /\ rows' \in TableType /\ expired' \subseteq Items
      BY <1>12 DEF Tweet, Body, RowsTyped
    <3> QED
      BY <2>4, <3>1, <3>2
<1>13. CASE Replace(t)
  BY <1>2, <1>4, <1>13, TableTyped DEF Replace, Body
<1>14. CASE ReplaceFails(t)
  <2>1. sent' \in [Items -> Fates]
    BY <1>14 DEF ReplaceFails, Lose, RowsTyped, Fates
  <2>2. ASSUME NEW i \in Untold(t)
        PROVE  /\ i \in Items /\ Marked(body[t].copy, i, "error") \in TableType
               /\ Marked(body[t].copy, i, "error")[i].state # "posted"
    <3>1. i \in Items /\ body[t].copy[i].tries < MaxAttempts
      BY <1>1, <1>2 DEF Untold, BodyType
    <3> QED
      BY <1>2, <3>1, MarkOne, MarkTyped
  <2>3. \/ Over(t)
        \/ \E i \in Untold(t) : Save(t, Marked(body[t].copy, i, "error"), {i})
    BY <1>14 DEF ReplaceFails
  <2> QED
    <3>1. body' \in [Callers -> BodyType] /\ \A u \in Callers \ {t} : body'[u] = body[u]
      <4>1. ASSUME NEW i \in Untold(t), Save(t, Marked(body[t].copy, i, "error"), {i})
            PROVE  body' \in [Callers -> BodyType] /\ \A u \in Callers \ {t} : body'[u] = body[u]
        <5>1. \A j \in {i} : Marked(body[t].copy, i, "error")[j].state # "posted"
          BY <2>2
        <5> QED
          BY <1>5, <2>2, <4>1, <5>1
      <4> QED
        BY <1>4, <2>3, <4>1
    <3>2. stage[t] = "held" /\ rows' \in TableType /\ expired' \subseteq Items
      BY <1>14 DEF ReplaceFails, Body, RowsTyped
    <3> QED
      BY <2>1, <3>1, <3>2
<1>15. CASE Select(t)
  <2>1. CASE Over(t)
    BY <1>4, <1>7, <1>15, <2>1 DEF Select, Begins, Body
  <2>2. CASE body' = [body EXCEPT ![t].at = "delete", ![t].about = expired]
    <3>1. body' = [body EXCEPT ![t] = [body[t] EXCEPT !.at = "delete", !.about = expired]]
      BY <1>1, <2>2
    <3>2. [body[t] EXCEPT !.at = "delete", !.about = expired] \in BodyType
      BY <1>1, <1>2 DEF BodyType, Places
    <3> QED
      BY <1>3, <1>7, <1>15, <3>1, <3>2 DEF Select, Begins, Body
  <2> QED
    BY <1>15, <2>1, <2>2 DEF Select
<1>16. CASE Delete(t)
  <2>1. [i \in Items |-> IF i \in body[t].about THEN Gone ELSE rows[i]] \in TableType
    BY <1>1, <1>6 DEF TableType
  <2> QED
    BY <1>4, <1>16, <2>1, TableTyped DEF Delete, Body
<1> QED
  BY <1>8, <1>9, <1>10, <1>11, <1>12, <1>13, <1>14, <1>15, <1>16 DEF BodyStep

LEMMA RowsTypedStep == RowsTyped /\ QueueStateOK /\ [BusNext]_allVars => RowsTyped'
<1> SUFFICES ASSUME RowsTyped, QueueStateOK, [BusNext]_allVars PROVE RowsTyped'
  OBVIOUS
<1>1. CASE LockStep /\ UNCHANGED busVars
  <2>1. \A t \in Callers : stage[t] = "held" => stage'[t] = "held"
    BY <1>1
       DEF LockStep, Approach, Call, Admit, Create, Stat, LookAtOwner, Unlink, Recreate, Poll, GiveUp,
           CreateThrows, Start, BootRead, BootUnlink, Age, TryCreate, Leave, Goto, QueueStateOK
  <2> QED
    BY <1>1, <2>1 DEF RowsTyped, busVars
<1>2. ASSUME NEW t \in Callers, EndBody(t) PROVE RowsTyped'
  <2>1. /\ \A u \in Callers \ {t} : stage'[u] = stage[u]
        /\ body' = [body EXCEPT ![t] = Rest] /\ UNCHANGED <<rows, expired, sent>>
    BY <1>2 DEF EndBody, Release, Leave, Goto, QueueStateOK
  <2> QED
    BY <2>1, RestTyped DEF RowsTyped
<1>3. ASSUME NEW p \in Processes, Die(p) PROVE RowsTyped'
  <2>1. /\ stage' = [t \in Callers |-> IF ProcOf[t] = p THEN "idle" ELSE stage[t]]
        /\ body' = [t \in Callers |-> IF ProcOf[t] = p THEN Rest ELSE body[t]]
        /\ UNCHANGED <<rows, expired>>
    BY <1>3 DEF Die, Crash
  <2>2. sent' \in [Items -> Fates]
    BY <1>3 DEF Die, Lose, RowsTyped, Fates
  <2> QED
    BY <2>1, <2>2, RestTyped DEF RowsTyped
<1>4. ASSUME NEW t \in Callers, BodyStep(t), UNCHANGED queueVars PROVE RowsTyped'
  <2>1. stage' = stage
    BY <1>4 DEF queueVars
  <2> QED
    BY <1>4, <2>1, BodyTyped DEF RowsTyped
<1>5. ASSUME NEW i \in Items, Expire(i), UNCHANGED queueVars PROVE RowsTyped'
  BY <1>5 DEF Expire, RowsTyped, queueVars
<1>6. CASE UNCHANGED allVars
  BY <1>6 DEF allVars, busVars, queueVars, RowsTyped
<1> QED
  BY <1>1, <1>2, <1>3, <1>4, <1>5, <1>6 DEF BusNext, BusStep

-----------------------------------------------------------------------------
(* While one body runs at a time, the private copy of a caller is the table,*)
(* but for what its caller is about and what it has pruned; what a caller   *)
(* posts is eligible in its copy, and what it is about is not posted yet.   *)
Copying == {"decide", "post", "chosen", "replace"}
Faithful(t, i) == body[t].copy[i] = rows[i] \/ (i \in expired /\ body[t].copy[i] = Gone)
CopyTrue(t) ==
  /\ body[t].at \in Copying =>
       \A i \in Items : Faithful(t, i) \/ (body[t].at = "replace" /\ i \in body[t].about)
  /\ body[t].at = "chosen" => \A i \in body[t].about : Eligible(body[t].copy[i])
  /\ body[t].at = "replace" =>
       \A i \in body[t].about : rows[i].state # "posted" /\ body[t].about = {i}

(* A publication is in the table, or in the copy that is about to be saved. *)
Known(i) ==
  sent[i] \in {"once", "twice"} => rows[i].state = "posted" \/ \E t \in Callers : i \in Untold(t)

RowInv == calm => (\A t \in Callers : CopyTrue(t)) /\ (\A i \in Items : Known(i))

LEMMA OwnStep ==
  ASSUME RowsTyped, NEW t \in Callers, BodyStep(t), \A u \in Callers \ {t} : stage[u] # "held",
         CopyTrue(t), \A i \in Items : Known(i)
  PROVE  CopyTrue(t)' /\ \A i \in Items : Known(i)'
<1>1. /\ body[t] \in BodyType /\ body \in [Callers -> BodyType] /\ rows \in TableType
      /\ sent \in [Items -> Fates]
      /\ body[t].copy \in TableType /\ body[t].about \subseteq Items
  BY DEF RowsTyped, BodyType
<1>2. \A u \in Callers \ {t} : Untold(u) = {}
  BY RestTyped DEF RowsTyped, Untold
<1>3. \A i \in Items : sent[i] \in {"once", "twice"} => rows[i].state = "posted" \/ i \in Untold(t)
  BY <1>2 DEF Known
<1>4. body[t].at # "replace" => \A i \in Items : sent[i] \in {"once",
        "twice"} => rows[i].state = "posted"
  BY <1>3 DEF Untold
<1>5. ASSUME Over(t) PROVE CopyTrue(t)'
  <2>1. body'[t].at = "over"
    BY <1>1, <1>5, RestTyped DEF Over, Rest
  <2> QED
    BY <2>1 DEF CopyTrue, Copying
<1>6. ASSUME NEW copy, NEW about, Save(t, copy, about)
      PROVE  body'[t].at = "replace" /\ body'[t].copy = copy /\ body'[t].about = about
  BY <1>1, <1>6 DEF Save
<1>7. ASSUME NEW i \in Items, rows[i].state = "posted" PROVE rows[i] # Gone
  BY <1>7 DEF Gone, Row
<1>8. ASSUME NEW new \in TableType, Table(new),
             \A i \in Items : sent[i] \in {"once", "twice"} => new[i] = Gone \/ new[i].state = "posted"
      PROVE  \A i \in Items : Known(i)'
  BY <1>8 DEF Table, Known
<1>9. ASSUME UNCHANGED <<rows, sent>>, body[t].at # "replace" PROVE \A i \in Items : Known(i)'
  BY <1>4, <1>9 DEF Known
<1>10. Gone \in RowType /\ Row("queued", 0) \in RowType /\ Gone.state = "none"
  BY ItemBusAssumption DEF Gone, Row, RowType, States
<1>11. CASE Insert(t)
  <2>1. PICK i \in Items : Table(IF rows[i] = Gone THEN [rows EXCEPT ![i] = Row("queued", 0)] ELSE rows)
    BY <1>11 DEF Insert
  <2> DEFINE new == IF rows[i] = Gone THEN [rows EXCEPT ![i] = Row("queued", 0)] ELSE rows
  <2>2. new \in TableType /\ \A j \in Items : rows[j] = Gone \/ new[j] = rows[j]
    BY <1>1, <1>10 DEF TableType
  <2>3. Table(new) /\ body[t].at = "begin" /\ Over(t)
    BY <1>11, <2>1 DEF Insert, Begins, Body
  <2> HIDE DEF new
  <2>4. \A j \in Items : sent[j] \in {"once", "twice"} => new[j] = Gone \/ new[j].state = "posted"
    BY <1>4, <1>7, <2>2, <2>3
  <2> QED
    BY <1>5, <1>8, <2>2, <2>3, <2>4
<1>12. CASE Load(t)
  <2>1. PICK op \in {"decide", "post"} :
          /\ Begins(t, op)
          /\ body' = [body EXCEPT ![t].at = op,
               ![t].copy = [i \in Items |-> IF op = "post" /\ i \in expired THEN Gone ELSE rows[i]]]
    BY <1>12 DEF Load
  <2> DEFINE copy == [i \in Items |-> IF op = "post" /\ i \in expired THEN Gone ELSE rows[i]]
  <2>2. \A i \in Items : copy[i] = rows[i] \/ (i \in expired /\ copy[i] = Gone)
    OBVIOUS
  <2>3. body' = [body EXCEPT ![t] = [body[t] EXCEPT !.at = op, !.copy = copy]]
    BY <1>1, <2>1
  <2> HIDE DEF copy
  <2>4. body'[t].at = op /\ body'[t].copy = copy
    BY <1>1, <2>3 DEF BodyType
  <2>5. UNCHANGED <<rows, expired, sent>> /\ body[t].at = "begin"
    BY <1>12, <2>1 DEF Load, Begins, Body
  <2> QED
    BY <1>9, <2>2, <2>4, <2>5 DEF CopyTrue, Faithful
<1>13. CASE Decide(t)
  <2>1. PICK i \in Items, verdict \in {"approved", "rejected"} :
          \/ /\ body[t].copy[i].state \in IF verdict = "approved" THEN Approvable ELSE Rejectable
             /\ Save(t, [body[t].copy EXCEPT ![i].state = verdict], {i})
          \/ Over(t)
    BY <1>13 DEF Decide
  <2>2. UNCHANGED <<rows, expired, sent>> /\ body[t].at = "decide"
    BY <1>13 DEF Decide, Body
  <2>3. CASE Over(t)
    BY <1>5, <1>9, <2>2, <2>3
  <2>4. CASE /\ body[t].copy[i].state \in IF verdict = "approved" THEN Approvable ELSE Rejectable
             /\ Save(t, [body[t].copy EXCEPT ![i].state = verdict], {i})
    <3>1. body[t].copy[i].state \notin {"none", "posted"}
      BY <2>4 DEF Approvable, Rejectable
    <3>2. rows[i].state # "posted"
      BY <1>10, <2>2, <3>1 DEF CopyTrue, Copying, Faithful
    <3>3. \A j \in Items \ {i} : [body[t].copy EXCEPT ![i].state = verdict][j] = body[t].copy[j]
      BY <1>1 DEF TableType
    <3>4. /\ body'[t].at = "replace" /\ body'[t].about = {i}
          /\ \A j \in Items \ {i} : body'[t].copy[j] = body[t].copy[j]
      BY <1>6, <2>4, <3>3
    <3>5. CopyTrue(t)'
      BY <2>2, <3>2, <3>4 DEF CopyTrue, Copying, Faithful
    <3> QED
      BY <1>9, <2>2, <3>5
  <2> QED
    BY <2>1, <2>3, <2>4
<1>14. CASE Choose(t)
  <2>1. UNCHANGED <<rows, expired, sent>> /\ body[t].at = "post"
    BY <1>14 DEF Choose, Body
  <2>2. CASE Over(t)
    BY <1>5, <1>9, <2>1, <2>2
  <2>3. CASE Save(t, body[t].copy, {})
    <3>1. body'[t].at = "replace" /\ body'[t].copy = body[t].copy /\ body'[t].about = {}
      BY <1>6, <2>3
    <3> QED
      BY <1>9, <2>1, <3>1 DEF CopyTrue, Copying, Faithful
  <2>4. CASE \E i \in {j \in Items : Eligible(body[t].copy[j])} :
               body' = [body EXCEPT ![t].at = "chosen", ![t].about = {i}]
    <3>1. PICK i \in Items : /\ Eligible(body[t].copy[i])
                             /\ body' = [body EXCEPT ![t] = [body[t] EXCEPT !.at = "chosen",
                                  !.about = {i}]]
      BY <1>1, <2>4
    <3>2. body'[t].at = "chosen" /\ body'[t].copy = body[t].copy /\ body'[t].about = {i}
      BY <1>1, <3>1 DEF BodyType
    <3> QED
      BY <1>9, <2>1, <3>1, <3>2 DEF CopyTrue, Copying, Faithful, Eligible
  <2> QED
    BY <1>14, <2>2, <2>3, <2>4 DEF Choose
<1>15. CASE Tweet(t)
  <2>1. PICK i \in body[t].about, outcome \in {"sent", "duplicate", "error"}, taken \in BOOLEAN :
          /\ sent' = [sent EXCEPT ![i] = IF taken THEN After(@, outcome = "sent") ELSE @]
          /\ Save(t, Marked(body[t].copy, i, outcome), {i})
    BY <1>15 DEF Tweet
  <2>2. UNCHANGED <<rows, expired>> /\ body[t].at = "chosen" /\ i \in Items
    BY <1>1, <1>15 DEF Tweet, Body
  <2>3. Eligible(body[t].copy[i]) /\ Faithful(t, i)
    BY <2>2 DEF CopyTrue, Copying
  <2>4. rows[i].state # "posted" /\ sent[i] \notin {"once", "twice"}
    BY <1>4, <1>10, <2>2, <2>3 DEF Eligible, Faithful
  <2>5. /\ body'[t].at = "replace" /\ body'[t].about = {i}
        /\ body'[t].copy = Marked(body[t].copy, i, outcome)
    BY <1>6, <2>1
  <2>6. /\ \A j \in Items \ {i} : body'[t].copy[j] = body[t].copy[j]
        /\ body'[t].copy[i].state = "posted" <=> outcome = "sent"
    <3>1. /\ \A j \in Items \ {i} : Marked(body[t].copy, i, outcome)[j] = body[t].copy[j]
          /\ Marked(body[t].copy, i, outcome)[i].state = "posted" <=> outcome = "sent"
      <4> DEFINE copy == body[t].copy
      <4>1. copy \in TableType
        BY <1>1
      <4> HIDE DEF copy
      <4>2. /\ \A j \in Items \ {i} : Marked(copy, i, outcome)[j] = copy[j]
            /\ Marked(copy, i, outcome)[i].state = "posted" <=> outcome = "sent"
        BY <2>2, <4>1, MarkOne
      <4> QED
        BY <4>2 DEF copy
    <3> QED
      BY <2>5, <3>1, Zenon
  <2>7. CopyTrue(t)'
    BY <2>2, <2>4, <2>5, <2>6 DEF CopyTrue, Copying, Faithful
  <2>8. \A j \in Items \ {i} : sent'[j] = sent[j]
    BY <1>1, <2>1
  <2>9. sent'[i] \in {"once", "twice"} => outcome = "sent"
    BY <1>1, <2>1, <2>2, <2>4 DEF After
  <2>10. outcome = "sent" => i \in Untold(t)'
    BY <2>5, <2>6 DEF Untold
  <2> QED
    BY <1>4, <2>2, <2>7, <2>8, <2>9, <2>10 DEF Known
<1>16. CASE Replace(t)
  <2>1. Table(body[t].copy) /\ Over(t) /\ body[t].at = "replace"
    BY <1>16 DEF Replace, Body
  <2>2. ASSUME NEW i \in Items, sent[i] \in {"once", "twice"}
        PROVE  body[t].copy[i] = Gone \/ body[t].copy[i].state = "posted"
    <3>1. CASE rows[i].state = "posted"
      BY <2>1, <3>1 DEF CopyTrue, Copying, Faithful
    <3>2. CASE i \in Untold(t)
      BY <3>2 DEF Untold
    <3> QED
      BY <1>3, <2>2, <3>1, <3>2
  <2> QED
    BY <1>1, <1>5, <1>8, <2>1, <2>2
<1>17. CASE ReplaceFails(t)
  <2>1. /\ UNCHANGED <<rows, expired>> /\ body[t].at = "replace"
        /\ sent' = [i \in Items |-> IF i \in Untold(t) THEN "lost" ELSE sent[i]]
    BY <1>17 DEF ReplaceFails, Body, Lose
  <2>2. \A i \in Items : Known(i)'
    BY <1>3, <2>1 DEF Known
  <2>3. CASE Over(t)
    BY <1>5, <2>2, <2>3
  <2>4. CASE \E i \in Untold(t) : Save(t, Marked(body[t].copy, i, "error"), {i})
    <3>1. PICK i \in Untold(t) : Save(t, Marked(body[t].copy, i, "error"), {i})
      BY <2>4
    <3>2. i \in Items /\ rows[i].state # "posted" /\ body[t].about = {i}
      BY <1>1, <2>1 DEF Untold, CopyTrue
    <3>3. /\ body'[t].at = "replace" /\ body'[t].about = {i}
          /\ body'[t].copy = Marked(body[t].copy, i, "error")
      BY <1>6, <3>1
    <3>4. \A j \in Items \ {i} : body'[t].copy[j] = body[t].copy[j]
      <4> DEFINE copy == body[t].copy
      <4>1. copy \in TableType
        BY <1>1
      <4> HIDE DEF copy
      <4>2. \A j \in Items \ {i} : Marked(copy, i, "error")[j] = copy[j]
        BY <3>2, <4>1, MarkOne
      <4>3. body'[t].copy = Marked(copy, i, "error")
        BY <3>3 DEF copy
      <4> QED
        BY <4>2, <4>3, Zenon DEF copy
    <3>5. CopyTrue(t)'
      BY <2>1, <3>2, <3>3, <3>4 DEF CopyTrue, Copying, Faithful
    <3> QED
      BY <2>2, <3>5
  <2> QED
    BY <1>17, <2>3, <2>4 DEF ReplaceFails
<1>18. CASE Select(t)
  <2>1. UNCHANGED <<rows, sent>> /\ body[t].at = "begin"
    BY <1>18 DEF Select, Begins, Body
  <2>2. CASE Over(t)
    BY <1>5, <1>9, <2>1, <2>2
  <2>3. CASE body' = [body EXCEPT ![t].at = "delete", ![t].about = expired]
    <3>1. body'[t].at = "delete"
      BY <1>1, <2>3 DEF BodyType
    <3> QED
      BY <1>9, <2>1, <3>1 DEF CopyTrue, Copying
  <2> QED
    BY <1>18, <2>2, <2>3 DEF Select
<1>19. CASE Delete(t)
  <2> DEFINE new == [i \in Items |-> IF i \in body[t].about THEN Gone ELSE rows[i]]
  <2>1. Table(new) /\ Over(t) /\ body[t].at = "delete"
    BY <1>19 DEF Delete, Body
  <2>2. new \in TableType /\ \A i \in Items : new[i] = Gone \/ new[i] = rows[i]
    BY <1>1, <1>10 DEF TableType
  <2> HIDE DEF new
  <2> QED
    BY <1>4, <1>5, <1>8, <2>1, <2>2
<1> QED
  BY <1>11, <1>12, <1>13, <1>14, <1>15, <1>16, <1>17, <1>18, <1>19 DEF BodyStep

(* A caller that runs its body without anybody beside it.                   *)
LEMMA Solo ==
  ASSUME RowsTyped, Exclusive, calm, NEW t \in Callers, BodyStep(t)
  PROVE  \A u \in Callers \ {t} : stage[u] # "held" /\ body[u] = Rest
BY BodyTyped DEF Exclusive, RowsTyped

LEMMA RowStep ==
  ASSUME RowsTyped, QueueStateOK, Exclusive, RowInv, [BusNext]_allVars
  PROVE  RowInv'
<1> SUFFICES ASSUME calm' PROVE (\A t \in Callers : CopyTrue(t)') /\ (\A i \in Items : Known(i)')
  BY DEF RowInv
<1>1. calm
  BY DEF BusNext, allVars
<1>2. (\A t \in Callers : CopyTrue(t)) /\ (\A i \in Items : Known(i))
  BY <1>1 DEF RowInv
<1>3. CASE UNCHANGED busVars
  BY <1>2, <1>3 DEF busVars, CopyTrue, Faithful, Known, Untold
<1>4. ASSUME NEW t \in Callers, EndBody(t)
      PROVE  (\A u \in Callers : CopyTrue(u)') /\ (\A i \in Items : Known(i)')
  <2>1. /\ body' = [body EXCEPT ![t] = Rest] /\ body[t].at = "over" /\ UNCHANGED <<rows, expired, sent>>
        /\ body \in [Callers -> BodyType]
    BY <1>4 DEF EndBody, RowsTyped
  <2>2. body'[t].at = "begin" /\ \A u \in Callers \ {t} : body'[u] = body[u]
    BY <2>1, RestTyped
  <2>3. \A u \in Callers : CopyTrue(u)'
    BY <1>2, <2>1, <2>2 DEF CopyTrue, Copying, Faithful
  <2>4. \A u \in Callers : Untold(u)' = Untold(u)
    BY <2>1, <2>2 DEF Untold
  <2> QED
    BY <1>2, <2>1, <2>3, <2>4 DEF Known
<1>5. ASSUME NEW p \in Processes, Die(p)
      PROVE  (\A u \in Callers : CopyTrue(u)') /\ (\A i \in Items : Known(i)')
  <2>1. /\ body' = [t \in Callers |-> IF ProcOf[t] = p THEN Rest ELSE body[t]]
             /\ UNCHANGED <<rows, expired>>
        /\ Lose(UNION {Untold(t) : t \in {u \in Callers : ProcOf[u] = p}})
    BY <1>5 DEF Die
  <2>2. \A u \in Callers : body'[u] = body[u] \/ body'[u].at = "begin"
    BY <2>1, RestTyped
  <2>3. \A u \in Callers : CopyTrue(u)'
    BY <1>2, <2>1, <2>2 DEF CopyTrue, Copying, Faithful
  <2>4. ASSUME NEW i \in Items, sent'[i] \in {"once", "twice"} PROVE Known(i)'
    <3>1. sent'[i] = sent[i] /\ \A t \in Callers : ProcOf[t] = p => i \notin Untold(t)
      BY <2>1, <2>4 DEF Lose
    <3>2. \A t \in Callers : ProcOf[t] # p => Untold(t)' = Untold(t)
      BY <2>1 DEF Untold
    <3> QED
      BY <1>2, <2>1, <2>4, <3>1, <3>2 DEF Known
  <2> QED
    BY <2>3, <2>4 DEF Known
<1>6. ASSUME NEW t \in Callers, BodyStep(t)
      PROVE  (\A u \in Callers : CopyTrue(u)') /\ (\A i \in Items : Known(i)')
  <2>1. \A u \in Callers \ {t} : stage[u] # "held" /\ body[u] = Rest /\ body'[u] = body[u]
    BY <1>1, <1>6, Solo, BodyTyped
  <2>2. CopyTrue(t)' /\ \A i \in Items : Known(i)'
    BY <1>2, <1>6, <2>1, OwnStep
  <2>3. \A u \in Callers \ {t} : CopyTrue(u)'
    BY <2>1, RestTyped DEF CopyTrue, Copying
  <2> QED
    BY <2>2, <2>3
<1>7. ASSUME NEW i \in Items, Expire(i)
      PROVE  (\A u \in Callers : CopyTrue(u)') /\ (\A j \in Items : Known(j)')
  BY <1>2, <1>7 DEF Expire, CopyTrue, Faithful, Known, Untold
<1> QED
  BY <1>3, <1>4, <1>5, <1>6, <1>7 DEF BusNext, BusStep, allVars

RowsInv == RowsTyped /\ RowInv

LEMMA RowsInit == BusInit => RowsInv
<1> SUFFICES ASSUME BusInit PROVE RowsInv
  OBVIOUS
<1>1. /\ rows \in TableType /\ sent \in [Items -> Fates] /\ expired = {}
      /\ \A i \in Items : sent[i] = "never"
  BY ItemBusAssumption DEF BusInit, TableType, RowType, Row, Gone, States, Fates
<1>2. body = [t \in Callers |-> Rest]
  BY DEF BusInit
<1>3. RowsTyped
  BY <1>1, <1>2, RestTyped DEF RowsTyped
<1>4. RowInv
  BY <1>1, <1>2, RestTyped DEF RowInv, CopyTrue, Copying, Known
<1> QED
  BY <1>3, <1>4 DEF RowsInv

(* Types, however many have the lock at once.  The failed attempts of an    *)
(* item are MaxAttempts at the most.                                        *)
THEOREM BusTypeCorrect == BusSpec => []BusTypeOK
<1>1. RowsTyped /\ QueueTypeOK => BusTypeOK
  BY DEF RowsTyped, BusTypeOK, BodyType, TableType, RowType, Places, Fates
<1>2. BusInit => RowsTyped
  BY RowsInit DEF RowsInv
<1>3. ChainInv => QueueStateOK
  BY DEF ChainInv
<1> QED
  BY <1>1, <1>2, <1>3, RowsTypedStep, RowsAreBehindTheLock, ChainInvariant, QueueTypeCorrect, PTL
     DEF BusSpec

LEMMA RowsInvariant == BusSpec /\ []Exclusive => [](RowsInv /\ QueueStateOK /\ Exclusive)
<1>1. RowsInv /\ QueueStateOK /\ Exclusive /\ [BusNext]_allVars => RowsInv'
  BY RowsTypedStep, RowStep DEF RowsInv
<1>2. ChainInv => QueueStateOK
  BY DEF ChainInv
<1> QED
  BY <1>1, <1>2, RowsInit, RowsAreBehindTheLock, ChainInvariant, PTL DEF BusSpec

(* What is saved over the whole table undoes nobody else's change, as long  *)
(* as one caller at a time has the lock: the copy was taken under it, and   *)
(* nothing moves a row meanwhile but time.                                  *)
THEOREM NoUpdateIsLost == BusSpec /\ []Exclusive => NoLostUpdate
<1> DEFINE Undone ==
      calm' /\ rows' # rows =>
        \A t \in Callers : body[t].at = "replace" /\ body'[t].at = "over" =>
          \A i \in Items \ body[t].about :
            rows'[i] = rows[i] \/ (i \in expired /\ rows'[i] = Gone)
<1>1. ASSUME RowsInv, Exclusive, [BusNext]_allVars PROVE Undone
  <2> SUFFICES ASSUME calm', rows' # rows, NEW t \in Callers,
                      body[t].at = "replace", body'[t].at = "over", NEW i \in Items \ body[t].about
               PROVE  rows'[i] = rows[i] \/ (i \in expired /\ rows'[i] = Gone)
    OBVIOUS
  <2>1. BusNext /\ calm
    BY <1>1 DEF allVars, busVars, BusNext
  <2>2. PICK u \in Callers : BodyStep(u)
    BY <2>1 DEF BusNext, BusStep, busVars, EndBody, Die, Expire
  <2>3. u = t
    BY <1>1, <2>1, <2>2, BodyTyped DEF RowsInv
  <2>4. rows' = body[t].copy
    BY <2>2, <2>3
       DEF BodyStep, Insert, Load, Decide, Choose, Tweet, Replace, ReplaceFails, Select, Delete,
             Begins, Body,
           Table
  <2>5. Faithful(t, i)
    BY <1>1, <2>1 DEF RowsInv, RowInv, CopyTrue, Copying
  <2> QED
    BY <2>4, <2>5 DEF Faithful
<1> HIDE DEF Undone
<1>2. RowsInv /\ QueueStateOK /\ Exclusive /\ [BusNext]_allVars => [Undone]_allVars
  BY <1>1
<1>3. BusSpec /\ []Exclusive => [][Undone]_allVars
  BY <1>2, RowsInvariant, PTL DEF BusSpec
<1> QED
  BY <1>3 DEF NoLostUpdate, Undone

(* What goes to X is due in the table at that moment, and was not published *)
(* before, as long as one caller at a time has the lock.                    *)
THEOREM PostsGoOutDue == BusSpec /\ []Exclusive => PostsAreDue
<1> DEFINE Due ==
      calm' => \A t \in Callers : body[t].at = "chosen" /\ body'[t].at = "replace" =>
        \A i \in body[t].about : Eligible(rows[i]) /\ sent'[i] # "twice"
<1>1. ASSUME RowsInv, Exclusive, [BusNext]_allVars PROVE Due
  <2> SUFFICES ASSUME calm', NEW t \in Callers,
                      body[t].at = "chosen", body'[t].at = "replace", NEW i \in body[t].about
               PROVE  Eligible(rows[i]) /\ sent'[i] # "twice"
    OBVIOUS
  <2>1. BusNext /\ calm
    BY <1>1 DEF allVars, busVars, BusNext
  <2>2. /\ body \in [Callers -> BodyType] /\ i \in Items /\ sent \in [Items -> Fates]
        /\ CopyTrue(t) /\ Known(i)
    BY <1>1, <2>1 DEF RowsInv, RowsTyped, RowInv, BodyType
  <2>3. PICK u \in Callers : BodyStep(u)
    <3>1. body' # body /\ ~\E p \in Processes : Die(p)
      BY <2>2, RestTyped DEF Die
    <3>2. ~\E v \in Callers : EndBody(v)
      BY <2>2, RestTyped DEF EndBody
    <3> QED
      BY <2>1, <3>1, <3>2 DEF BusNext, BusStep, busVars, Expire
  <2>4. u = t
    BY <1>1, <2>3, BodyTyped DEF RowsInv
  <2>5. Eligible(body[t].copy[i]) /\ Faithful(t, i)
    BY <2>2 DEF CopyTrue, Copying
  <2>6. Eligible(rows[i]) /\ rows[i].state # "posted"
    BY <2>5 DEF Eligible, Faithful, Gone, Row
  <2>7. \A v \in Callers : i \notin Untold(v)
    <3>1. \A v \in Callers \ {t} : body[v] = Rest
      BY <1>1, <2>1, <2>3, <2>4, Solo DEF RowsInv
    <3> QED
      BY <3>1, RestTyped DEF Untold
  <2>8. sent[i] \notin {"once", "twice"}
    BY <2>2, <2>6, <2>7 DEF Known
  <2>9. Tweet(t)
    BY <2>2, <2>3, <2>4, RestTyped
       DEF BodyStep, Insert, Load, Decide, Choose, Replace, ReplaceFails, Select, Delete, Begins, Body
  <2>10. PICK j \in body[t].about, told \in BOOLEAN :
           sent' = [sent EXCEPT ![j] = After(@, told)] \/ sent' = sent
    BY <2>2, <2>9 DEF Tweet
  <2>11. sent'[i] # "twice"
    BY <2>2, <2>8, <2>10 DEF After
  <2> QED
    BY <2>6, <2>11
<1> HIDE DEF Due
<1>2. RowsInv /\ QueueStateOK /\ Exclusive /\ [BusNext]_allVars => [Due]_allVars
  BY <1>1
<1>3. BusSpec /\ []Exclusive => [][Due]_allVars
  BY <1>2, RowsInvariant, PTL DEF BusSpec
<1> QED
  BY <1>3 DEF PostsAreDue, Due

(* So for any number of processes of which none is killed, and for backends *)
(* that follow each other beside one task, whoever is.                      *)
THEOREM RowsAreSafe == ASSUME OneBreaker PROVE BusSpec => NoLostUpdate /\ PostsAreDue
BY RowsAreBehindTheLock, OneBodyAtATime, NoUpdateIsLost, PostsGoOutDue, PTL
=============================================================================
