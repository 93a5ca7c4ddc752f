---------------------------- MODULE RuntimeProofs ----------------------------
(***************************************************************************)
(* One backend on a database file, for any number of processes and         *)
(* restores (RuntimeLock), and one local runtime, whose model a run has to *)
(* itself and whose pinned model comes back (LocalRuntime).                *)
(***************************************************************************)
EXTENDS RuntimeLock, LocalRuntime, TLAPS

-----------------------------------------------------------------------------
(*                             The runtime lock                            *)

(* Who was found dead stays away until its row is removed.                  *)
SeenOther ==
  \A p \in Pids : state[p] \in {"check", "delete"} => seen[p] \in Pids

SeenDead ==
  \A p \in Pids : state[p] = "delete" => state[seen[p]] \in {"absent", "foreign"}

LockInv == LockTypeOK /\ OwnerHasRow /\ SeenOther /\ SeenDead

LEMMA LockInitInv == LockInit => LockInv
BY NoPidAssumption, MaxRestoresAssumption, SMT
   DEF LockInit, LockInv, LockTypeOK, OwnerHasRow, SeenOther, SeenDead, States, Files, RowOf

(* The file a process has open is one of those there have been.             *)
LEMMA OpenFile ==
  ASSUME LockTypeOK, NEW p \in Pids
  PROVE  file[p] \in Files /\ RowOf(p) \in Pids \union {NoPid}
<1>1. file[p] \in 0..current /\ current \in 0..MaxRestores
  BY DEF LockTypeOK, Files
<1>2. file[p] \in Files
  BY <1>1, MaxRestoresAssumption, SMT DEF Files
<1> QED BY <1>2 DEF LockTypeOK, RowOf

(* Types.  A file is opened at config.appDbPath, so none is newer.          *)
LEMMA LockTypeStep == LockTypeOK /\ [LockNext]_lockVars => LockTypeOK'
<1> SUFFICES ASSUME LockTypeOK, [LockNext]_lockVars PROVE LockTypeOK'
  OBVIOUS
<1> USE MaxRestoresAssumption DEF LockTypeOK, Goto, Forget
<1>1. CASE UNCHANGED lockVars
  BY <1>1 DEF lockVars
<1>2. ASSUME NEW p \in Pids, Start(p) \/ Exit(p) \/ Reuse(p) PROVE LockTypeOK'
  <2>1. 0 \in 0..current
    BY SMT DEF Files
  <2> QED BY <1>2, <2>1 DEF Start, Exit, Reuse, States
<1>3. ASSUME NEW p \in Pids, RequestRestore(p) PROVE LockTypeOK'
  BY <1>3 DEF RequestRestore
<1>4. ASSUME NEW p \in Pids, BeginStart(p) PROVE LockTypeOK'
  <2>1. current' \in Files /\ current' >= current
    BY <1>4, SMT DEF BeginStart, Files
  <2>2. file' \in [Pids -> 0..current']
    BY <1>4, <2>1, SMT DEF BeginStart, OpenDb, Files
  <2>3. row' \in [Files -> Pids \union {NoPid}]
    BY <1>4, <2>1 DEF BeginStart
  <2> QED BY <1>4, <2>1, <2>2, <2>3 DEF BeginStart, States
<1>5. ASSUME NEW p \in Pids, NEW r \in Pids \union {NoPid}, SetRow(p, r)
      PROVE  row' \in [Files -> Pids \union {NoPid}]
  BY <1>5, OpenFile DEF SetRow
<1>6. ASSUME NEW p \in Pids, TryInsert(p) \/ InsertAgain(p) PROVE LockTypeOK'
  <2>1. row' \in [Files -> Pids \union {NoPid}]
    BY <1>5, <1>6 DEF TryInsert, InsertAgain, Insert
  <2> QED BY <1>6, <2>1 DEF TryInsert, InsertAgain, Insert, States
<1>7. ASSUME NEW p \in Pids, Select(p) \/ CheckOwner(p) PROVE LockTypeOK'
  BY <1>7, OpenFile DEF Select, CheckOwner, States
<1>8. ASSUME NEW p \in Pids, DeleteStale(p) \/ Release(p) PROVE LockTypeOK'
  <2>1. row' \in [Files -> Pids \union {NoPid}]
    BY <1>5, <1>8 DEF DeleteStale, Release
  <2> QED BY <1>8, <2>1 DEF DeleteStale, Release, States
<1> QED
  BY <1>1, <1>2, <1>3, <1>4, <1>6, <1>7, <1>8 DEF LockNext, Acquire

(* What a process has seen, and that the dead stay dead.                    *)
LEMMA SeenStep == LockInv /\ [LockNext]_lockVars => SeenOther' /\ SeenDead'
<1> SUFFICES ASSUME LockInv, [LockNext]_lockVars PROVE SeenOther' /\ SeenDead'
  OBVIOUS
<1> USE NoPidAssumption DEF LockInv, LockTypeOK, SeenOther, SeenDead, States, Forget
<1>1. CASE UNCHANGED lockVars
  BY <1>1, SMT DEF lockVars
<1>2. ASSUME NEW p \in Pids, Start(p) PROVE SeenOther' /\ SeenDead'
  BY <1>2, SMT DEF Start, NotJustChecked, Goto
<1>3. ASSUME NEW p \in Pids, Select(p) PROVE SeenOther' /\ SeenDead'
  <2>1. RowOf(p) \in Pids \union {NoPid}
    BY OpenFile
  <2> QED BY <1>3, <2>1, SMT DEF Select, Goto
<1>4. ASSUME NEW p \in Pids, CheckOwner(p) PROVE SeenOther' /\ SeenDead'
  BY <1>4, SMT DEF CheckOwner, Alive, Goto
<1>5. ASSUME NEW p \in Pids, BeginStart(p) \/ RequestRestore(p) \/ Exit(p) \/ Reuse(p)
      PROVE  SeenOther' /\ SeenDead'
  BY <1>5, SMT DEF BeginStart, RequestRestore, Exit, Reuse, Goto
<1>6. ASSUME NEW p \in Pids, TryInsert(p) \/ InsertAgain(p) \/ DeleteStale(p) \/ Release(p)
      PROVE  SeenOther' /\ SeenDead'
  BY <1>6, SMT DEF TryInsert, InsertAgain, Insert, DeleteStale, Release, Goto
<1> QED
  BY <1>1, <1>2, <1>3, <1>4, <1>5, <1>6 DEF LockNext, Acquire

(* Who is about to remove a row found no owner behind it.                   *)
LEMMA SeenNoOwner ==
  ASSUME SeenDead, NEW p \in Pids, state[p] = "delete"
  PROVE  state[seen[p]] # "owner"
BY DEF SeenDead

(* A row is removed by its owner or after its owner died, and a restore     *)
(* writes a file that nobody has open.                                      *)
LEMMA OwnerStep == LockInv /\ [LockNext]_lockVars => OwnerHasRow'
<1> SUFFICES ASSUME LockInv, [LockNext]_lockVars PROVE OwnerHasRow'
  OBVIOUS
<1> USE NoPidAssumption, MaxRestoresAssumption
    DEF LockInv, LockTypeOK, OwnerHasRow, States, Files, RowOf
<1>1. CASE UNCHANGED lockVars
  BY <1>1, SMT DEF lockVars
<1>2. ASSUME NEW p \in Pids, Start(p) \/ RequestRestore(p) \/ Exit(p) \/ Reuse(p)
      PROVE  OwnerHasRow'
  BY <1>2, SMT DEF Start, RequestRestore, Exit, Reuse, Goto
<1>3. ASSUME NEW p \in Pids, BeginStart(p) PROVE OwnerHasRow'
  <2> SUFFICES ASSUME NEW q \in Pids, state'[q] = "owner" PROVE row'[file'[q]] = q
    OBVIOUS
  <2>1. q # p /\ state[q] = "owner" /\ file'[q] = file[q] /\ row[file[q]] = q
    BY <1>3, SMT DEF BeginStart, Goto, OpenDb
  <2>2. file[q] \in 0..current /\ file[q] # current + 1
    BY SMT
  <2> QED BY <1>3, <2>1, <2>2, SMT DEF BeginStart
<1>4. ASSUME NEW p \in Pids, TryInsert(p) \/ InsertAgain(p) PROVE OwnerHasRow'
  BY <1>4, SMT DEF TryInsert, InsertAgain, Insert, SetRow, Goto
<1>5. ASSUME NEW p \in Pids, Select(p) \/ CheckOwner(p) PROVE OwnerHasRow'
  BY <1>5, SMT DEF Select, CheckOwner, Goto
<1>6. ASSUME NEW p \in Pids, DeleteStale(p) PROVE OwnerHasRow'
  <2>1. state[seen[p]] # "owner"
    BY <1>6, SeenNoOwner DEF DeleteStale
  <2> QED BY <1>6, <2>1, SMT DEF DeleteStale, SetRow, Goto
<1>7. ASSUME NEW p \in Pids, Release(p) PROVE OwnerHasRow'
  BY <1>7, SMT DEF Release, SetRow, Goto
<1> QED
  BY <1>1, <1>2, <1>3, <1>4, <1>5, <1>6, <1>7 DEF LockNext, Acquire

(* The inductive invariant of the runtime lock.                             *)
THEOREM LockInvariant == LockSpec => []LockInv
<1>1. LockInv /\ [LockNext]_lockVars => LockInv'
  BY LockTypeStep, SeenStep, OwnerStep DEF LockInv
<1> QED
  BY LockInitInv, <1>1, PTL DEF LockSpec

(* Types of the runtime lock's state; a restore is applied only once.       *)
THEOREM LockTypeCorrect == LockSpec => []LockTypeOK
BY LockInvariant, PTL DEF LockInv

(* The row of a backend that runs stays its own, whatever was restored ...  *)
THEOREM OwnerHasRowCorrect == LockSpec => []OwnerHasRow
BY LockInvariant, PTL DEF LockInv

(* ... so that at most one backend runs on a database file ...              *)
THEOREM OneOwnerPerFileCorrect == LockSpec => []OneOwnerPerFile
<1>1. LockInv => OneOwnerPerFile
  BY SMT DEF LockInv, OwnerHasRow, RowOf, OneOwnerPerFile
<1> QED BY LockInvariant, <1>1, PTL

(* ... and, without restores, on the data directory.                        *)
THEOREM OneOwnerCorrect ==
  ASSUME MaxRestores = 0
  PROVE  LockSpec => []OneOwner
<1>1. LockInv => OneOwner
  BY SMT DEF LockInv, LockTypeOK, OwnerHasRow, RowOf, OneOwner, Files
<1> QED BY LockInvariant, <1>1, PTL

-----------------------------------------------------------------------------
(*                            The local runtime                            *)

Among(s, c) == \E i \in 1..Len(s) : s[i] = c

LEMMA AmongAppend ==
  ASSUME NEW S, NEW s \in Seq(S), NEW e \in S
  PROVE  /\ Append(s, e) \in Seq(S) /\ Append(s, e) # <<>>
         /\ Among(Append(s, e), e)
         /\ \A c : Among(s, c) => Among(Append(s, e), c)
<1>1. Among(Append(s, e), e)
  <2>1. Append(s, e)[Len(s) + 1] = e /\ Len(Append(s, e)) = Len(s) + 1
    OBVIOUS
  <2> QED
    BY <2>1 DEF Among
<1>2. ASSUME NEW c, Among(s, c) PROVE Among(Append(s, e), c)
  <2>1. PICK i \in 1..Len(s) : s[i] = c
    BY <1>2 DEF Among
  <2>2. Append(s, e)[i] = c /\ i \in 1..Len(Append(s, e))
    BY <2>1
  <2> QED
    BY <2>2 DEF Among
<1>3. Append(s, e) \in Seq(S) /\ Append(s, e) # <<>>
  <2>1. Append(s, e) \in Seq(S) /\ Len(Append(s, e)) = Len(s) + 1 /\ Len(s) \in Nat
    OBVIOUS
  <2>2. Len(<<>>) = 0
    OBVIOUS
  <2> QED
    BY <2>1, <2>2
<1> QED
  BY <1>1, <1>2, <1>3, Zenon

LEMMA AmongTail ==
  ASSUME NEW S, NEW s \in Seq(S), s # <<>>
  PROVE  /\ Tail(s) \in Seq(S)
         /\ \A c : Among(s, c) /\ c # Head(s) => Among(Tail(s), c)
<1>1. ASSUME NEW c, Among(s, c), c # Head(s) PROVE Among(Tail(s), c)
  <2>1. PICK i \in 1..Len(s) : s[i] = c
    BY <1>1 DEF Among
  <2>2. i # 1
    BY <1>1, <2>1
  <2>3. i - 1 \in 1..Len(Tail(s)) /\ Tail(s)[i - 1] = c
    BY <2>1, <2>2
  <2> QED
    BY <2>3 DEF Among
<1> QED
  BY <1>1

(* A call that is past the chain has the turn, and one that waits is in it. *)
Waits(c) == at[c] \in {"idle", "queued", "store"}

Places == {"idle", "queued", "start", "list", "unloadAll", "load", "run", "finally",
           "restore", "stop", "store"}

TurnInv ==
  /\ turns \in Seq(Calls)
  /\ at \in [Calls -> Places]
  /\ tries \in [ModelRuns -> Nat]
  /\ \A c \in Calls : at[c] = "queued" => Among(turns, c)
  /\ \A c \in Calls : ~Waits(c) => turns # <<>> /\ c = Head(turns)

(* The turn goes from the call at the head back to nobody, or to the end of *)
(* the chain.                                                               *)
LEMMA TurnOver ==
  ASSUME TurnInv, NEW c \in Calls, ~Waits(c),
         NEW s \in {"idle", "store"},
         turns' = Tail(turns), at' = [at EXCEPT ![c] = s],
         tries' = tries
  PROVE  TurnInv'
<1>1. turns # <<>> /\ c = Head(turns)
  BY DEF TurnInv
<1>2. turns' \in Seq(Calls)
  BY <1>1, AmongTail DEF TurnInv
<1>3. at' \in [Calls -> Places]
  BY DEF TurnInv, Places
<1>4. ASSUME NEW d \in Calls, at'[d] = "queued" PROVE Among(turns', d)
  <2>1. d # c /\ at[d] = "queued"
    BY <1>4 DEF TurnInv
  <2> QED
    BY <2>1, <1>1, AmongTail DEF TurnInv
<1>5. ASSUME NEW d \in Calls PROVE Waits(d)'
  <2>1. CASE d = c
    BY <2>1 DEF Waits, TurnInv
  <2>2. CASE d # c
    BY <2>2, <1>1 DEF Waits, TurnInv
  <2> QED
    BY <2>1, <2>2
<1> QED
  BY <1>2, <1>3, <1>4, <1>5 DEF TurnInv

(* A step of the call at the head, or of one that stores its pin, leaves    *)
(* the chain as it is.                                                      *)
LEMMA TurnStays ==
  ASSUME TurnInv, NEW c \in Calls, NEW p \in Places \ {"queued"},
         ~Waits(c) \/ p \in {"idle", "store"},
         turns' = turns, at' = [at EXCEPT ![c] = p], tries' = tries
  PROVE  TurnInv'
<1>1. at' \in [Calls -> Places]
  BY DEF TurnInv
<1>2. ASSUME NEW d \in Calls, at'[d] = "queued" PROVE Among(turns', d)
  BY <1>2 DEF TurnInv
<1>3. ASSUME NEW d \in Calls, ~Waits(d)' PROVE turns' # <<>> /\ d = Head(turns')
  BY <1>3 DEF TurnInv, Waits
<1> QED
  BY <1>1, <1>2, <1>3 DEF TurnInv

LEMMA TurnJoins ==
  ASSUME TurnInv, NEW c \in Calls, at[c] = "idle", Join(c), tries' \in [ModelRuns -> Nat]
  PROVE  TurnInv'
<1>1. turns' = Append(turns, c) /\ at' = [at EXCEPT ![c] = "queued"]
  BY DEF Join, Go
<1>2. at' \in [Calls -> Places]
  BY <1>1 DEF TurnInv, Places
<1>3. ASSUME NEW d \in Calls, at'[d] = "queued" PROVE Among(turns', d)
  BY <1>1, <1>3, AmongAppend DEF TurnInv
<1>4. ASSUME NEW d \in Calls, ~Waits(d)' PROVE turns' # <<>> /\ d = Head(turns')
  <2>1. d # c /\ ~Waits(d)
    BY <1>1, <1>4 DEF TurnInv, Waits
  <2>2. turns \in Seq(Calls) /\ turns # <<>> /\ d = Head(turns)
    BY <2>1 DEF TurnInv
  <2> QED
    BY <1>1, <2>2
<1>5. turns' \in Seq(Calls)
  BY <1>1, AmongAppend DEF TurnInv
<1> QED
  BY <1>2, <1>3, <1>4, <1>5 DEF TurnInv

LEMMA TurnTaken == ASSUME TurnInv, NEW c \in Calls, Turn(c) PROVE TurnInv'
<1>1. at' = [at EXCEPT ![c] = "start"] /\ turns' = turns /\ tries' = tries
  BY DEF Turn, Go
<1>2. at[c] = "queued" /\ Head(turns) = c
  BY DEF Turn, At
<1>3. turns # <<>>
  <2>1. PICK i \in 1..Len(turns) : turns[i] = c
    BY <1>2 DEF TurnInv, Among
  <2>2. Len(<<>>) = 0
    OBVIOUS
  <2> QED
    BY <2>1, <2>2
<1>4. at' \in [Calls -> Places]
  BY <1>1 DEF TurnInv, Places
<1>5. ASSUME NEW d \in Calls, at'[d] = "queued" PROVE Among(turns', d)
  BY <1>1, <1>5 DEF TurnInv
<1>6. ASSUME NEW d \in Calls, ~Waits(d)' PROVE turns' # <<>> /\ d = Head(turns')
  <2>1. d = c \/ ~Waits(d)
    BY <1>1, <1>6 DEF TurnInv, Waits
  <2> QED
    BY <1>1, <1>2, <1>3, <2>1 DEF TurnInv
<1> QED
  BY <1>1, <1>4, <1>5, <1>6 DEF TurnInv

LEMMA TurnDone ==
  ASSUME TurnInv, NEW r \in ModelRuns, ~Waits(r), NEW u, Done(r, u)
  PROVE  TurnInv'
<1>1. r \in Calls /\ turns # <<>> /\ r = Head(turns)
  BY DEF TurnInv, Calls
<1>2. CASE turns' = Tail(turns) /\ Go(r, "idle") /\ UNCHANGED tries
  BY <1>1, <1>2, TurnOver DEF Go
<1>3. CASE /\ tries' = [tries EXCEPT ![r] = @ + 1]
           /\ turns' = Append(Tail(turns), r) /\ Go(r, "queued")
  <2>1. Tail(turns) \in Seq(Calls)
    BY <1>1, AmongTail DEF TurnInv
  <2>2. turns' \in Seq(Calls) /\ Among(turns', r)
    BY <1>1, <1>3, <2>1, AmongAppend
  <2>3. at' \in [Calls -> Places]
    BY <1>3 DEF TurnInv, Places, Go
  <2>4. tries' \in [ModelRuns -> Nat]
    BY <1>3 DEF TurnInv
  <2>5. ASSUME NEW d \in Calls, at'[d] = "queued", d # r PROVE Among(turns', d)
    <3>1. at[d] = "queued"
      BY <1>1, <1>3, <2>5 DEF TurnInv, Go
    <3>2. Among(turns, d) /\ d # Head(turns)
      BY <3>1, <1>1, <2>5 DEF TurnInv
    <3>3. Among(Tail(turns), d)
      BY <1>1, <3>2, AmongTail DEF TurnInv
    <3> QED
      BY <1>1, <1>3, <2>1, <3>3, AmongAppend
  <2>6. ASSUME NEW d \in Calls PROVE Waits(d)'
    BY <1>1, <1>3 DEF TurnInv, Waits, Go
  <2> QED
    BY <2>2, <2>3, <2>4, <2>5, <2>6 DEF TurnInv
<1> QED
  BY <1>2, <1>3 DEF Done

LEMMA RunStepTurn == ASSUME TurnInv, NEW r \in ModelRuns, RunStep(r) PROVE TurnInv'
<1> r \in Calls
  BY DEF Calls
<1>1. ASSUME NEW p \in Places \ {"queued"}, ~Waits(r), turns' = turns, Go(r, p), tries' = tries
      PROVE  TurnInv'
  BY <1>1, TurnStays DEF Go
<1> USE DEF At, Waits, Places
<1>2. CASE Prepare(r)
  BY <1>1, <1>2 DEF Prepare
<1>3. CASE List(r)
  BY <1>1, <1>3 DEF List
<1>4. CASE UnloadAll(r)
  BY <1>1, <1>4 DEF UnloadAll
<1>5. CASE LoadModel(r)
  BY <1>1, <1>5 DEF LoadModel
<1>6. CASE RunEnds(r)
  BY <1>1, <1>6 DEF RunEnds
<1>7. CASE Finally(r)
  <2>1. ~Waits(r)
    BY <1>7 DEF Finally
  <2> QED
    BY <1>1, <1>7, <2>1, TurnDone DEF Finally
<1>8. CASE Restore(r)
  BY <1>1, <1>8 DEF Restore
<1>9. CASE Stop(r)
  <2>1. ~Waits(r)
    BY <1>9 DEF Stop
  <2> QED
    BY <1>9, <2>1, TurnDone DEF Stop
<1> QED
  BY <1>2, <1>3, <1>4, <1>5, <1>6, <1>7, <1>8, <1>9 DEF RunStep

LEMMA PinStepTurn == ASSUME TurnInv, NEW p \in Pins, PinStep(p) PROVE TurnInv'
<1> p \in Calls
  BY DEF Calls
<1>1. ASSUME NEW s \in {"idle", "store"}, ~Waits(p), turns' = Tail(turns), Go(p, s), tries' = tries
      PROVE  TurnInv'
  BY <1>1, TurnOver DEF Go
<1>2. CASE PinSection(p)
  BY <1>1, <1>2 DEF PinSection, At, Waits
<1>3. CASE PinSectionFails(p)
  BY <1>1, <1>3 DEF PinSectionFails, At, Waits
<1>4. CASE StorePin(p)
  BY <1>4, TurnStays DEF StorePin, Go, Places
<1>5. CASE UnpinSection(p)
  BY <1>1, <1>5 DEF UnpinSection, At, Waits
<1> QED
  BY <1>2, <1>3, <1>4, <1>5 DEF PinStep

LEMMA CallStepTurn == TurnInv /\ CallStep => TurnInv'
<1> SUFFICES ASSUME TurnInv, CallStep PROVE TurnInv'
  OBVIOUS
<1>1. ASSUME NEW c \in Calls, Turn(c) PROVE TurnInv'
  BY <1>1, TurnTaken
<1>2. ASSUME NEW r \in ModelRuns, StartRun(r) PROVE TurnInv'
  <2>1. tries' \in [ModelRuns -> Nat] /\ Join(r) /\ at[r] = "idle" /\ r \in Calls
    BY <1>2 DEF StartRun, TurnInv, At, Calls
  <2> QED
    BY <2>1, TurnJoins
<1>3. ASSUME NEW r \in ModelRuns, RunStep(r) PROVE TurnInv'
  BY <1>3, RunStepTurn
<1>4. ASSUME NEW p \in Pins, PinLoad(p) \/ ClearPin(p) PROVE TurnInv'
  <2>1. tries' \in [ModelRuns -> Nat] /\ Join(p) /\ at[p] = "idle" /\ p \in Calls
    BY <1>4 DEF PinLoad, ClearPin, TurnInv, At, Calls
  <2> QED
    BY <2>1, TurnJoins
<1>5. ASSUME NEW p \in Pins, PinStep(p) PROVE TurnInv'
  BY <1>5, PinStepTurn
<1> QED
  BY <1>1, <1>2, <1>3, <1>4, <1>5 DEF CallStep

LEMMA TurnInvStep == TurnInv /\ [RuntimeNext]_runtimeVars => TurnInv'
<1> SUFFICES ASSUME TurnInv, [RuntimeNext]_runtimeVars PROVE TurnInv'
  OBVIOUS
<1>1. CASE Operator \/ UNCHANGED runtimeVars
  BY <1>1 DEF Operator, runtimeVars, callVars, TurnInv, Waits
<1>2. CASE CallStep
  BY <1>2, CallStepTurn
<1> QED
  BY <1>1, <1>2 DEF RuntimeNext

(* Unless the operator meddles, a run that is about to load its model has   *)
(* the memory empty, and one that uses it has it to itself.                 *)
HasMemory(r) ==
  /\ at[r] = "load" => loaded = {}
  /\ at[r] = "run" => loaded = {ModelOf(r)}

AloneInv == meddled \in BOOLEAN /\ (~meddled => \A r \in ModelRuns : HasMemory(r))

LEMMA NobodyElseUsesIt ==
  ASSUME TurnInv, NEW c \in Calls, ~Waits(c), NEW r \in ModelRuns, r # c
  PROVE  Waits(r)
BY DEF TurnInv, Calls

(* What the call at the head does, the others do not see.                   *)
LEMMA HeadAlone ==
  ASSUME TurnInv, NEW c \in Calls, ~Waits(c), NEW s \in Places, Go(c, s),
         c \in ModelRuns => HasMemory(c)'
  PROVE  \A r \in ModelRuns : HasMemory(r)'
<1> SUFFICES ASSUME NEW r \in ModelRuns, r # c PROVE HasMemory(r)'
  OBVIOUS
<1>1. Waits(r)
  BY NobodyElseUsesIt
<1>2. at'[r] = at[r]
  BY DEF Go, TurnInv, Calls
<1> QED
  BY <1>1, <1>2 DEF HasMemory, Waits

(* A call that only enters the chain, or stores a pin, changes nothing.     *)
LEMMA WaitingAlone ==
  ASSUME TurnInv, \A r \in ModelRuns : HasMemory(r), NEW c \in Calls,
           NEW s \in {"idle", "queued", "start"},
         Go(c, s), loaded' = loaded, \A r \in ModelRuns : r # c => tries'[r] = tries[r]
  PROVE  \A r \in ModelRuns : HasMemory(r)'
<1> SUFFICES ASSUME NEW r \in ModelRuns PROVE HasMemory(r)'
  OBVIOUS
<1>1. CASE r = c
  BY <1>1 DEF HasMemory, Go, TurnInv, Calls
<1>2. CASE r # c
  <2>1. at'[r] = at[r] /\ ModelOf(r)' = ModelOf(r)
    BY <1>2 DEF Go, TurnInv, Calls, ModelOf
  <2> QED
    BY <2>1 DEF HasMemory
<1> QED
  BY <1>1, <1>2

LEMMA RunStepAlone ==
  ASSUME TurnInv, \A q \in ModelRuns : HasMemory(q), NEW r \in ModelRuns, RunStep(r)
  PROVE  \A q \in ModelRuns : HasMemory(q)'
<1> r \in Calls
  BY DEF Calls
<1>1. ASSUME NEW s \in Places, ~Waits(r), Go(r, s),
             s = "load" => loaded' = {},
             s = "run" => loaded' = {ModelOf(r)} /\ tries' = tries
      PROVE  \A q \in ModelRuns : HasMemory(q)'
  <2>1. at'[r] = s
    BY <1>1 DEF Go, TurnInv
  <2>2. HasMemory(r)'
    BY <1>1, <2>1 DEF HasMemory, ModelOf
  <2> QED
    BY <1>1, <2>2, HeadAlone
<1>2. CASE Prepare(r)
  BY <1>1, <1>2 DEF Prepare, At, Waits, Places
<1>3. CASE List(r)
  <2>1. PICK inMemory \in {loaded} \union (IF MayFail("list") THEN {{}} ELSE {}) :
          Go(r, IF inMemory = {ModelOf(r)} THEN "run" ELSE "unloadAll")
    BY <1>3 DEF List
  <2>2. inMemory = {ModelOf(r)} => loaded = {ModelOf(r)}
    BY <2>1
  <2> QED
    BY <1>1, <1>3, <2>1, <2>2 DEF List, At, Waits, Places
<1>4. CASE UnloadAll(r)
  BY <1>1, <1>4 DEF UnloadAll, At, Waits, Places
<1>5. CASE LoadModel(r)
  <2>1. loaded = {}
    BY <1>5 DEF LoadModel, HasMemory, At
  <2> QED
    BY <1>1, <1>5, <2>1 DEF LoadModel, At, Waits, Places
<1>6. CASE RunEnds(r)
  BY <1>1, <1>6 DEF RunEnds, At, Waits, Places
<1>7. CASE Finally(r)
  BY <1>1, <1>7 DEF Finally, Done, At, Waits, Places
<1>8. CASE Restore(r)
  BY <1>1, <1>8 DEF Restore, At, Waits, Places
<1>9. CASE Stop(r)
  BY <1>1, <1>9 DEF Stop, Done, At, Waits, Places
<1> QED
  BY <1>2, <1>3, <1>4, <1>5, <1>6, <1>7, <1>8, <1>9 DEF RunStep

LEMMA PinStepAlone ==
  ASSUME TurnInv, \A q \in ModelRuns : HasMemory(q), NEW p \in Pins, PinStep(p)
  PROVE  \A q \in ModelRuns : HasMemory(q)'
<1> p \in Calls
  BY DEF Calls
<1>1. ASSUME NEW s \in {"idle", "store"}, ~Waits(p), Go(p, s)
      PROVE  \A q \in ModelRuns : HasMemory(q)'
  <2>1. at'[p] = s
    BY <1>1 DEF Go, TurnInv
  <2>2. HasMemory(p)'
    BY <2>1 DEF HasMemory
  <2> QED
    BY <1>1, <2>2, HeadAlone DEF Places
<1>2. CASE PinSection(p) \/ PinSectionFails(p) \/ UnpinSection(p)
  BY <1>1, <1>2 DEF PinSection, PinSectionFails, UnpinSection, At, Waits
<1>3. CASE StorePin(p)
  BY <1>3, WaitingAlone DEF StorePin
<1> QED
  BY <1>2, <1>3 DEF PinStep

LEMMA CallStepAlone ==
  ASSUME TurnInv, \A q \in ModelRuns : HasMemory(q), CallStep
  PROVE  \A q \in ModelRuns : HasMemory(q)'
<1>1. ASSUME NEW c \in Calls, Turn(c) PROVE \A q \in ModelRuns : HasMemory(q)'
  BY <1>1, WaitingAlone DEF Turn
<1>2. ASSUME NEW r \in ModelRuns, StartRun(r) PROVE \A q \in ModelRuns : HasMemory(q)'
  <2>1. /\ r \in Calls /\ Go(r, "queued") /\ loaded' = loaded
        /\ \A q \in ModelRuns : q # r => tries'[q] = tries[q]
    BY <1>2 DEF StartRun, Join, TurnInv, Calls
  <2> QED
    BY <2>1, WaitingAlone
<1>3. ASSUME NEW r \in ModelRuns, RunStep(r) PROVE \A q \in ModelRuns : HasMemory(q)'
  BY <1>3, RunStepAlone
<1>4. ASSUME NEW p \in Pins, PinLoad(p) \/ ClearPin(p) PROVE \A q \in ModelRuns : HasMemory(q)'
  <2>1. p \in Calls /\ Go(p, "queued") /\ loaded' = loaded /\ tries' = tries
    BY <1>4 DEF PinLoad, ClearPin, Join, Calls
  <2> QED
    BY <2>1, WaitingAlone
<1>5. ASSUME NEW p \in Pins, PinStep(p) PROVE \A q \in ModelRuns : HasMemory(q)'
  BY <1>5, PinStepAlone
<1> QED
  BY <1>1, <1>2, <1>3, <1>4, <1>5 DEF CallStep

LEMMA AloneInvStep == TurnInv /\ AloneInv /\ [RuntimeNext]_runtimeVars => AloneInv'
<1> SUFFICES ASSUME TurnInv, AloneInv, [RuntimeNext]_runtimeVars PROVE AloneInv'
  OBVIOUS
<1>1. TurnInv'
  BY TurnInvStep
<1>2. CASE UNCHANGED runtimeVars
  BY <1>2 DEF runtimeVars, callVars, AloneInv, HasMemory, ModelOf
<1>3. ASSUME turns' = <<>> PROVE \A r \in ModelRuns : HasMemory(r)'
  <2> QED
    BY <1>1, <1>3 DEF TurnInv, Waits, HasMemory, Calls
<1>4. CASE Operator /\ meddled' = (turns # <<>>)
  <2>1. meddled' \in BOOLEAN /\ (~meddled' => turns' = <<>>)
    BY <1>4 DEF Operator
  <2> QED
    BY <1>3, <2>1 DEF AloneInv
<1>5. CASE CallStep /\ meddled' = (meddled /\ turns' # <<>>)
  <2>1. meddled' \in BOOLEAN
    BY <1>5 DEF AloneInv
  <2>2. CASE ~meddled
    BY <1>5, <2>1, <2>2, CallStepAlone DEF AloneInv
  <2>3. CASE meddled
    <3>1. ~meddled' => turns' = <<>>
      BY <1>5, <2>3
    <3> QED
      BY <1>3, <2>1, <3>1 DEF AloneInv
  <2> QED
    BY <2>2, <2>3
<1> QED
  BY <1>2, <1>4, <1>5 DEF RuntimeNext

(* Whatever runs, turns of chat and pins meet, and whichever command fails, *)
(* a run that uses its model has it alone in memory, unless the operator    *)
(* meddles (job-runner.ts:336).                                             *)
THEOREM RunHasItsModelAlone == RuntimeSpec => []ModelAlone
<1>1. RuntimeInit => TurnInv /\ AloneInv
  <2> SUFFICES ASSUME RuntimeInit PROVE TurnInv /\ AloneInv
    OBVIOUS
  <2>1. turns \in Seq(Calls) /\ tries \in [ModelRuns -> Nat] /\ at \in [Calls -> Places]
    BY DEF RuntimeInit, Places
  <2>2. \A c \in Calls : at[c] = "idle"
    BY DEF RuntimeInit
  <2>3. \A r \in ModelRuns : HasMemory(r)
    BY <2>2 DEF HasMemory, Calls
  <2> QED
    BY <2>1, <2>2, <2>3 DEF TurnInv, AloneInv, Waits, RuntimeInit
<1>2. AloneInv => ModelAlone
  BY DEF AloneInv, HasMemory, ModelAlone, At
<1> QED
  BY <1>1, <1>2, TurnInvStep, AloneInvStep, PTL DEF RuntimeSpec

-----------------------------------------------------------------------------
(*                             The pinned model                            *)

(* The pinned model.  A call is in the chain once, and not when it is done; *)
Once(s) == \A i, h \in 1..Len(s) : s[i] = s[h] => i = h

ChainInv ==
  /\ Once(turns)
  /\ \A i \in 1..Len(turns) : at[turns[i]] \notin {"idle", "store"}

(* wherever d stands in the chain, c stands before it.                      *)
Behind(s, d, c) == \A i \in 1..Len(s) : s[i] = d => \E h \in 1..(i - 1) : s[h] = c

(* What a step of the call e does to the chain.                             *)
Joins(e) == at[e] = "idle" /\ turns' = Append(turns, e) /\ Go(e, "queued")
Begins(e) == at[e] = "queued" /\ e = Head(turns) /\ turns' = turns /\ Go(e, "start")
GoesOn(e) ==
  /\ e \in ModelRuns /\ ~Waits(e)
  /\ turns' = turns /\ \E s \in Places \ {"idle", "queued", "store", "start"} : Go(e, s)
Leaves(e) ==
  /\ ~Waits(e) /\ turns' = Tail(turns)
  /\ \/ Go(e, "idle")
     \/ e \in Pins /\ PinOf[e] # None /\ Go(e, "store")
Returns(e) ==
  /\ e \in ModelRuns /\ ~Waits(e)
  /\ turns' = Append(Tail(turns), e) /\ Go(e, "queued")
Stores(e) == e \in Pins /\ at[e] = "store" /\ turns' = turns /\ Go(e, "idle")

LEMMA RunStepMoves ==
  ASSUME NEW r \in ModelRuns, RunStep(r)
  PROVE  GoesOn(r) \/ Leaves(r) \/ Returns(r)
<1> USE DEF At, Waits, Places
<1>1. ASSUME ~Waits(r), NEW u, Done(r, u) PROVE Leaves(r) \/ Returns(r)
  <2>1. CASE turns' = Tail(turns) /\ Go(r, "idle")
    BY <1>1, <2>1, Zenon DEF Leaves
  <2>2. CASE turns' = Append(Tail(turns), r) /\ Go(r, "queued")
    BY <1>1, <2>2, Zenon DEF Returns
  <2> QED
    BY <1>1, <2>1, <2>2 DEF Done
<1>2. CASE Prepare(r)
  BY <1>2 DEF Prepare, GoesOn
<1>3. CASE List(r)
  BY <1>3 DEF List, GoesOn
<1>4. CASE UnloadAll(r)
  BY <1>4 DEF UnloadAll, GoesOn
<1>5. CASE LoadModel(r)
  BY <1>5 DEF LoadModel, GoesOn
<1>6. CASE RunEnds(r)
  BY <1>6 DEF RunEnds, GoesOn
<1>7. CASE Finally(r)
  <2>1. ~Waits(r)
    BY <1>7 DEF Finally
  <2>2. CASE Go(r, "restore") /\ UNCHANGED turns
    BY <2>1, <2>2 DEF GoesOn
  <2>3. CASE Done(r, FALSE)
    BY <2>1, <2>3, <1>1
  <2> QED
    BY <1>7, <2>2, <2>3 DEF Finally
<1>8. CASE Restore(r)
  BY <1>8 DEF Restore, GoesOn
<1>9. CASE Stop(r)
  BY <1>9, <1>1 DEF Stop
<1> QED
  BY <1>2, <1>3, <1>4, <1>5, <1>6, <1>7, <1>8, <1>9 DEF RunStep

LEMMA CallStepMoves ==
  ASSUME CallStep
  PROVE  \E e \in Calls : Joins(e) \/ Begins(e) \/ GoesOn(e) \/ Leaves(e) \/ Returns(e) \/ Stores(e)
<1>1. ASSUME NEW c \in Calls, Turn(c) PROVE Begins(c)
  BY <1>1 DEF Turn, Begins, At
<1>2. ASSUME NEW r \in ModelRuns, StartRun(r) PROVE Joins(r)
  BY <1>2 DEF StartRun, Joins, Join, At
<1>3. ASSUME NEW p \in Pins, PinLoad(p) \/ ClearPin(p) PROVE Joins(p)
  BY <1>3 DEF PinLoad, ClearPin, Joins, Join, At
<1>4. ASSUME NEW p \in Pins, PinStep(p) PROVE Leaves(p) \/ Stores(p)
  <2> USE DEF At, Waits
  <2>1. CASE PinSection(p)
    BY <2>1, Zenon DEF PinSection, Leaves
  <2>2. CASE PinSectionFails(p)
    BY <2>2, Zenon DEF PinSectionFails, Leaves
  <2>3. CASE StorePin(p)
    BY <2>3, Zenon DEF StorePin, Stores
  <2>4. CASE UnpinSection(p)
    BY <2>4, Zenon DEF UnpinSection, Leaves
  <2> QED
    BY <1>4, <2>1, <2>2, <2>3, <2>4 DEF PinStep
<1> QED
  BY <1>1, <1>2, <1>3, <1>4, RunStepMoves DEF CallStep, Calls

LEMMA OnceAppend ==
  ASSUME NEW S, NEW s \in Seq(S), NEW e \in S, Once(s), \A i \in 1..Len(s) : s[i] # e
  PROVE  Once(Append(s, e))
<1>1. \A i \in 1..Len(s) : Append(s, e)[i] = s[i]
  OBVIOUS
<1>2. Append(s, e)[Len(s) + 1] = e /\ Len(Append(s, e)) = Len(s) + 1
  OBVIOUS
<1> QED
  BY <1>1, <1>2 DEF Once

LEMMA OnceTail ==
  ASSUME NEW S, NEW s \in Seq(S), s # <<>>, Once(s)
  PROVE  Once(Tail(s)) /\ \A i \in 1..Len(Tail(s)) : Tail(s)[i] # Head(s)
           /\ \E h \in 1..Len(s) : Tail(s)[i] = s[h]
<1>1. \A i \in 1..Len(Tail(s)) : Tail(s)[i] = s[i + 1] /\ i + 1 \in 1..Len(s) /\ i + 1 # 1
  OBVIOUS
<1>2. Head(s) = s[1] /\ 1 \in 1..Len(s)
  OBVIOUS
<1> QED
  BY <1>1, <1>2 DEF Once

LEMMA BehindAppend ==
  ASSUME NEW S, NEW s \in Seq(S), NEW e \in S, NEW d, NEW c, Behind(s, d, c), Among(s, c)
  PROVE  Behind(Append(s, e), d, c)
<1>1. \A i \in 1..Len(s) : Append(s, e)[i] = s[i]
  OBVIOUS
<1>2. Append(s, e)[Len(s) + 1] = e /\ Len(Append(s, e)) = Len(s) + 1 /\ Len(s) \in Nat
  OBVIOUS
<1> SUFFICES ASSUME NEW i \in 1..Len(Append(s, e)), Append(s, e)[i] = d
             PROVE  \E h \in 1..(i - 1) : Append(s, e)[h] = c
  BY DEF Behind
<1>3. CASE i \in 1..Len(s)
  <2>1. PICK h \in 1..(i - 1) : s[h] = c
    BY <1>1, <1>3 DEF Behind
  <2> QED
    BY <1>1, <1>2, <1>3, <2>1
<1>4. CASE i = Len(s) + 1
  BY <1>1, <1>2, <1>4 DEF Among
<1> QED
  BY <1>2, <1>3, <1>4

LEMMA BehindTail ==
  ASSUME NEW S, NEW s \in Seq(S), s # <<>>, NEW d, NEW c, Behind(s, d, c), c # Head(s)
  PROVE  Behind(Tail(s), d, c)
<1>1. \A i \in 1..Len(Tail(s)) : Tail(s)[i] = s[i + 1] /\ i + 1 \in 1..Len(s)
  OBVIOUS
<1> SUFFICES ASSUME NEW i \in 1..Len(Tail(s)), Tail(s)[i] = d
             PROVE  \E h \in 1..(i - 1) : Tail(s)[h] = c
  BY DEF Behind
<1>2. PICK h \in 1..(i + 1 - 1) : s[h] = c
  BY <1>1 DEF Behind
<1>3. h # 1
  BY <1>2
<1>4. h - 1 \in 1..(i - 1) /\ h - 1 \in 1..Len(Tail(s)) /\ Tail(s)[h - 1] = s[h - 1 + 1]
        /\ h - 1 + 1 = h
  BY <1>1, <1>2, <1>3
<1> QED
  BY <1>2, <1>4

LEMMA HeadNotBehind ==
  ASSUME NEW S, NEW s \in Seq(S), s # <<>>, NEW c PROVE ~Behind(s, Head(s), c)
<1>1. Head(s) = s[1] /\ 1 \in 1..Len(s)
  OBVIOUS
<1> QED
  BY <1>1 DEF Behind

LEMMA ChainInvStep == TurnInv /\ ChainInv /\ [RuntimeNext]_runtimeVars => ChainInv'
<1> SUFFICES ASSUME TurnInv, ChainInv, [RuntimeNext]_runtimeVars PROVE ChainInv'
  OBVIOUS
<1>1. turns \in Seq(Calls) /\ at \in [Calls -> Places] /\ \A i \in 1..Len(turns) : turns[i] \in Calls
  BY DEF TurnInv
<1>2. CASE Operator \/ UNCHANGED runtimeVars
  BY <1>2 DEF Operator, runtimeVars, callVars, ChainInv
<1>3. CASE CallStep
  <2>1. PICK e \in Calls : Joins(e) \/ Begins(e) \/ GoesOn(e) \/ Leaves(e) \/ Returns(e) \/ Stores(e)
    BY <1>3, CallStepMoves
  <2>2. ASSUME turns' = turns, NEW s, Go(e, s),
               s \notin {"idle", "store"} \/ (\A i \in 1..Len(turns) : turns[i] # e)
        PROVE  ChainInv'
    BY <1>1, <2>2 DEF ChainInv, Go
  <2>3. CASE Joins(e)
    <3>1. \A i \in 1..Len(turns) : turns[i] # e
      BY <2>3 DEF ChainInv, Joins
    <3>2. Once(turns')
      BY <1>1, <2>3, <3>1, OnceAppend DEF ChainInv, Joins
    <3>3. ASSUME NEW i \in 1..Len(turns') PROVE at'[turns'[i]] \notin {"idle", "store"}
      <4>1. (i \in 1..Len(turns) /\ turns'[i] = turns[i]) \/ turns'[i] = e
        BY <1>1, <2>3, <3>3 DEF Joins
      <4> QED
        BY <1>1, <2>3, <3>1, <4>1 DEF ChainInv, Joins, Go
    <3> QED
      BY <3>2, <3>3 DEF ChainInv
  <2>4. CASE Begins(e) \/ GoesOn(e)
    BY <2>2, <2>4 DEF Begins, GoesOn
  <2>5. CASE Stores(e)
    <3>1. \A i \in 1..Len(turns) : turns[i] # e
      BY <2>5 DEF ChainInv, Stores
    <3> QED
      BY <2>2, <2>5, <3>1 DEF Stores
  <2>6. ASSUME ~Waits(e)
        PROVE  /\ turns # <<>> /\ e = Head(turns) /\ Tail(turns) \in Seq(Calls)
               /\ Once(Tail(turns))
               /\ \A i \in 1..Len(Tail(turns)) :
                    Tail(turns)[i] # e /\ at[Tail(turns)[i]] \notin {"idle", "store"}
                    /\ Tail(turns)[i] \in Calls
    <3>1. turns # <<>> /\ e = Head(turns) /\ Once(turns)
      BY <2>6 DEF TurnInv, ChainInv
    <3>2. Tail(turns) \in Seq(Calls)
      BY <1>1, <3>1, AmongTail
    <3> QED
      BY <1>1, <3>1, <3>2, OnceTail DEF ChainInv
  <2>7. CASE Leaves(e)
    <3>1. PICK s : Go(e, s)
      BY <2>7 DEF Leaves
    <3>2. turns' = Tail(turns) /\ ~Waits(e)
      BY <2>7 DEF Leaves
    <3> QED
      BY <1>1, <2>6, <3>1, <3>2 DEF ChainInv, Go
  <2>8. CASE Returns(e)
    <3>1. turns' = Append(Tail(turns), e) /\ Go(e, "queued") /\ ~Waits(e)
      BY <2>8 DEF Returns
    <3>2. Once(turns')
      BY <2>6, <3>1, OnceAppend
    <3>3. ASSUME NEW i \in 1..Len(turns') PROVE at'[turns'[i]] \notin {"idle", "store"}
      <4>1. (i \in 1..Len(Tail(turns)) /\ turns'[i] = Tail(turns)[i]) \/ turns'[i] = e
        BY <2>6, <3>1, <3>3
      <4> QED
        BY <1>1, <2>6, <3>1, <4>1 DEF Go
    <3> QED
      BY <3>2, <3>3 DEF ChainInv
  <2> QED
    BY <2>1, <2>3, <2>4, <2>5, <2>7, <2>8
<1> QED
  BY <1>2, <1>3 DEF RuntimeNext

(* Unless a pin call was overtaken: the calls that clear the pin come one   *)
(* at a time, there is no pin while one is under way, and a call that pins  *)
(* a model meanwhile waits behind it.                                       *)
Unpinning(c) == PinOf[c] = None /\ at[c] # "idle"

PinPlaces ==
  \A c \in Pins : at[c] \in {"idle", "queued", "start", "store"} /\ (at[c] = "store" => PinOf[c] # None)

WaitsFor(d, c) == at[d] # "idle" => at[d] = "queued" /\ PinOf[d] # None /\ Behind(turns, d, c)

OrderInv ==
  \A c \in Pins : Unpinning(c) => pinned = None /\ \A d \in Pins : d # c => WaitsFor(d, c)

LEMMA PinPlacesStep == TurnInv /\ PinPlaces /\ [RuntimeNext]_runtimeVars => PinPlaces'
<1> SUFFICES ASSUME TurnInv, PinPlaces, [RuntimeNext]_runtimeVars PROVE PinPlaces'
  OBVIOUS
<1>1. CASE Operator \/ UNCHANGED runtimeVars
  BY <1>1 DEF Operator, runtimeVars, callVars, PinPlaces
<1>2. CASE CallStep
  <2>1. PICK e \in Calls : Joins(e) \/ Begins(e) \/ GoesOn(e) \/ Leaves(e) \/ Returns(e) \/ Stores(e)
    BY <1>2, CallStepMoves
  <2>2. at \in [Calls -> Places] /\ Pins \subseteq Calls /\ ModelRuns \intersect Pins = {}
    BY LocalRuntimeAssumption DEF TurnInv, Calls
  <2>3. ASSUME NEW s, Go(e, s), e \in Pins => s \in {"idle", "queued", "start", "store"},
               s = "store" => PinOf[e] # None
        PROVE  PinPlaces'
    BY <2>2, <2>3 DEF PinPlaces, Go
  <2>4. CASE Joins(e) \/ Begins(e) \/ Returns(e) \/ Stores(e)
    BY <2>3, <2>4 DEF Joins, Begins, Returns, Stores
  <2>5. CASE GoesOn(e)
    <3>1. PICK s \in Places \ {"idle", "queued", "store", "start"} : Go(e, s)
      BY <2>5 DEF GoesOn
    <3> QED
      BY <2>2, <2>3, <2>5, <3>1 DEF GoesOn
  <2>6. CASE Leaves(e)
    BY <2>3, <2>6 DEF Leaves
  <2> QED
    BY <2>1, <2>4, <2>5, <2>6
<1> QED
  BY <1>1, <1>2 DEF RuntimeNext

LEMMA PinnedMoves ==
  ASSUME CallStep
  PROVE  \/ pinned' \in {pinned, None}
         \/ \E p \in Pins : Stores(p) /\ pinned' = PinOf[p] /\ server' = server /\ loaded' = loaded
<1>1. ASSUME NEW r \in ModelRuns, RunStep(r) PROVE pinned' = pinned
  BY <1>1 DEF RunStep, Prepare, List, UnloadAll, LoadModel, RunEnds, Finally, Restore, Stop
<1>2. ASSUME NEW p \in Pins, PinStep(p) PROVE pinned' = pinned \/ StorePin(p)
  BY <1>2 DEF PinStep, PinSection, PinSectionFails, UnpinSection
<1>3. ASSUME NEW p \in Pins, StorePin(p)
      PROVE  Stores(p) /\ pinned' = PinOf[p] /\ server' = server /\ loaded' = loaded
  BY <1>3 DEF StorePin, Stores, At
<1>4. ASSUME NEW c \in Calls, Turn(c) PROVE pinned' = pinned
  BY <1>4 DEF Turn
<1>5. ASSUME NEW r \in ModelRuns, StartRun(r) PROVE pinned' = pinned
  BY <1>5 DEF StartRun
<1>6. ASSUME NEW p \in Pins, PinLoad(p) \/ ClearPin(p) PROVE pinned' \in {pinned, None}
  BY <1>6 DEF PinLoad, ClearPin
<1> QED
  BY <1>1, <1>2, <1>3, <1>4, <1>5, <1>6 DEF CallStep

LEMMA ClearPinMoves ==
  ASSUME CallStep, NEW c \in Pins, PinOf[c] = None, at \in [Calls -> Places],
         at[c] = "idle", at'[c] # "idle", ~overtaken'
  PROVE  Joins(c) /\ pinned' = None /\ \A d \in Pins : at[d] = "idle"
<1>1. c \in Calls /\ c \notin ModelRuns
  BY LocalRuntimeAssumption DEF Calls
<1>2. PICK e \in Calls : Joins(e) \/ Begins(e) \/ GoesOn(e) \/ Leaves(e) \/ Returns(e) \/ Stores(e)
  BY CallStepMoves
<1>3. \E s : Go(e, s)
  BY <1>2 DEF Joins, Begins, GoesOn, Leaves, Returns, Stores
<1>4. e = c
  BY <1>1, <1>3 DEF Go
<1>5. ASSUME NEW r \in ModelRuns, RunStep(r) \/ StartRun(r) PROVE at'[c] = at[c]
  <2>1. StartRun(r) => Joins(r)
    BY DEF StartRun, Joins, Join, At
  <2>2. \E s : Go(r, s)
    BY <1>5, <2>1, RunStepMoves DEF Joins, GoesOn, Leaves, Returns
  <2> QED
    BY <1>1, <2>2 DEF Go
<1>6. ASSUME NEW d \in Calls, Turn(d) PROVE at'[c] = at[c]
  BY <1>6, <1>1 DEF Turn, At, Go
<1>7. ASSUME NEW p \in Pins, PinLoad(p) \/ PinStep(p) PROVE at'[c] = at[c]
  <2>1. p = c => FALSE
    BY <1>7, <1>1 DEF PinLoad, PinStep, PinSection, PinSectionFails, StorePin, UnpinSection, At, Go
  <2>2. \E s : Go(p, s)
    BY <1>7 DEF PinLoad, PinStep, PinSection, PinSectionFails, StorePin, UnpinSection, Join
  <2> QED
    BY <1>1, <2>1, <2>2 DEF Go
<1>8. PICK p \in Pins : ClearPin(p)
  BY <1>5, <1>6, <1>7 DEF CallStep
<1>9. p = c
  <2>1. p \in Calls
    BY DEF Calls
  <2> QED
    BY <1>1, <1>8, <2>1 DEF ClearPin, Join, Go
<1> QED
  BY <1>8, <1>9 DEF ClearPin, Joins, Join, At

LEMMA OrderInvStep ==
  ASSUME TurnInv, ChainInv, PinPlaces, OrderInv, [RuntimeNext]_runtimeVars, ~overtaken'
  PROVE  OrderInv'
<1>1. /\ turns \in Seq(Calls) /\ at \in [Calls -> Places]
      /\ Pins \subseteq Calls /\ ModelRuns \intersect Pins = {}
  BY LocalRuntimeAssumption DEF TurnInv, Calls
<1>2. CASE Operator \/ UNCHANGED runtimeVars
  BY <1>2 DEF Operator, runtimeVars, callVars, OrderInv, Unpinning, WaitsFor
<1>3. CASE CallStep
  <2> SUFFICES ASSUME NEW c \in Pins, Unpinning(c)'
               PROVE  pinned' = None /\ \A d \in Pins : d # c => WaitsFor(d, c)'
    BY DEF OrderInv
  <2>1. CASE at[c] = "idle"
    <3>1. Joins(c) /\ pinned' = None /\ \A d \in Pins : at[d] = "idle"
      BY <1>1, <1>3, <2>1, ClearPinMoves DEF Unpinning
    <3> QED
      BY <1>1, <3>1 DEF Joins, Go, WaitsFor
  <2>2. CASE at[c] # "idle"
    <3>1. pinned = None /\ Unpinning(c) /\ \A d \in Pins : d # c => WaitsFor(d, c)
      BY <2>2 DEF OrderInv, Unpinning
    <3>2. \A d \in Pins : ~Stores(d)
      BY <3>1 DEF PinPlaces, Stores, WaitsFor, Unpinning
    <3>3. pinned' = None
      BY <1>3, <3>1, <3>2, PinnedMoves
    <3>4. Among(turns, c)
      <4>1. CASE at[c] = "queued"
        BY <1>1, <4>1 DEF TurnInv
      <4>2. CASE at[c] = "start"
        <5>1. turns # <<>> /\ c = Head(turns)
          BY <1>1, <4>2 DEF TurnInv, Waits
        <5>2. 1 \in 1..Len(turns) /\ turns[1] = c
          BY <1>1, <5>1
        <5> QED
          BY <5>2 DEF Among
      <4> QED
        BY <2>2, <3>1, <4>1, <4>2 DEF PinPlaces, Unpinning
    <3>5. PICK e \in Calls : Joins(e) \/ Begins(e) \/ GoesOn(e) \/ Leaves(e) \/ Returns(e) \/ Stores(e)
      BY <1>3, CallStepMoves
    <3> SUFFICES ASSUME NEW d \in Pins, d # c, at'[d] # "idle"
                 PROVE  at'[d] = "queued" /\ PinOf[d] # None /\ Behind(turns', d, c)
      BY <3>3 DEF WaitsFor
    <3>6. CASE Joins(e)
      <4>1. e = d => \A i \in 1..Len(turns) : turns[i] # d
        BY <3>6 DEF Joins, ChainInv
      <4>2. Behind(turns, d, c)
        BY <1>1, <3>1, <3>6, <4>1 DEF WaitsFor, Behind, Joins, Go
      <4>3. Behind(turns', d, c)
        BY <1>1, <3>4, <3>6, <4>2, BehindAppend DEF Joins
      <4>4. at'[d] = "queued"
        BY <1>1, <3>1, <3>6 DEF WaitsFor, Joins, Go
      <4>5. PinOf[d] # None
        <5>1. CASE at[d] # "idle"
          BY <3>1, <5>1 DEF WaitsFor
        <5>2. CASE at[d] = "idle" /\ PinOf[d] = None
          <6>1. \A q \in Pins : at[q] = "idle"
            BY <1>1, <1>3, <5>2, ClearPinMoves
          <6> QED
            BY <2>2, <6>1
        <5> QED
          BY <5>1, <5>2
      <4> QED
        BY <4>3, <4>4, <4>5
    <3>7. CASE Begins(e) \/ GoesOn(e)
      <4>1. d # e
        <5>1. CASE Begins(e) /\ d = e
          <6>1. Behind(turns, Head(turns), c) /\ turns # <<>>
            BY <3>1, <5>1, <3>4 DEF Begins, WaitsFor, Among
          <6> QED
            BY <1>1, <6>1, HeadNotBehind
        <5>2. CASE GoesOn(e)
          BY <1>1, <5>2 DEF GoesOn
        <5> QED
          BY <3>7, <5>1, <5>2
      <4>2. at'[d] = at[d] /\ turns' = turns
        BY <1>1, <3>7, <4>1 DEF Begins, GoesOn, Go
      <4> QED
        BY <3>1, <4>2 DEF WaitsFor
    <3>8. CASE Leaves(e) \/ Returns(e)
      <4>1. ~Waits(e) /\ turns # <<>> /\ e = Head(turns)
        BY <3>8 DEF Leaves, Returns, TurnInv
      <4>2. e # d
        BY <3>1, <4>1 DEF WaitsFor, Waits
      <4>3. at'[d] = at[d]
        BY <1>1, <3>8, <4>2 DEF Leaves, Returns, Go
      <4>4. Behind(turns, d, c)
        BY <3>1, <4>3 DEF WaitsFor
      <4>5. c # e
        <5>1. CASE Leaves(e) /\ c = e
          BY <1>1, <3>1, <5>1 DEF Leaves, Go, Unpinning
        <5>2. CASE Returns(e)
          BY <1>1, <5>2 DEF Returns
        <5> QED
          BY <3>8, <5>1, <5>2
      <4>6. Behind(Tail(turns), d, c)
        BY <1>1, <4>1, <4>4, <4>5, BehindTail
      <4>7. Tail(turns) \in Seq(Calls) /\ Among(Tail(turns), c)
        BY <1>1, <3>4, <4>1, <4>5, AmongTail
      <4>8. Behind(turns', d, c)
        <5>1. CASE turns' = Tail(turns)
          BY <4>6, <5>1
        <5>2. CASE turns' = Append(Tail(turns), e)
          BY <1>1, <4>6, <4>7, <5>2, BehindAppend
        <5> QED
          BY <3>8, <5>1, <5>2 DEF Leaves, Returns
      <4> QED
        BY <3>1, <4>3, <4>8 DEF WaitsFor
    <3> QED
      BY <3>2, <3>5, <3>6, <3>7, <3>8 DEF Stores
  <2> QED
    BY <2>1, <2>2
<1> QED
  BY <1>2, <1>3 DEF RuntimeNext

(* What a run that has the runtime knows of the pin and of the memory, ...  *)
Busy(r) == at[r] \in {"list", "unloadAll", "load", "run", "finally", "restore", "stop"}

NoneStores == \A c \in Pins : at[c] # "store"

AboutPin(r) ==
  /\ server /\ pinned \in {run.pin, None} /\ NoneStores
  /\ at[r] \in {"list", "unloadAll", "load", "run"} => ~run.ready
  /\ (at[r] = "list" /\ pinned # None) => pinned \in loaded
  /\ at[r] = "load" => loaded = {}
  /\ at[r] = "run" => loaded = {ModelOf(r)}
  /\ at[r] = "finally" => run.ready /\ loaded = {ModelOf(r)}
  /\ at[r] = "restore" => run.ready /\ (run.pin = ModelOf(r) => run.pin \in loaded)
  /\ at[r] = "stop" => run.ready /\ (run.pin # None => run.pin \in loaded)

(* ... what a call does that has loaded its model and not yet stored it,    *)
Kept(c) == server /\ loaded = {PinOf[c]} /\ \A d \in Pins : at[d] = "store" => d = c

(* ... and what holds while nobody has the runtime.                         *)
Calm == \A r \in ModelRuns : ~Busy(r)

PinInv ==
  /\ \A r \in ModelRuns : Busy(r) => AboutPin(r)
  /\ \A c \in Pins : at[c] = "store" => Kept(c)
  /\ Calm => run = NoRun /\ (NoneStores /\ pinned # None => server /\ pinned \in loaded)

LEMMA HeadCalm ==
  ASSUME TurnInv, NEW c \in Calls, ~Waits(c), NEW r \in ModelRuns, r # c
  PROVE  ~Busy(r)
BY NobodyElseUsesIt DEF Busy, Waits

(* A run that goes on: the calls that wait see nothing of it.               *)
LEMMA BusyOn ==
  ASSUME TurnInv, NEW r \in ModelRuns, ~Waits(r), NoneStores,
         NEW s \in {"list", "unloadAll", "load", "run", "finally", "restore", "stop"}, Go(r, s),
         AboutPin(r)'
  PROVE  PinInv'
<1>1. at \in [Calls -> Places] /\ r \in Calls /\ ModelRuns \subseteq Calls /\ Pins \subseteq Calls
        /\ r \notin Pins
  BY LocalRuntimeAssumption DEF TurnInv, Calls
<1>2. at'[r] = s /\ \A c \in Calls : c # r => at'[c] = at[c]
  BY <1>1 DEF Go
<1>3. NoneStores'
  BY <1>1, <1>2 DEF NoneStores
<1>4. Busy(r)'
  BY <1>2 DEF Busy
<1>5. ASSUME NEW q \in ModelRuns, Busy(q)' PROVE AboutPin(q)'
  <2>1. CASE q = r
    BY <2>1
  <2>2. CASE q # r
    BY <1>1, <1>2, <1>5, <2>2, HeadCalm DEF Busy
  <2> QED
    BY <2>1, <2>2
<1> QED
  BY <1>3, <1>4, <1>5 DEF PinInv, NoneStores, Calm

(* Calls that come and wait, and those that get the turn.                   *)
LEMMA WaitingOn ==
  ASSUME TurnInv, PinInv, NEW c \in Calls, at[c] \in {"idle", "queued"},
         NEW s \in {"queued", "start"}, Go(c, s),
         server' = server, loaded' = loaded, run' = run, pinned' \in {pinned, None},
         \A r \in ModelRuns : r # c => tries'[r] = tries[r]
  PROVE  PinInv'
<1>1. at \in [Calls -> Places] /\ ModelRuns \subseteq Calls /\ Pins \subseteq Calls
  BY DEF TurnInv, Calls
<1>2. at'[c] = s /\ \A d \in Calls : d # c => at'[d] = at[d]
  BY <1>1 DEF Go
<1>3. NoneStores' = NoneStores /\ \A d \in Pins : at'[d] = "store" <=> at[d] = "store"
  BY <1>1, <1>2 DEF NoneStores
<1>4. \A r \in ModelRuns : Busy(r)' = Busy(r) /\ (Busy(r) => r # c)
  BY <1>1, <1>2 DEF Busy
<1>5. ASSUME NEW r \in ModelRuns, Busy(r)' PROVE AboutPin(r)'
  <2>1. AboutPin(r) /\ at'[r] = at[r] /\ ModelOf(r)' = ModelOf(r)
    BY <1>1, <1>2, <1>4, <1>5 DEF PinInv, ModelOf
  <2> QED
    BY <1>3, <2>1 DEF AboutPin
<1>6. ASSUME NEW d \in Pins, at'[d] = "store" PROVE Kept(d)'
  BY <1>3, <1>6 DEF PinInv, Kept
<1> QED
  BY <1>3, <1>4, <1>5, <1>6 DEF PinInv, Calm

(* The last step of a run.                                                  *)
LEMMA RunOver ==
  ASSUME TurnInv, NEW r \in ModelRuns, ~Waits(r), AboutPin(r), at[r] = "stop", Stop(r)
  PROVE  PinInv'
<1>1. at \in [Calls -> Places] /\ ModelRuns \subseteq Calls /\ Pins \subseteq Calls /\ r \notin Pins
  BY LocalRuntimeAssumption DEF TurnInv, Calls
<1>2. run.ready /\ NoneStores /\ server /\ pinned \in {run.pin, None}
        /\ (run.pin # None => run.pin \in loaded)
  BY DEF AboutPin
<1>3. run' = NoRun /\ Go(r, "idle") /\ pinned' = pinned /\ loaded' = loaded
  BY <1>2, Zenon DEF Stop, Done
<1>4. pinned # None => server'
  BY <1>2 DEF Stop
<1>5. \A c \in Calls : at'[c] = IF c = r THEN "idle" ELSE at[c]
  BY <1>1, <1>3 DEF Go
<1>6. NoneStores'
  BY <1>1, <1>2, <1>5 DEF NoneStores
<1>7. \A q \in ModelRuns : ~Busy(q)'
  BY <1>1, <1>5, HeadCalm DEF Busy
<1> QED
  BY <1>2, <1>3, <1>4, <1>6, <1>7 DEF PinInv, NoneStores

LEMMA RunStepPin ==
  ASSUME TurnInv, PinInv, run \in [pin : Models \union {None}, started : BOOLEAN, sole : BOOLEAN,
           ready : BOOLEAN],
         NEW r \in ModelRuns, RunStep(r), ~failed', ~overtaken'
  PROVE  PinInv'
<1>1. at \in [Calls -> Places] /\ r \in Calls /\ ModelRuns \subseteq Calls /\ Pins \subseteq Calls
        /\ r \notin Pins
  BY LocalRuntimeAssumption DEF TurnInv, Calls
<1>2. Busy(r) => AboutPin(r) /\ NoneStores /\ ~Waits(r)
  BY DEF PinInv, AboutPin, Busy, Waits
<1>3. ASSUME NEW s, Go(r, s) PROVE at'[r] = s
  BY <1>1, <1>3 DEF Go
<1>4. tries' = tries => ModelOf(r)' = ModelOf(r)
  BY DEF ModelOf
<1>5. ASSUME ~Waits(r), NoneStores, NEW s, Go(r, s) PROVE NoneStores'
  BY <1>1, <1>5 DEF NoneStores, Go
<1>6. CASE Prepare(r)
  <2>1. at[r] = "start" /\ ~Waits(r) /\ ~Busy(r)
    BY <1>6 DEF Prepare, At, Waits, Busy
  <2>2. NoneStores /\ server' /\ run' = [run EXCEPT !.pin = pinned, !.started = ~server]
        /\ Go(r, "list") /\ loaded' = loaded /\ pinned' = pinned
    BY <1>6 DEF Prepare, NoneStores
  <2>3. run = NoRun /\ (pinned # None => pinned \in loaded)
    BY <1>1, <2>1, <2>2, HeadCalm DEF PinInv, Calm
  <2>4. run'.pin = pinned /\ ~run'.ready
    BY <2>2, <2>3 DEF NoRun
  <2>5. AboutPin(r)'
    BY <1>3, <1>5, <2>1, <2>2, <2>3, <2>4 DEF AboutPin
  <2> QED
    BY <2>1, <2>2, <2>5, BusyOn
<1>7. CASE List(r)
  <2>1. at[r] = "list" /\ Busy(r)
    BY <1>7 DEF List, At, Busy
  <2>2. PICK memory \in {loaded} \union (IF MayFail("list") THEN {{}} ELSE {}) :
          /\ run' = [run EXCEPT !.sole = (memory = {ModelOf(r)})]
          /\ Go(r, IF memory = {ModelOf(r)} THEN "run" ELSE "unloadAll")
    BY <1>7 DEF List
  <2>3. run'.pin = run.pin /\ run'.ready = run.ready
    BY <2>2
  <2>4. server' = server /\ loaded' = loaded /\ pinned' = pinned /\ tries' = tries
    BY <1>7 DEF List
  <2>5. memory = {ModelOf(r)} => loaded = {ModelOf(r)}
    BY <2>2
  <2>6. CASE memory = {ModelOf(r)}
    <3>1. Go(r, "run") /\ loaded = {ModelOf(r)}
      BY <2>2, <2>5, <2>6
    <3>2. AboutPin(r)'
      BY <1>2, <1>3, <1>4, <1>5, <2>1, <2>3, <2>4, <3>1 DEF AboutPin
    <3> QED
      BY <1>2, <2>1, <3>1, <3>2, BusyOn
  <2>7. CASE memory # {ModelOf(r)}
    <3>1. Go(r, "unloadAll")
      BY <2>2, <2>7
    <3>2. AboutPin(r)'
      BY <1>2, <1>3, <1>4, <1>5, <2>1, <2>3, <2>4, <3>1 DEF AboutPin
    <3> QED
      BY <1>2, <2>1, <3>1, <3>2, BusyOn
  <2> QED
    BY <2>6, <2>7
<1>8. CASE UnloadAll(r)
  <2>1. at[r] = "unloadAll" /\ Busy(r)
    BY <1>8 DEF UnloadAll, At, Busy
  <2>2. loaded' = {} /\ Go(r, "load") /\ server' /\ pinned' = pinned /\ run' = run /\ tries' = tries
    BY <1>8 DEF UnloadAll
  <2>3. AboutPin(r)'
    BY <1>2, <1>3, <1>5, <2>1, <2>2 DEF AboutPin
  <2> QED
    BY <1>2, <2>1, <2>2, <2>3, BusyOn
<1>9. CASE LoadModel(r)
  <2>1. at[r] = "load" /\ Busy(r)
    BY <1>9 DEF LoadModel, At, Busy
  <2>2. loaded' = loaded \union {ModelOf(r)} /\ Go(r, "run") /\ server' = server /\ pinned' = pinned
        /\ run' = run /\ tries' = tries
    BY <1>9 DEF LoadModel
  <2>3. loaded' = {ModelOf(r)}
    BY <1>2, <2>1, <2>2 DEF AboutPin
  <2>4. AboutPin(r)'
    BY <1>2, <1>3, <1>4, <1>5, <2>1, <2>2, <2>3 DEF AboutPin
  <2> QED
    BY <1>2, <2>1, <2>2, <2>4, BusyOn
<1>10. CASE RunEnds(r)
  <2>1. at[r] = "run" /\ Busy(r)
    BY <1>10 DEF RunEnds, At, Busy
  <2>2. run' = [run EXCEPT !.ready = TRUE] /\ Go(r, "finally")
          /\ UNCHANGED <<server, loaded, pinned, tries>>
    BY <1>10 DEF RunEnds
  <2>3. run'.ready /\ run'.pin = run.pin
    BY <2>2
  <2>4. AboutPin(r)'
    BY <1>2, <1>3, <1>4, <1>5, <2>1, <2>2, <2>3 DEF AboutPin
  <2> QED
    BY <1>2, <2>1, <2>2, <2>4, BusyOn
<1>11. CASE Finally(r)
  <2>1. at[r] = "finally" /\ Busy(r)
    BY <1>11 DEF Finally, At, Busy
  <2>2. run.ready /\ loaded = {ModelOf(r)}
    BY <1>2, <2>1 DEF AboutPin
  <2>3. /\ loaded' = IF run.ready /\ ~run.sole
             /\ run.pin # ModelOf(r) THEN loaded \ {ModelOf(r)} ELSE loaded
        /\ Go(r, "restore") /\ UNCHANGED <<server, pinned, run, tries>>
    BY <1>11 DEF Finally
  <2>4. run.pin = ModelOf(r) => run.pin \in loaded'
    BY <2>2, <2>3
  <2>5. AboutPin(r)'
    BY <1>2, <1>3, <1>4, <1>5, <2>1, <2>2, <2>3, <2>4 DEF AboutPin
  <2> QED
    BY <1>2, <2>1, <2>3, <2>5, BusyOn
<1>12. CASE Restore(r)
  <2>1. at[r] = "restore" /\ Busy(r)
    BY <1>12 DEF Restore, At, Busy
  <2>2. /\ loaded' = IF run.pin \notin {None, ModelOf(r)} THEN loaded \union {run.pin} ELSE loaded
        /\ Go(r, "stop") /\ UNCHANGED <<server, pinned, run, tries>>
    BY <1>12 DEF Restore
  <2>3. run.pin # None => run.pin \in loaded'
    BY <1>2, <2>1, <2>2 DEF AboutPin
  <2>4. AboutPin(r)'
    BY <1>2, <1>3, <1>4, <1>5, <2>1, <2>2, <2>3 DEF AboutPin
  <2> QED
    BY <1>2, <2>1, <2>2, <2>4, BusyOn
<1>13. CASE Stop(r)
  <2>1. at[r] = "stop" /\ Busy(r)
    BY <1>13 DEF Stop, At, Busy
  <2> QED
    BY <1>2, <1>13, <2>1, RunOver
<1> QED
  BY <1>6, <1>7, <1>8, <1>9, <1>10, <1>11, <1>12, <1>13 DEF RunStep

LEMMA PinStepPin ==
  ASSUME TurnInv, PinPlaces, OrderInv, PinInv, NEW p \in Pins, PinStep(p), ~failed', ~overtaken'
  PROVE  PinInv'
<1>1. at \in [Calls -> Places] /\ p \in Calls /\ ModelRuns \subseteq Calls /\ Pins \subseteq Calls
        /\ p \notin ModelRuns
  BY LocalRuntimeAssumption DEF TurnInv, Calls
<1>2. ASSUME NEW s, Go(p, s)
      PROVE  /\ at'[p] = s /\ \A d \in Pins : d # p => at'[d] = at[d]
             /\ \A r \in ModelRuns : Busy(r)' = Busy(r)
  BY <1>1, <1>2 DEF Go, Busy
<1>3. ~Waits(p) => Calm
  BY <1>1, HeadCalm DEF Calm
<1>4. CASE PinSection(p)
  <2>1. at[p] = "start" /\ ~Waits(p)
    BY <1>4 DEF PinSection, At, Waits
  <2>2. server' = TRUE /\ loaded' = {PinOf[p]} /\ Go(p, "store") /\ NoneStores /\ run' = run
    BY <1>4 DEF PinSection, NoneStores
  <2>3. at'[p] = "store" /\ \A d \in Pins : at'[d] = "store" => d = p
    BY <1>2, <2>2 DEF NoneStores
  <2>4. Kept(p)' /\ ~NoneStores'
    BY <2>2, <2>3 DEF Kept, NoneStores
  <2>5. Calm'
    BY <1>2, <1>3, <2>1, <2>2 DEF Calm
  <2>6. run' = NoRun
    BY <1>3, <2>1, <2>2 DEF PinInv
  <2> QED
    BY <2>3, <2>4, <2>5, <2>6 DEF PinInv, Calm
<1>5. CASE StorePin(p)
  <2>1. /\ at[p] = "store" /\ pinned' = PinOf[p] /\ Go(p, "idle")
        /\ server' = server /\ loaded' = loaded /\ run' = run
    BY <1>5 DEF StorePin, At
  <2>2. Kept(p) /\ Calm
    BY <2>1 DEF PinInv, AboutPin, NoneStores, Calm
  <2>3. Calm' /\ run' = NoRun
    BY <1>2, <2>1, <2>2 DEF Calm, PinInv
  <2>4. \A d \in Pins : at'[d] # "store"
    BY <1>2, <2>1, <2>2 DEF Kept
  <2>5. server' /\ pinned' \in loaded'
    BY <2>1, <2>2 DEF Kept
  <2> QED
    BY <2>3, <2>4, <2>5 DEF PinInv, Calm
<1>6. CASE UnpinSection(p)
  <2>1. at[p] = "start" /\ ~Waits(p) /\ Unpinning(p)
    BY <1>6 DEF UnpinSection, At, Waits, Unpinning
  <2>2. Go(p, "idle") /\ UNCHANGED <<server, pinned, run>>
    BY <1>6 DEF UnpinSection
  <2>3. pinned = None /\ \A d \in Pins : at[d] # "store"
    BY <2>1 DEF OrderInv, WaitsFor
  <2>4. \A d \in Pins : at'[d] # "store"
    BY <1>2, <2>2, <2>3
  <2>5. Calm' /\ run' = NoRun
    BY <1>2, <1>3, <2>1, <2>2 DEF Calm, PinInv
  <2> QED
    BY <2>2, <2>3, <2>4, <2>5 DEF PinInv, Calm
<1>7. ~PinSectionFails(p)
  BY DEF PinSectionFails
<1> QED
  BY <1>4, <1>5, <1>6, <1>7 DEF PinStep

RunRecord == run \in [pin : Models \union {None}, started : BOOLEAN, sole : BOOLEAN, ready : BOOLEAN]

MemoryInv ==
  /\ pinned \in Models \union {None} /\ server \in BOOLEAN
  /\ RunRecord
  /\ overtaken \in BOOLEAN /\ failed \in BOOLEAN

LEMMA MemoryInvStep == MemoryInv /\ [RuntimeNext]_runtimeVars => MemoryInv'
<1> SUFFICES ASSUME MemoryInv, [RuntimeNext]_runtimeVars PROVE MemoryInv'
  OBVIOUS
<1> USE DEF MemoryInv, RunRecord
<1>1. NoRun \in [pin : Models \union {None}, started : BOOLEAN, sole : BOOLEAN, ready : BOOLEAN]
  BY DEF NoRun
<1>2. CASE Operator \/ UNCHANGED runtimeVars
  BY <1>2 DEF Operator, runtimeVars, callVars
<1>3. ASSUME NEW r \in ModelRuns, RunStep(r) PROVE MemoryInv'
  <2>1. CASE Prepare(r)
    BY <2>1 DEF Prepare
  <2>2. CASE List(r)
    BY <2>2 DEF List
  <2>3. CASE UnloadAll(r) \/ LoadModel(r) \/ RunEnds(r) \/ Restore(r)
    BY <2>3 DEF UnloadAll, LoadModel, RunEnds, Restore
  <2>4. CASE Finally(r)
    BY <1>1, <2>4 DEF Finally, Done
  <2>5. CASE Stop(r)
    BY <1>1, <2>5 DEF Stop, Done
  <2> QED
    BY <1>3, <2>1, <2>2, <2>3, <2>4, <2>5 DEF RunStep
<1>4. ASSUME NEW p \in Pins, PinLoad(p) \/ ClearPin(p) \/ PinStep(p) PROVE MemoryInv'
  BY <1>4, LocalRuntimeAssumption
     DEF PinLoad, ClearPin, PinStep, PinSection, PinSectionFails, StorePin, UnpinSection
<1>5. CASE CallStep
  BY <1>3, <1>4, <1>5 DEF CallStep, Turn, StartRun
<1> QED
  BY <1>2, <1>5 DEF RuntimeNext

(* What a failure or an overtaken pin call breaks stays broken, and that is *)
(* all that is allowed to break it.                                         *)
ResidentInv ==
  /\ MemoryInv /\ ChainInv /\ PinPlaces
  /\ ~overtaken => OrderInv /\ (~failed => PinInv)

LEMMA ResidentInvStep == TurnInv /\ ResidentInv /\ [RuntimeNext]_runtimeVars => ResidentInv'
<1> SUFFICES ASSUME TurnInv, ResidentInv, [RuntimeNext]_runtimeVars PROVE ResidentInv'
  OBVIOUS
<1>1. MemoryInv' /\ ChainInv' /\ PinPlaces'
  BY MemoryInvStep, ChainInvStep, PinPlacesStep DEF ResidentInv
<1>2. overtaken => overtaken'
  BY DEF RuntimeNext, Operator, CallStep, Turn, StartRun, RunStep, Prepare, List, UnloadAll, LoadModel,
         RunEnds, Finally, Restore, Stop, PinLoad, ClearPin, PinStep, PinSection, PinSectionFails,
         StorePin, UnpinSection, runtimeVars, callVars
<1>3. failed => failed'
  BY DEF RuntimeNext, Operator, CallStep, Turn, StartRun, RunStep, Prepare, List, UnloadAll, LoadModel,
         RunEnds, Finally, Restore, Stop, PinLoad, ClearPin, PinStep, PinSection, PinSectionFails,
         StorePin, UnpinSection, runtimeVars, callVars
<1>4. ASSUME ~overtaken' PROVE OrderInv'
  BY <1>2, <1>4, OrderInvStep DEF ResidentInv
<1>5. ASSUME ~overtaken', ~failed' PROVE PinInv'
  <2>1. OrderInv /\ PinInv /\ PinPlaces /\ RunRecord
    BY <1>2, <1>3, <1>5 DEF ResidentInv, MemoryInv
  <2>2. CASE UNCHANGED runtimeVars
    BY <2>1, <2>2 DEF runtimeVars, callVars, PinInv, Busy, AboutPin, NoneStores, ModelOf, Kept, Calm
  <2>3. ~Operator
    BY <1>5 DEF Operator
  <2>4. ASSUME NEW r \in ModelRuns, RunStep(r) PROVE PinInv'
    BY <1>5, <2>1, <2>4, RunStepPin DEF RunRecord
  <2>5. ASSUME NEW p \in Pins, PinStep(p) PROVE PinInv'
    BY <1>5, <2>1, <2>5, PinStepPin
  <2>6. ASSUME NEW c \in Calls, Turn(c) PROVE PinInv'
    BY <2>1, <2>6, WaitingOn DEF Turn, At
  <2>7. ASSUME NEW r \in ModelRuns, StartRun(r) PROVE PinInv'
    <3>1. /\ r \in Calls /\ at[r] = "idle" /\ Go(r, "queued")
          /\ \A q \in ModelRuns : q # r => tries'[q] = tries[q]
      BY <2>7 DEF StartRun, Join, At, Calls, TurnInv
    <3> QED
      BY <2>1, <2>7, <3>1, WaitingOn DEF StartRun
  <2>8. ASSUME NEW p \in Pins, PinLoad(p) \/ ClearPin(p) PROVE PinInv'
    <3>1. p \in Calls /\ at[p] = "idle" /\ Go(p, "queued") /\ pinned' \in {pinned, None}
          /\ UNCHANGED <<server, loaded, tries, run>>
      BY <2>8 DEF PinLoad, ClearPin, Join, At, Calls
    <3> QED
      BY <2>1, <3>1, WaitingOn
  <2>9. CASE CallStep
    BY <2>4, <2>5, <2>6, <2>7, <2>8, <2>9 DEF CallStep
  <2> QED
    BY <2>2, <2>3, <2>9 DEF RuntimeNext
<1> QED
  BY <1>1, <1>4, <1>5 DEF ResidentInv

LEMMA ResidentInit == RuntimeInit => TurnInv /\ ResidentInv
<1> SUFFICES ASSUME RuntimeInit PROVE TurnInv /\ ResidentInv
  OBVIOUS
<1>1. /\ server \in BOOLEAN /\ loaded = {} /\ pinned = None /\ turns = <<>>
      /\ at = [c \in Calls |-> "idle"] /\ tries = [r \in ModelRuns |-> 1] /\ run = NoRun
      /\ failed = FALSE /\ overtaken = FALSE
  BY DEF RuntimeInit
<1>2. \A c \in Calls : at[c] = "idle"
  BY <1>1
<1>3. turns \in Seq(Calls) /\ tries \in [ModelRuns -> Nat] /\ at \in [Calls -> Places] /\ Len(turns) = 0
  BY <1>1 DEF Places
<1>4. TurnInv
  BY <1>2, <1>3 DEF TurnInv, Waits
<1>5. \A p \in Pins : at[p] = "idle"
  BY <1>2 DEF Calls
<1>6. \A r \in ModelRuns : ~Busy(r)
  BY <1>2 DEF Calls, Busy
<1>7. MemoryInv
  BY <1>1 DEF MemoryInv, RunRecord, NoRun
<1>8. ChainInv
  BY <1>3 DEF ChainInv, Once
<1>9. PinPlaces /\ OrderInv
  BY <1>5 DEF PinPlaces, OrderInv, Unpinning
<1>10. PinInv
  BY <1>1, <1>5, <1>6 DEF PinInv
<1> QED
  BY <1>4, <1>7, <1>8, <1>9, <1>10 DEF ResidentInv

(* When no run, chat turn or pin call is under way the pinned model is in   *)
(* memory and the runtime is up, whatever they did in whichever order,      *)
(* unless a command failed or the pin call was overtaken                    *)
(* (job-runner.ts:138).                                                     *)
THEOREM PinnedModelStays == RuntimeSpec => []PinResident
<1>1. ResidentInv => PinResident
  <2> SUFFICES ASSUME ResidentInv, ~overtaken, ~failed, \A c \in Calls : at[c] = "idle", pinned # None
               PROVE  server /\ pinned \in loaded
    BY DEF PinResident, PinSticky
  <2>1. PinInv
    BY DEF ResidentInv
  <2>2. Calm /\ NoneStores
    BY DEF Calm, NoneStores, Busy, Calls
  <2> QED
    BY <2>1, <2>2 DEF PinInv
<1> QED
  BY <1>1, ResidentInit, ResidentInvStep, TurnInvStep, PTL DEF RuntimeSpec

(* Types.  The candidate a run is at is one of its list.                    *)
ModelTypes ==
  /\ loaded \subseteq Models /\ meddled \in BOOLEAN
  /\ \A r \in ModelRuns : tries[r] \in 1..Len(CandidatesOf[r])

LEMMA ModelTypesStep ==
  TurnInv /\ MemoryInv /\ ModelTypes /\ [RuntimeNext]_runtimeVars => ModelTypes'
<1> SUFFICES ASSUME TurnInv, MemoryInv, ModelTypes, [RuntimeNext]_runtimeVars PROVE ModelTypes'
  OBVIOUS
<1> DEFINE Tried == \A r \in ModelRuns : tries[r] \in 1..Len(CandidatesOf[r])
<1>1. \A r \in ModelRuns : /\ CandidatesOf[r] \in Seq(Models) /\ Len(CandidatesOf[r]) \in Nat \ {0}
                           /\ tries[r] \in 1..Len(CandidatesOf[r]) /\ ModelOf(r) \in Models
  <2> TAKE r \in ModelRuns
  <2>1. CandidatesOf[r] \in Seq(Models) /\ CandidatesOf[r] # <<>>
    BY LocalRuntimeAssumption
  <2>2. tries[r] \in 1..Len(CandidatesOf[r])
    BY DEF ModelTypes
  <2> QED
    BY <2>1, <2>2 DEF ModelOf
<1>2. \A p \in Pins : PinOf[p] # None => PinOf[p] \in Models
  BY LocalRuntimeAssumption
<1>3. meddled' \in BOOLEAN
  BY DEF RuntimeNext, runtimeVars, ModelTypes
<1>4. ASSUME NEW r \in ModelRuns, NEW u, Done(r, u) PROVE Tried'
  <2>1. CASE UNCHANGED tries
    BY <1>1, <2>1
  <2>2. CASE tries[r] < Len(CandidatesOf[r]) /\ tries' = [tries EXCEPT ![r] = @ + 1]
    <3>1. tries'[r] \in 1..Len(CandidatesOf[r])
      BY <1>1, <2>2 DEF TurnInv
    <3> QED
      BY <1>1, <2>2, <3>1 DEF TurnInv
  <2> QED
    BY <1>4, <2>1, <2>2 DEF Done
<1>5. ASSUME NEW r \in ModelRuns, RunStep(r) PROVE loaded' \subseteq Models /\ Tried'
  <2>1. loaded \subseteq Models /\ (run.pin # None => run.pin \in Models) /\ ModelOf(r) \in Models
    BY <1>1 DEF ModelTypes, MemoryInv, RunRecord
  <2>2. UNCHANGED tries => Tried'
    BY <1>1
  <2> HIDE DEF Tried
  <2>3. CASE Prepare(r) \/ List(r) \/ RunEnds(r)
    BY <2>1, <2>2, <2>3 DEF Prepare, List, RunEnds
  <2>4. CASE UnloadAll(r) \/ LoadModel(r)
    BY <2>1, <2>2, <2>4 DEF UnloadAll, LoadModel
  <2>5. CASE Finally(r)
    BY <1>4, <2>1, <2>2, <2>5 DEF Finally
  <2>6. CASE Restore(r)
    BY <2>1, <2>2, <2>6 DEF Restore
  <2>7. CASE Stop(r)
    BY <1>4, <2>1, <2>7 DEF Stop
  <2> QED
    BY <1>5, <2>3, <2>4, <2>5, <2>6, <2>7 DEF RunStep
<1>6. ASSUME NEW r \in ModelRuns, StartRun(r) PROVE loaded' \subseteq Models /\ Tried'
  <2>1. loaded' = loaded /\ tries' = [tries EXCEPT ![r] = 1]
    BY <1>6 DEF StartRun
  <2> QED
    BY <1>1, <2>1 DEF ModelTypes, TurnInv
<1>7. ASSUME NEW p \in Pins, PinLoad(p) \/ ClearPin(p) \/ PinStep(p)
      PROVE  loaded' \subseteq Models /\ Tried'
  <2>1. tries' = tries
    BY <1>7 DEF PinLoad, ClearPin, PinStep, PinSection, PinSectionFails, StorePin, UnpinSection
  <2>2. loaded' \subseteq Models
    BY <1>2, <1>7
       DEF PinLoad, ClearPin, PinStep, PinSection, PinSectionFails, StorePin, UnpinSection, ModelTypes
  <2> QED
    BY <1>1, <2>1, <2>2
<1>8. ASSUME Operator \/ UNCHANGED runtimeVars \/ \E c \in Calls : Turn(c)
      PROVE  loaded' \subseteq Models /\ Tried'
  <2>1. tries' = tries /\ loaded' \subseteq Models
    BY <1>8 DEF Operator, runtimeVars, callVars, Turn, ModelTypes
  <2> QED
    BY <1>1, <2>1
<1> HIDE DEF Tried
<1>9. loaded' \subseteq Models /\ Tried'
  BY <1>5, <1>6, <1>7, <1>8 DEF RuntimeNext, CallStep
<1> QED
  BY <1>3, <1>9 DEF ModelTypes, Tried

(* What is loaded and pinned are models, and a run that goes on to the next *)
(* candidate has one.                                                       *)
THEOREM RuntimeTypeCorrect == RuntimeSpec => []RuntimeTypeOK
<1>1. RuntimeInit => ModelTypes
  <2> SUFFICES ASSUME RuntimeInit, NEW r \in ModelRuns PROVE tries[r] \in 1..Len(CandidatesOf[r])
    BY DEF ModelTypes, RuntimeInit
  <2>1. CandidatesOf[r] \in Seq(Models) /\ CandidatesOf[r] # <<>> /\ tries[r] = 1
    BY LocalRuntimeAssumption DEF RuntimeInit
  <2>2. Len(CandidatesOf[r]) \in Nat \ {0}
    BY <2>1
  <2> QED
    BY <2>1, <2>2
<1>2. TurnInv /\ MemoryInv /\ ModelTypes => RuntimeTypeOK
  <2> SUFFICES ASSUME TurnInv, MemoryInv, ModelTypes PROVE RuntimeTypeOK
    OBVIOUS
  <2>1. tries \in [ModelRuns -> Nat \ {0}]
    <3>1. \A r \in ModelRuns : tries[r] \in Nat \ {0}
      BY DEF TurnInv, ModelTypes
    <3> QED
      BY <3>1 DEF TurnInv
  <2> QED
    BY <2>1 DEF TurnInv, MemoryInv, ModelTypes, RuntimeTypeOK, Places
<1>3. RuntimeInit => TurnInv /\ MemoryInv
  BY ResidentInit DEF ResidentInv
<1> QED
  BY <1>1, <1>2, <1>3, TurnInvStep, MemoryInvStep, ModelTypesStep, PTL DEF RuntimeSpec
=============================================================================
