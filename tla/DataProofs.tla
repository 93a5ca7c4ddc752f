----------------------------- MODULE DataProofs ------------------------------
(***************************************************************************)
(* What is stored and what is shown: the rows of the item bus as readers   *)
(* see them (ReadCache), the database across a restore (Restore), and the  *)
(* data of the workers in the operator's tab (DashboardData).              *)
(***************************************************************************)
EXTENDS ReadCache, Restore, DashboardData, TLAPS

-----------------------------------------------------------------------------
(*                              The read cache                             *)

Writing == {w \in Writers : writer[w] = "writing"}

(* Rows that are current were read when no write was under way: a writer    *)
(* that began before the read went to the database first, and one that      *)
(* began after it has ended its generation.                                 *)
CacheInv ==
  /\ read.current => Writing \subseteq read.ahead
  /\ read.current /\ read.rows # "unread" => read.rows = "fresh" /\ read.ahead = {}
  /\ \A r \in Readers :
       reader[r].at = "resume" /\ reader[r].current => reader[r].rows = "fresh" /\ Writing = {}
  /\ cached # "none" => cached = "fresh" /\ Writing = {}

LEMMA CacheTypeStep == CacheTypeOK /\ [CacheNext]_cacheVars => CacheTypeOK'
<1> SUFFICES ASSUME CacheTypeOK, [CacheNext]_cacheVars PROVE CacheTypeOK'
  OBVIOUS
<1> USE DEF CacheTypeOK
<1>1. ASSUME NEW w \in Writers, AskWrite(w) PROVE CacheTypeOK'
  BY <1>1 DEF AskWrite
<1>2. ASSUME NEW w \in Writers, Write(w) PROVE CacheTypeOK'
  <2>1. \A S \in {{"none", "fresh", "old"}, {"none", "unread", "fresh", "old"}} :
          \A x \in S : Aged(x) \in S
    BY DEF Aged
  <2>2. \A r \in Readers : [reader[r] EXCEPT !.rows = Aged(@)]
          \in [at : {"idle", "wait", "resume"}, current : BOOLEAN, rows : {"none", "fresh", "old"}]
    BY <2>1
  <2>3. /\ [read EXCEPT !.rows = Aged(@), !.ahead = @ \ {w}]
             \in [current : BOOLEAN, rows : {"none", "unread", "fresh", "old"},
                  ahead : SUBSET Writers]
        /\ [read EXCEPT !.ahead = @ \ {w}]
             \in [current : BOOLEAN, rows : {"none", "unread", "fresh", "old"},
                  ahead : SUBSET Writers]
    BY <2>1
  <2>4. writer' \in [Writers -> {"idle", "writing"}] /\ Aged(cached) \in {"none", "fresh", "old"}
    BY <1>2, <2>1 DEF Write
  <2>5. CASE reader' = [r \in Readers |-> [reader[r] EXCEPT !.rows = Aged(@)]]
    BY <1>2, <2>2, <2>3, <2>4, <2>5 DEF Write
  <2>6. CASE UNCHANGED <<cached, reader>> /\ read' = [read EXCEPT !.ahead = @ \ {w}]
    BY <2>3, <2>4, <2>6
  <2> QED
    BY <1>2, <2>5, <2>6 DEF Write
<1>3. ASSUME NEW r \in Readers, Ask(r) PROVE CacheTypeOK'
  BY <1>3 DEF Ask
<1>4. ASSUME NEW r \in Readers, Seed(r) PROVE CacheTypeOK'
  BY <1>4 DEF Seed, Idle
<1>5. CASE ReadRows
  BY <1>5 DEF ReadRows
<1>6. CASE Settle
  BY <1>6 DEF Settle, NoRead
<1>7. CASE ReadFails
  BY <1>7 DEF ReadFails, NoRead, Idle
<1>8. CASE UNCHANGED cacheVars
  BY <1>8 DEF cacheVars
<1> QED
  BY <1>1, <1>2, <1>3, <1>4, <1>5, <1>6, <1>7, <1>8 DEF CacheNext

(* Types, of the cache and of the read under way.                           *)
THEOREM CacheTypeCorrect == CacheSpec => []CacheTypeOK
<1>1. CacheInit => CacheTypeOK
  BY DEF CacheInit, CacheTypeOK, NoRead, Idle
<1> QED
  BY <1>1, CacheTypeStep, PTL DEF CacheSpec

LEMMA CacheInvStep == CacheTypeOK /\ CacheInv /\ [CacheNext]_cacheVars => CacheInv'
<1> SUFFICES ASSUME CacheTypeOK, CacheInv, [CacheNext]_cacheVars PROVE CacheInv'
  OBVIOUS
<1> USE DEF CacheTypeOK, CacheInv, Writing
<1>1. ASSUME NEW w \in Writers, AskWrite(w) PROVE CacheInv'
  BY <1>1 DEF AskWrite
<1>2. ASSUME NEW w \in Writers, Write(w) PROVE CacheInv'
  <2>1. cached = "none" /\ cached' = "none"
    BY <1>2 DEF Write, Aged
  <2>2. \A r \in Readers : ~(reader[r].at = "resume" /\ reader[r].current)
    BY <1>2 DEF Write
  <2>3. \A r \in Readers : reader'[r].at = reader[r].at /\ reader'[r].current = reader[r].current
    BY <1>2 DEF Write
  <2>4. read.current => read.rows = "unread"
    BY <1>2 DEF Write
  <2>5. /\ read'.current = read.current /\ read'.ahead = read.ahead \ {w}
        /\ read.rows = "unread" => read'.rows = "unread"
    BY <1>2 DEF Write, Aged
  <2>6. writer' \in [Writers -> {"idle", "writing"}] /\ Writing' = Writing \ {w}
    BY <1>2 DEF Write
  <2> QED
    BY <2>1, <2>2, <2>3, <2>4, <2>5, <2>6
<1>3. ASSUME NEW r \in Readers, Ask(r) PROVE CacheInv'
  BY <1>3 DEF Ask
<1>4. ASSUME NEW r \in Readers, Seed(r) PROVE CacheInv'
  BY <1>4 DEF Seed, Idle
<1>5. CASE ReadRows
  BY <1>5 DEF ReadRows
<1>6. CASE Settle
  BY <1>6 DEF Settle, NoRead
<1>7. CASE ReadFails
  BY <1>7 DEF ReadFails, NoRead, Idle
<1>8. CASE UNCHANGED cacheVars
  BY <1>8 DEF cacheVars
<1> QED
  BY <1>1, <1>2, <1>3, <1>4, <1>5, <1>6, <1>7, <1>8 DEF CacheNext

(* Whatever the number of readers and writers, the cache never holds rows   *)
(* that a write of its process has superseded (jobs/queue.ts:568).          *)
THEOREM CacheAlwaysFresh == CacheSpec => []CacheFresh
<1>1. CacheInit => CacheInv
  BY DEF CacheInit, CacheInv, Writing, NoRead, Idle
<1>2. CacheInv => CacheFresh
  BY DEF CacheInv, CacheFresh
<1> QED
  BY <1>1, <1>2, CacheTypeCorrect, CacheInvStep, PTL DEF CacheSpec

-----------------------------------------------------------------------------
(*                               The restore                               *)

(* Only a copy that was checked gets as far as the swap, and then the log   *)
(* of the database it replaces is gone.                                     *)
SwapInv ==
  /\ NeverPartial
  /\ main \in {"old", "backup"}
  /\ step \in {"dropLog", "swap"} => staging = "backup"
  /\ step = "swap" => wal = "none"
  /\ wal \in {"none", main}

(* The inductive invariant of a restore.                                    *)
THEOREM SwapInvariant == RestoreSpec => []SwapInv
<1>1. RestoreInit => SwapInv
  BY DEF RestoreInit, SwapInv, NeverPartial
<1>2. SwapInv /\ [RestoreNext]_restoreVars => SwapInv'
  <2> SUFFICES ASSUME SwapInv, [RestoreNext]_restoreVars PROVE SwapInv'
    OBVIOUS
  <2> USE DEF SwapInv, NeverPartial, disk, Advance, Fail
  <2>1. CASE UNCHANGED restoreVars
    BY <2>1 DEF restoreVars
  <2>2. CASE Commit \/ ScheduleRestore \/ Rot \/ Shutdown \/ CutOff \/ Boot
    BY <2>2 DEF Commit, ScheduleRestore, Rot, Shutdown, CutOff, Boot, Startup
  <2>3. CASE ReadMarker \/ VerifyBackup \/ KeepOld \/ OldKept
    BY <2>3 DEF ReadMarker, VerifyBackup, KeepOld, OldKept
  <2>4. CASE Stage \/ Staged \/ Reverify
    BY <2>4 DEF Stage, Staged, Reverify
  <2>5. CASE DropLog \/ Swap \/ Abort
    BY <2>5 DEF DropLog, Swap, Abort
  <2>6. CASE CancelPendingRestore \/ Open
    BY <2>6 DEF CancelPendingRestore, Open
  <2> QED
    BY <2>1, <2>2, <2>3, <2>4, <2>5, <2>6 DEF RestoreNext, ApplyPendingRestore
<1> QED BY <1>1, <1>2, PTL DEF RestoreSpec

(* "An observer sees either the old database or the new one, never a        *)
(* partial": applyPendingRestore opens a whole database with its own log.   *)
THEOREM RestoreIntact == RestoreSpec => []DatabaseIntact
<1>1. SwapInv => DatabaseIntact
  BY DEF SwapInv, OwnLog, DatabaseIntact
<1> QED BY SwapInvariant, <1>1, PTL

(* Types, of the files of the database and of startup.                      *)
THEOREM RestoreTypeCorrect == RestoreSpec => []RestoreTypeOK
<1>1. RestoreInit => RestoreTypeOK
  <2>1. RestoreInit => failed \in BOOLEAN
    BY Zenon DEF RestoreInit
  <2> QED
    BY <2>1, MaxCrashesAssumption DEF RestoreInit, RestoreTypeOK, Startup
<1>2. SwapInv /\ RestoreTypeOK /\ [RestoreNext]_restoreVars => RestoreTypeOK'
  <2> SUFFICES ASSUME SwapInv, RestoreTypeOK, [RestoreNext]_restoreVars PROVE RestoreTypeOK'
    OBVIOUS
  <2> USE DEF SwapInv, RestoreTypeOK, Startup, disk, Advance, Fail
  <2>1. CASE UNCHANGED restoreVars
    BY <2>1 DEF restoreVars
  <2>2. CASE Commit \/ ScheduleRestore \/ Rot \/ Shutdown \/ Boot
    BY <2>2 DEF Commit, ScheduleRestore, Rot, Shutdown, Boot
  <2>3. CASE CutOff
    BY <2>3, MaxCrashesAssumption DEF CutOff
  <2>4. CASE ReadMarker \/ VerifyBackup \/ KeepOld \/ OldKept
    BY <2>4 DEF ReadMarker, VerifyBackup, KeepOld, OldKept
  <2>5. CASE Stage \/ Staged \/ Reverify
    BY <2>5 DEF Stage, Staged, Reverify
  <2>6. CASE DropLog \/ Swap \/ Abort
    BY <2>6 DEF DropLog, Swap, Abort
  <2>7. CASE CancelPendingRestore \/ Open
    BY <2>7 DEF CancelPendingRestore, Open
  <2> QED
    BY <2>1, <2>2, <2>3, <2>4, <2>5, <2>6, <2>7 DEF RestoreNext, ApplyPendingRestore
<1> QED
  BY <1>1, <1>2, SwapInvariant, PTL DEF RestoreSpec

-----------------------------------------------------------------------------
Preparing == {"verify", "keep", "keeping", "stage", "staging", "reverify", "dropLog", "swap"}

(* Until the swap startup leaves the database as it found it, but for the   *)
(* log.                                                                     *)
FoundInv ==
  /\ step \in {"marker", "abort"} \union Preparing =>
       main = found[1] /\ wal \in {found[2], "none"}
  /\ found = <<found[1], found[2]>>

(* A program that was never cut off emptied the log when it stopped, and    *)
(* restores once; so what it keeps is all there was.                        *)
KeptInv ==
  /\ crashes \in Nat
  /\ crashes = 0 =>
       /\ step # "up" => wal = "none"
       /\ main = "backup" => step \notin Preparing /\ (marker = "none" \/ step = "cancel")
       /\ ~failed /\ step \in {"stage", "staging", "reverify", "dropLog", "swap"} => pre = "old"
       /\ ~failed /\ main = "backup" => pre = "old"

LEMMA FoundStep == FoundInv /\ [RestoreNext]_restoreVars => FoundInv'
<1> SUFFICES ASSUME FoundInv, [RestoreNext]_restoreVars PROVE FoundInv'
  OBVIOUS
<1> USE DEF FoundInv, Preparing, disk, Advance, Fail
<1>1. CASE UNCHANGED restoreVars
  BY <1>1 DEF restoreVars
<1>2. CASE Commit \/ ScheduleRestore \/ Rot \/ Shutdown \/ CutOff \/ Boot
  BY <1>2 DEF Commit, ScheduleRestore, Rot, Shutdown, CutOff, Boot
<1>3. CASE ReadMarker \/ VerifyBackup \/ KeepOld \/ OldKept
  BY <1>3 DEF ReadMarker, VerifyBackup, KeepOld, OldKept
<1>4. CASE Stage \/ Staged \/ Reverify
  BY <1>4 DEF Stage, Staged, Reverify
<1>5. CASE DropLog \/ Swap \/ Abort
  BY <1>5 DEF DropLog, Swap, Abort
<1>6. CASE CancelPendingRestore \/ Open
  BY <1>6 DEF CancelPendingRestore, Open
<1> QED
  BY <1>1, <1>2, <1>3, <1>4, <1>5, <1>6 DEF RestoreNext, ApplyPendingRestore

LEMMA KeptStep == SwapInv /\ KeptInv /\ [RestoreNext]_restoreVars => KeptInv'
<1> SUFFICES ASSUME SwapInv, KeptInv, [RestoreNext]_restoreVars PROVE KeptInv'
  OBVIOUS
<1> USE DEF SwapInv, KeptInv, Preparing, disk, Advance, Fail
<1>1. CASE UNCHANGED restoreVars
  BY <1>1 DEF restoreVars
<1>2. CASE Commit \/ ScheduleRestore \/ Rot \/ Shutdown \/ Boot
  BY <1>2 DEF Commit, ScheduleRestore, Rot, Shutdown, Boot
<1>3. CASE CutOff
  <2>1. crashes' \in Nat /\ crashes' # 0
    BY <1>3, SMT DEF CutOff
  <2> QED BY <2>1
<1>4. CASE ReadMarker \/ VerifyBackup \/ KeepOld
  BY <1>4 DEF ReadMarker, VerifyBackup, KeepOld
<1>5. CASE OldKept
  BY <1>5 DEF OldKept
<1>6. CASE Stage \/ Staged \/ Reverify
  BY <1>6 DEF Stage, Staged, Reverify
<1>7. CASE DropLog \/ Swap \/ Abort
  BY <1>7 DEF DropLog, Swap, Abort
<1>8. CASE CancelPendingRestore \/ Open
  BY <1>8 DEF CancelPendingRestore, Open
<1> QED
  BY <1>1, <1>2, <1>3, <1>4, <1>5, <1>6, <1>7, <1>8 DEF RestoreNext, ApplyPendingRestore

(* A restore that is given up leaves the installation as it was, and one    *)
(* that is carried out keeps a complete copy of what it replaced, unless    *)
(* something was cut off or failed (app-backup.ts:245, 295).                *)
THEOREM RestoreKeepsOutgoing == RestoreSpec => []OutgoingSafe
<1>1. RestoreInit => FoundInv /\ KeptInv
  BY DEF RestoreInit, FoundInv, KeptInv, Preparing
<1>2. FoundInv /\ KeptInv => OutgoingSafe
  BY DEF FoundInv, KeptInv, Preparing, OutgoingSafe, AbortLeavesAll, OutgoingKept
<1> QED
  BY <1>1, <1>2, FoundStep, KeptStep, SwapInvariant, PTL DEF RestoreSpec

-----------------------------------------------------------------------------
(*                           The dashboard's data                          *)

CallType == [at : {"none", "waits", "sent"}, ids : SUBSET Slices, on : SUBSET Fetches,
             got : [Slices -> 0..Unread]]

(* A call that waits has read nothing, and no request reads ahead.          *)
Reads ==
  /\ MaxChanges \in Nat /\ Unread = MaxChanges + 1 /\ Unread \in Nat
  /\ served \in [Slices -> 0..MaxChanges]
  /\ fetch \in [Fetches -> CallType]
  /\ \A f \in Fetches, w \in Slices :
       /\ fetch[f].at = "waits" => fetch[f].got[w] = Unread
       /\ fetch[f].got[w] = Unread \/ fetch[f].got[w] <= served[w]

(* What the tab will fetch: events on their way, those it has gathered, and *)
(* calls that have not read an earlier version.                             *)
Announced(w) == \E e \in events : w \in Scope(e)
Awaited(w) == timer /\ (pending.full \/ w \in pending.ids)
Requested(f, w) ==
  /\ w \in Scope(fetch[f].ids)
  /\ \/ fetch[f].at = "waits"
     \/ fetch[f].at = "sent" /\ fetch[f].got[w] \in {Unread, served[w]}
Under(w) == \E f \in Fetches : Requested(f, w)
Seen(w) == w \in missed \/ shown[w] = served[w]

DashInv ==
  /\ Reads
  /\ pending \in [ids : SUBSET Slices, full : BOOLEAN] /\ events \subseteq SUBSET Slices
  /\ \A w \in Slices : Seen(w) \/ ~open \/ ~visible \/ Announced(w) \/ Awaited(w) \/ Under(w)

LEMMA CallOfType == NoFetch \in CallType /\ (\A w \in Slices : NoFetch.got[w] = Unread)
  /\ NoFetch.at = "none"
<1>1. Unread \in 0..Unread
  BY DashboardAssumption DEF Unread
<1>2. [w \in Slices |-> Unread] \in [Slices -> 0..Unread]
  BY <1>1
<1> QED
  BY <1>2 DEF NoFetch, CallType, All

(* A call of fetchSection covers what it asks for, by its own request or by *)
(* the one it joins, except what that one has read too early.               *)
LEMMA FetchCovers ==
  ASSUME Reads, NEW ids \in SUBSET Slices, Fetch(ids), served' = served
  PROVE  /\ Reads' /\ missed \subseteq missed'
         /\ \A w \in Slices : Under(w) => Under(w)'
         /\ \A w \in Scope(ids) : w \in Slices => Under(w)' \/ w \in missed'
<1> DEFINE call == [NoFetch EXCEPT !.ids = ids, !.on = First(ids),
                                   !.at = IF First(ids) = {} THEN "sent" ELSE "waits"]
<1>1. CASE First(ids) = {} /\ Same(ids, Sent) # {} /\ missed' = missed \union TooLate(ids)
             /\ UNCHANGED fetch
  <2>1. PICK f \in Sent : fetch[f].ids = ids
    BY <1>1 DEF Same
  <2>2. f \in Fetches /\ fetch[f].at = "sent" /\ f \in Same(ids, Sent)
    BY <2>1 DEF Sent, Same
  <2>3. ASSUME NEW w \in Scope(ids), w \in Slices PROVE Under(w)' \/ w \in missed'
    <3>1. fetch[f].got[w] = Unread \/ fetch[f].got[w] <= served[w]
      BY <2>2, <2>3 DEF Reads
    <3>2. fetch[f].got[w] \in 0..Unread /\ served[w] \in Nat /\ Unread \in Nat
      BY <2>2, <2>3 DEF Reads, CallType
    <3>3. fetch[f].got[w] < served[w] => w \in missed'
      BY <1>1, <2>2, <2>3 DEF TooLate
    <3>4. fetch[f].got[w] \in {Unread, served[w]} => Under(w)'
      BY <1>1, <2>1, <2>2, <2>3 DEF Under, Requested
    <3> QED
      BY <3>1, <3>2, <3>3, <3>4
  <2> QED
    BY <1>1, <2>3 DEF Reads, Under, Requested
<1>2. CASE (\E f \in Free : fetch' = [fetch EXCEPT ![f] = call]) /\ UNCHANGED missed
  <2>1. PICK f \in Free : fetch' = [fetch EXCEPT ![f] = call]
    BY <1>2
  <2>2. f \in Fetches /\ fetch[f].at = "none"
    BY <2>1 DEF Free
  <2>3. /\ call \in CallType /\ call.ids = ids /\ call.at \in {"sent", "waits"}
        /\ \A w \in Slices : call.got[w] = Unread
    <3>1. First(ids) \subseteq Fetches
      BY DEF First, Sent
    <3> QED
      BY <3>1, CallOfType DEF CallType
  <2> HIDE DEF call
  <2>4. fetch' \in [Fetches -> CallType] /\ fetch'[f] = call
          /\ \A g \in Fetches : g # f => fetch'[g] = fetch[g]
    BY <2>1, <2>2, <2>3 DEF Reads
  <2>5. Reads'
    BY <2>3, <2>4 DEF Reads, Unread
  <2>6. \A w \in Slices : Under(w) => Under(w)'
    BY <2>2, <2>4 DEF Under, Requested, Unread
  <2>7. \A w \in Scope(ids) : w \in Slices => Requested(f, w)'
    BY <2>3, <2>4 DEF Requested, Unread, Scope, All
  <2> QED
    BY <1>2, <2>2, <2>5, <2>6, <2>7 DEF Under
<1> QED
  BY <1>1, <1>2 DEF Fetch

(* When a request is over, the calls that awaited it are sent, or there is  *)
(* another one for what they ask.                                           *)
LEMMA OnwardCovers ==
  ASSUME Reads, NEW f \in Sent, fetch' = Onward(f), served' = served
  PROVE  /\ Reads'
         /\ \A g \in Fetches \ {f}, w \in Slices \ JoinedLate(f) : Requested(g, w) => Under(w)'
<1>1. f \in Fetches /\ fetch[f].at = "sent"
  BY DEF Sent
<1>2. ASSUME NEW g \in Fetches PROVE
        \/ fetch'[g] = NoFetch /\ (g = f \/ (g \in Woken(f) /\ Joins(g, f)))
        \/ g # f /\ g \in Woken(f) /\ ~Joins(g, f)
             /\ fetch'[g] = [fetch[g] EXCEPT !.at = "sent", !.on = {}]
        \/ g # f /\ g \notin Woken(f) /\ fetch'[g] = [fetch[g] EXCEPT !.on = @ \ {f}]
  BY <1>2 DEF Onward
<1>3. ASSUME NEW g \in Fetches PROVE
        /\ fetch[g] \in CallType
        /\ fetch'[g] \in CallType
        /\ fetch'[g] = NoFetch \/ (fetch'[g].got = fetch[g].got /\ fetch'[g].ids = fetch[g].ids)
        /\ fetch'[g].at = "waits" => fetch[g].at = "waits"
  <2>1. fetch[g] \in CallType
    BY DEF Reads
  <2>2. CASE fetch'[g] = NoFetch
    BY <2>1, <2>2, CallOfType
  <2>3. CASE fetch'[g] = [fetch[g] EXCEPT !.at = "sent", !.on = {}]
    BY <2>1, <2>3 DEF CallType
  <2>4. CASE fetch'[g] = [fetch[g] EXCEPT !.on = @ \ {f}]
    BY <2>1, <2>4 DEF CallType
  <2> QED
    BY <1>2, <2>2, <2>3, <2>4
<1>4. fetch' \in [Fetches -> CallType]
  <2>1. fetch' = [g \in Fetches |-> fetch'[g]]
    BY DEF Onward
  <2> QED
    BY <1>3, <2>1
<1>5. Reads'
  <2>1. ASSUME NEW g \in Fetches, NEW w \in Slices
        PROVE  /\ fetch'[g].at = "waits" => fetch'[g].got[w] = Unread
               /\ fetch'[g].got[w] = Unread \/ fetch'[g].got[w] <= served[w]
    BY <1>3, CallOfType DEF Reads
  <2> QED
    BY <1>4, <2>1 DEF Reads, Unread
<1>6. ASSUME NEW g \in Fetches, g # f, fetch[g].at = "sent" PROVE
        fetch'[g].at = "sent" /\ fetch'[g].ids = fetch[g].ids /\ fetch'[g].got = fetch[g].got
  <2>1. g \notin Woken(f) /\ fetch[g] \in CallType
    BY <1>3, <1>6 DEF Woken
  <2> QED
    BY <1>2, <1>6, <2>1 DEF CallType
<1>7. ASSUME NEW g \in Fetches, NEW w \in Slices, w \in Scope(fetch[g].ids), g \in Woken(f),
               ~Joins(g, f)
      PROVE  Under(w)'
  <2>1. fetch[g].at = "waits" /\ g # f /\ fetch[g] \in CallType /\ fetch[g].got[w] = Unread
    BY <1>1, <1>3, <1>7 DEF Woken, Reads
  <2>2. fetch'[g].at = "sent" /\ fetch'[g].ids = fetch[g].ids /\ fetch'[g].got[w] = Unread
    BY <1>2, <1>7, <2>1 DEF CallType
  <2> QED
    BY <1>7, <2>2 DEF Under, Requested, Scope, All, Unread
<1>8. ASSUME NEW g \in Fetches, g # f, NEW w \in Slices, w \notin JoinedLate(f), Requested(g, w)
      PROVE  Under(w)'
  <2>1. w \in Scope(fetch[g].ids)
    BY <1>8 DEF Requested
  <2>2. CASE fetch[g].at = "sent"
    BY <1>6, <1>8, <2>2 DEF Under, Requested, Scope, All, Unread
  <2>3. CASE g \in Woken(f) /\ Same(fetch[g].ids, Sent \ {f}) # {}
    <3>1. PICK h \in Sent \ {f} : fetch[h].ids = fetch[g].ids
      BY <2>3 DEF Same
    <3>2. h \in Fetches /\ h # f /\ fetch[h].at = "sent" /\ h \in Same(fetch[g].ids, Sent \ {f})
      BY <3>1 DEF Sent, Same
    <3>3. ~(fetch[h].got[w] < served[w])
      <4> DEFINE Late(k) == {v \in Scope(fetch[k].ids) :
                              \E i \in Same(fetch[k].ids, Sent \ {f}) : fetch[i].got[v] < served[v]}
      <4>1. fetch[h].got[w] < served[w] => w \in Late(g)
        BY <2>1, <3>2
      <4>2. Late(g) \subseteq JoinedLate(f)
        BY <2>3 DEF JoinedLate
      <4> HIDE DEF Late
      <4> QED
        BY <1>8, <4>1, <4>2
    <3>4. fetch[h].got[w] \in 0..Unread /\ served[w] \in Nat /\ Unread \in Nat
          /\ (fetch[h].got[w] = Unread \/ fetch[h].got[w] <= served[w])
      BY <3>2 DEF Reads, CallType
    <3>5. fetch[h].got[w] \in {Unread, served[w]}
      BY <3>3, <3>4
    <3> QED
      BY <1>6, <2>1, <3>1, <3>2, <3>5 DEF Under, Requested, Scope, All, Unread
  <2>4. CASE g \in Woken(f) /\ Same(fetch[g].ids, Sent \ {f}) = {}
    <3> DEFINE Alike(ids) == CHOOSE h \in Woken(f) : fetch[h].ids = ids
               k == Alike(fetch[g].ids)
    <3>1. k \in Woken(f) /\ fetch[k].ids = fetch[g].ids
      BY <2>4
    <3>2. k = Alike(fetch[k].ids)
      BY <3>1
    <3>3. k \in Fetches /\ ~Joins(k, f)
      BY <2>4, <3>1, <3>2 DEF Joins, Woken
    <3> QED
      BY <1>7, <2>1, <3>1, <3>3
  <2>5. CASE g \notin Woken(f) /\ fetch[g].at = "waits"
    <3>1. fetch'[g].at = "waits" /\ fetch'[g].ids = fetch[g].ids
      <4>1. fetch'[g] = [fetch[g] EXCEPT !.on = @ \ {f}]
        BY <1>2, <1>8, <2>5
      <4>2. fetch[g] \in CallType
        BY <1>3
      <4> QED
        BY <2>5, <4>1, <4>2 DEF CallType
    <3> QED
      BY <2>1, <3>1 DEF Under, Requested, Scope, All
  <2> QED
    BY <1>8, <2>2, <2>3, <2>4, <2>5 DEF Requested
<1> QED
  BY <1>5, <1>8

LEMMA DashStep == DashInv /\ [DashboardNext]_dashboardVars => DashInv'
<1> SUFFICES ASSUME DashInv, [DashboardNext]_dashboardVars PROVE DashInv'
  OBVIOUS
<1> DEFINE Covered(w) == Seen(w) \/ ~open \/ ~visible \/ Announced(w) \/ Awaited(w) \/ Under(w)
<1>1. /\ Reads /\ pending \in [ids : SUBSET Slices, full : BOOLEAN] /\ events \subseteq SUBSET Slices
      /\ MaxChanges \in Nat /\ served \in [Slices -> 0..MaxChanges] /\ fetch \in [Fetches -> CallType]
      /\ \A w \in Slices : Covered(w)
  BY DEF DashInv, Reads
<1>2. ASSUME NEW ids \in SUBSET Slices, Gather(ids)
      PROVE  /\ pending' \in [ids : SUBSET Slices, full : BOOLEAN]
             /\ \A w \in Slices : Awaited(w) \/ w \in Scope(ids) => Awaited(w)'
  <2>1. /\ pending' = IF ids = All THEN [pending EXCEPT !.full = TRUE]
             ELSE [pending EXCEPT !.ids = @ \union ids]
        /\ timer' = TRUE
    BY <1>2 DEF Gather
  <2>2. CASE ids = All
    BY <1>1, <2>1, <2>2 DEF Awaited
  <2>3. CASE ids # All
    BY <1>1, <2>1, <2>3 DEF Awaited, Scope
  <2> QED
    BY <2>2, <2>3
<1>3. ASSUME NEW w \in Slices, NEW named \in SUBSET Slices, Changes(w, named),
             UNCHANGED <<shown, pending, timer, fetch, open, visible>>,
             missed \subseteq missed', w \in missed' \/ ~open \/ ~visible \/ w \in Scope(named)
      PROVE  DashInv'
  <2>1. /\ served' = [served EXCEPT ![w] = @ + 1] /\ served[w] < MaxChanges
        /\ UNCHANGED <<shown, pending, timer, fetch, open, visible>>
    BY <1>3 DEF Changes
  <2>2. events' = IF open THEN events \union {named} ELSE events
    BY <1>3 DEF Changes
  <2>4. /\ served' \in [Slices -> 0..MaxChanges] /\ served'[w] = served[w] + 1
        /\ \A v \in Slices : v # w => served'[v] = served[v]
    BY <1>1, <2>1
  <2>5. Reads'
    <3>1. ASSUME NEW f \in Fetches, NEW v \in Slices
          PROVE  fetch[f].got[v] = Unread \/ fetch[f].got[v] <= served'[v]
      <4>1. fetch[f].got[v] \in 0..Unread /\ served[v] \in Nat /\ Unread \in Nat
        BY <1>1 DEF CallType, Reads
      <4>2. fetch[f].got[v] = Unread \/ fetch[f].got[v] <= served[v]
        BY <1>1 DEF Reads
      <4>3. served'[v] \in Nat /\ served[v] <= served'[v]
        BY <2>4, <4>1
      <4> QED
        BY <4>1, <4>2, <4>3
    <3> QED
      BY <1>1, <2>1, <2>4, <3>1 DEF Reads, Unread
  <2>6. ASSUME NEW v \in Slices PROVE Covered(v)'
    <3>1. CASE v = w
      BY <1>1, <1>3, <2>1, <2>2, <3>1 DEF Announced, Scope, Seen
    <3>2. CASE v # w
      BY <1>1, <1>3, <2>1, <2>2, <2>4, <3>2 DEF Seen, Announced, Awaited, Under, Requested, Scope, Unread
    <3> QED
      BY <3>1, <3>2
  <2> QED
    BY <1>1, <2>1, <2>2, <2>5, <2>6 DEF DashInv
<1>16. ASSUME NEW w \in Slices, Change(w) PROVE DashInv'
  <2>1. PICK named \in {{w}, All} : Changes(w, named)
    BY <1>16 DEF Change
  <2>2. named \in SUBSET Slices /\ w \in Scope(named)
    BY <2>1 DEF Scope, All
  <2> QED
    BY <1>3, <1>16, <2>1, <2>2 DEF Change
<1>17. ASSUME NEW v \in Slices, NEW w \in Slices, Feed(v, w) PROVE DashInv'
  <2>1. /\ Changes(w, {v}) /\ {v} \in SUBSET Slices
        /\ UNCHANGED <<shown, pending, timer, fetch, open, visible>>
        /\ missed' = IF open /\ visible THEN missed \union {w} ELSE missed
    BY <1>17 DEF Feed
  <2> QED
    BY <1>3, <2>1
<1>4. ASSUME NEW f \in Fetches, NEW w \in Slices, ReadSlice(f, w) PROVE DashInv'
  <2>1. /\ f \in Sent /\ w \in Scope(fetch[f].ids) /\ fetch[f].got[w] = Unread
        /\ fetch' = [fetch EXCEPT ![f].got[w] = served[w]]
        /\ UNCHANGED <<served, shown, events, pending, timer, open, visible, missed>>
    BY <1>4 DEF ReadSlice
  <2>2. fetch[f] \in CallType /\ fetch[f].got \in [Slices -> 0..Unread] /\ served[w] \in 0..Unread
          /\ fetch[f].at = "sent"
    BY <1>1, <2>1 DEF CallType, Unread, Sent
  <2> DEFINE got == [fetch[f].got EXCEPT ![w] = served[w]]
  <2>3. got \in [Slices -> 0..Unread] /\ got[w] = served[w]
          /\ \A v \in Slices : v # w => got[v] = fetch[f].got[v]
    BY <2>2
  <2>4. fetch' = [fetch EXCEPT ![f] = [fetch[f] EXCEPT !.got = got]]
    BY <2>1
  <2> HIDE DEF got
  <2>5. /\ fetch' \in [Fetches -> CallType] /\ fetch'[f].at = fetch[f].at
             /\ fetch'[f].ids = fetch[f].ids
        /\ fetch'[f].got = got /\ \A g \in Fetches : g # f => fetch'[g] = fetch[g]
    BY <1>1, <2>2, <2>3, <2>4 DEF CallType
  <2>6. Reads'
    BY <1>1, <2>1, <2>2, <2>3, <2>5 DEF Reads, Unread
  <2>7. \A v \in Slices : Under(v) => Under(v)'
    BY <2>1, <2>3, <2>5 DEF Under, Requested, Scope, All, Unread
  <2> QED
    BY <1>1, <2>1, <2>6, <2>7 DEF DashInv, Seen, Announced, Awaited
<1>5. ASSUME NEW f \in Fetches, Receive(f) PROVE DashInv'
  <2>1. /\ f \in Sent /\ \A w \in Scope(fetch[f].ids) : fetch[f].got[w] # Unread
        /\ shown' = Merged(f) /\ fetch' = Onward(f)
        /\ missed' = {w \in missed \union JoinedLate(f) \union {v \in Slices : shown'[v] < shown[v]} :
                        shown'[w] # served[w]}
        /\ UNCHANGED <<served, events, pending, timer, open, visible>>
    BY <1>5 DEF Receive
  <2>2. Reads' /\ \A g \in Fetches \ {f}, w \in Slices \ JoinedLate(f) : Requested(g, w) => Under(w)'
    BY <1>1, <2>1, OnwardCovers
  <2>3. ASSUME NEW w \in Slices PROVE Covered(w)'
    <3>1. CASE w \in missed \union JoinedLate(f)
      BY <2>1, <3>1 DEF Seen
    <3>2. CASE shown[w] = served[w]
      <4>1. CASE w \in Scope(fetch[f].ids)
        <5>1. shown'[w] = fetch[f].got[w] /\ fetch[f].got[w] # Unread
          BY <2>1, <4>1 DEF Merged
        <5>2. fetch[f].got[w] \in Nat /\ served[w] \in Nat /\ fetch[f].got[w] <= served[w]
          BY <1>1, <5>1 DEF Reads, CallType
        <5>3. shown'[w] = served[w] \/ shown'[w] < shown[w]
          BY <3>2, <5>1, <5>2
        <5> QED
          BY <2>1, <5>3 DEF Seen
      <4>2. CASE w \notin Scope(fetch[f].ids)
        BY <2>1, <3>2, <4>2 DEF Merged, Seen
      <4> QED
        BY <4>1, <4>2
    <3>3. CASE ~open \/ ~visible \/ Announced(w) \/ Awaited(w)
      BY <2>1, <3>3 DEF Announced, Awaited
    <3>4. CASE Requested(f, w)
      <4>1. w \in Scope(fetch[f].ids) /\ fetch[f].got[w] = served[w]
        BY <2>1, <3>4 DEF Requested, Sent
      <4> QED
        BY <2>1, <4>1 DEF Merged, Seen
    <3>5. CASE w \notin JoinedLate(f) /\ \E g \in Fetches \ {f} : Requested(g, w)
      BY <2>2, <3>5
    <3> QED
      BY <1>1, <3>1, <3>2, <3>3, <3>4, <3>5 DEF Seen, Under
  <2> QED
    BY <1>1, <2>1, <2>2, <2>3 DEF DashInv
<1>6. ASSUME NEW f \in Fetches, Fails(f) PROVE DashInv'
  <2>1. /\ f \in Sent /\ fetch' = Onward(f)
        /\ missed' = missed \union JoinedLate(f)
                          \union {w \in Scope(fetch[f].ids) : shown[w] # served[w]}
        /\ UNCHANGED <<served, shown, events, pending, timer, open, visible>>
    BY <1>6 DEF Fails
  <2>2. Reads' /\ \A g \in Fetches \ {f}, w \in Slices \ JoinedLate(f) : Requested(g, w) => Under(w)'
    BY <1>1, <2>1, OnwardCovers
  <2>3. ASSUME NEW w \in Slices PROVE Covered(w)'
    <3>1. CASE Requested(f, w)
      BY <2>1, <3>1 DEF Requested, Seen
    <3>2. CASE w \notin JoinedLate(f) /\ \E g \in Fetches \ {f} : Requested(g, w)
      BY <2>2, <3>2
    <3> QED
      BY <1>1, <2>1, <3>1, <3>2 DEF Seen, Under, Announced, Awaited
  <2> QED
    BY <1>1, <2>1, <2>2, <2>3 DEF DashInv
<1>7. ASSUME NEW e \in events, Deliver(e) PROVE DashInv'
  <2>1. /\ events' = events \ {e} /\ Gather(e) /\ e \in SUBSET Slices
        /\ UNCHANGED <<served, shown, fetch, open, visible, missed>>
    BY <1>1, <1>7 DEF Deliver
  <2>2. \A w \in Slices : Announced(w) => Announced(w)' \/ w \in Scope(e)
    BY <2>1 DEF Announced
  <2> QED
    BY <1>1, <1>2, <2>1, <2>2 DEF DashInv, Reads, Unread, Seen, Under, Requested
<1>8. ASSUME NEW ids \in SUBSET Slices, Fetch(ids), UNCHANGED <<served, shown, events, open>>,
             pending' \in [ids : SUBSET Slices, full : BOOLEAN],
             \A w \in Slices : Awaited(w) => Awaited(w)' \/ w \in Scope(ids),
             visible' = visible \/ ids = All
      PROVE  DashInv'
  <2>1. /\ Reads' /\ missed \subseteq missed'
        /\ \A w \in Slices : Under(w) => Under(w)'
        /\ \A w \in Scope(ids) : w \in Slices => Under(w)' \/ w \in missed'
    BY <1>1, <1>8, FetchCovers
  <2>2. ASSUME NEW w \in Slices PROVE Covered(w)'
    <3>1. ids = All => w \in Scope(ids)
      BY DEF Scope
    <3> QED
      BY <1>1, <1>8, <2>1, <3>1 DEF Seen, Announced
  <2> QED
    BY <1>1, <1>8, <2>1, <2>2 DEF DashInv
<1>9. CASE TimerEnds
  <2>1. /\ timer /\ timer' = FALSE /\ pending' = NothingPending
        /\ IF visible THEN Fetch(Gathered) ELSE UNCHANGED <<fetch, missed>>
        /\ UNCHANGED <<served, shown, events, open, visible>>
    BY <1>9 DEF TimerEnds
  <2>2. pending' \in [ids : SUBSET Slices, full : BOOLEAN] /\ Gathered \in SUBSET Slices
    BY <1>1, <2>1 DEF NothingPending, Gathered, All
  <2>3. \A w \in Slices : Awaited(w) => w \in Scope(Gathered)
    BY <1>1 DEF Awaited, Scope, Gathered, All
  <2>4. CASE visible
    BY <1>8, <2>1, <2>2, <2>3, <2>4
  <2>5. CASE ~visible
    BY <1>1, <2>1, <2>2, <2>5 DEF DashInv, Reads, Unread
  <2> QED
    BY <2>4, <2>5
<1>10. All \in SUBSET Slices
  BY DEF All
<1>11. CASE Refresh
  BY <1>1, <1>8, <1>10, <1>11 DEF Refresh, Awaited
<1>12. CASE Breaks \/ Hides
  BY <1>1, <1>12 DEF Breaks, Hides, DashInv, Reads, Unread, Seen, Announced, Awaited, Under, Requested
<1>13. CASE Reopens
  <2>1. Gather(All) /\ UNCHANGED <<served, shown, events, fetch, visible, missed>>
    BY <1>13 DEF Reopens
  <2>2. \A w \in Slices : w \in Scope(All)
    BY DEF Scope
  <2> QED
    BY <1>1, <1>2, <1>10, <2>1, <2>2 DEF DashInv, Reads, Unread
<1>14. CASE Shows
  <2>1. /\ IF open THEN Fetch(All) ELSE UNCHANGED <<fetch, missed>>
        /\ UNCHANGED <<served, shown, events, pending, timer, open>>
    BY <1>14 DEF Shows
  <2>2. CASE open
    BY <1>1, <1>8, <1>10, <2>1, <2>2 DEF Awaited
  <2>3. CASE ~open
    BY <1>1, <2>1, <2>3 DEF DashInv, Reads, Unread
  <2> QED
    BY <2>2, <2>3
<1>15. CASE UNCHANGED dashboardVars
  BY <1>15 DEF dashboardVars, DashInv, Reads, Unread, Seen, Announced, Awaited, Under, Requested
<1> QED
  BY <1>4, <1>5, <1>6, <1>7, <1>9, <1>11, <1>12, <1>13, <1>14, <1>15, <1>16, <1>17 DEF DashboardNext

LEMMA DashInit == DashboardInit => DashInv
<1> SUFFICES ASSUME DashboardInit PROVE DashInv
  OBVIOUS
<1>1. served \in [Slices -> 0..MaxChanges] /\ shown = served /\ MaxChanges \in Nat
  BY DashboardAssumption DEF DashboardInit
<1>2. fetch = [f \in Fetches |-> NoFetch] /\ events = {} /\ pending = NothingPending
  BY DEF DashboardInit
<1>3. Reads
  BY <1>1, <1>2, CallOfType DEF Reads, Unread
<1> QED
  BY <1>1, <1>2, <1>3 DEF DashInv, Seen, NothingPending

(* A tab in which nothing is under way shows what the server has, however   *)
(* requests overlapped, the stream broke and the tab was hidden; but for    *)
(* the slices whose refresh failed, came too late or was overtaken.         *)
THEOREM DashboardIsCurrent == DashboardSpec => []QuietIsCurrent
<1>1. DashInv => QuietIsCurrent
  <2> SUFFICES ASSUME DashInv, events = {}, ~timer, Free = Fetches, open, visible,
                        NEW w \in Slices \ missed
               PROVE  shown[w] = served[w]
    BY DEF QuietIsCurrent
  <2>1. \A f \in Fetches : fetch[f].at = "none"
    BY DEF Free
  <2> QED
    BY <2>1 DEF DashInv, Seen, Announced, Awaited, Under, Requested
<1> QED
  BY <1>1, DashInit, DashStep, PTL DEF DashboardSpec
-----------------------------------------------------------------------------
(* What is asked for by one request in flight is asked for by no other.     *)
OneEach == \A f, g \in Sent : fetch[f].ids = fetch[g].ids => f = g

LEMMA FetchKeepsOne ==
  ASSUME Reads, OneEach, missed \subseteq Slices, NEW ids \in SUBSET Slices, Fetch(ids)
  PROVE  OneEach' /\ missed' \subseteq Slices
<1> DEFINE call == [NoFetch EXCEPT !.ids = ids, !.on = First(ids),
                                   !.at = IF First(ids) = {} THEN "sent" ELSE "waits"]
<1>1. CASE missed' = missed \union TooLate(ids) /\ UNCHANGED fetch
  <2>1. TooLate(ids) \subseteq Slices
    BY DEF TooLate, Scope
  <2>2. Sent' = Sent
    BY <1>1 DEF Sent
  <2> QED
    BY <1>1, <2>1, <2>2 DEF OneEach
<1>2. CASE /\ First(ids) # {} \/ Same(ids, Sent) = {}
           /\ (\E f \in Free : fetch' = [fetch EXCEPT ![f] = call]) /\ UNCHANGED missed
  <2>1. PICK f \in Free : fetch' = [fetch EXCEPT ![f] = call]
    BY <1>2
  <2>2. call.ids = ids /\ (call.at = "sent" => First(ids) = {})
    BY DEF NoFetch
  <2> HIDE DEF call
  <2>3. f \in Fetches /\ fetch'[f] = call /\ \A g \in Fetches : g # f => fetch'[g] = fetch[g]
    BY <2>1 DEF Free, Reads
  <2>4. \A g \in Sent' : g # f => g \in Sent /\ fetch'[g] = fetch[g]
    BY <2>3 DEF Sent
  <2>5. f \in Sent' => \A g \in Sent : fetch[g].ids # ids
    BY <1>2, <2>2, <2>3 DEF Sent, Same
  <2> QED
    BY <1>2, <2>2, <2>3, <2>4, <2>5 DEF OneEach
<1> QED
  BY <1>1, <1>2 DEF Fetch

LEMMA OnwardKeepsOne ==
  ASSUME Reads, OneEach, NEW f \in Sent, fetch' = Onward(f)
  PROVE  OneEach' /\ JoinedLate(f) \subseteq Slices
<1>1. JoinedLate(f) \subseteq Slices
  <2>1. \A g \in Woken(f) : Scope(fetch[g].ids) \subseteq Slices
    BY DEF Woken, Scope, Reads, CallType
  <2> QED
    BY <2>1 DEF JoinedLate
<1> DEFINE Alike(ids) == CHOOSE h \in Woken(f) : fetch[h].ids = ids
<1>2. ASSUME NEW g \in Sent' PROVE
        /\ fetch'[g].ids = fetch[g].ids
        /\ \/ g \in Sent \ {f}
           \/ Same(fetch[g].ids, Sent \ {f}) = {} /\ g = Alike(fetch[g].ids)
  <2>1. g \in Fetches /\ fetch'[g].at = "sent" /\ fetch[g] \in CallType
    BY <1>2 DEF Sent, Reads
  <2>2. fetch'[g] # NoFetch
    BY <2>1 DEF NoFetch
  <2>3. CASE fetch'[g] = [fetch[g] EXCEPT !.at = "sent", !.on = {}] /\ ~Joins(g, f)
    BY <2>1, <2>3 DEF Joins, CallType
  <2>4. CASE g # f /\ fetch'[g] = [fetch[g] EXCEPT !.on = @ \ {f}]
    BY <2>1, <2>4 DEF CallType, Sent
  <2> QED
    BY <2>1, <2>2, <2>3, <2>4 DEF Onward
<1>3. ASSUME NEW g \in Sent', NEW h \in Sent', fetch'[g].ids = fetch'[h].ids PROVE g = h
  <2> DEFINE ids == fetch[g].ids
  <2>1. fetch[h].ids = ids
    BY <1>2, <1>3
  <2>2. ASSUME NEW k \in Sent \ {f}, fetch[k].ids = ids PROVE Same(ids, Sent \ {f}) # {}
    BY <2>2 DEF Same
  <2>3. CASE g \in Sent \ {f} /\ h \in Sent \ {f}
    BY <2>1, <2>3 DEF OneEach
  <2> HIDE DEF Alike
  <2>4. CASE g \notin Sent \ {f} \/ h \notin Sent \ {f}
    BY <1>2, <2>1, <2>2, <2>4
  <2> QED
    BY <2>3, <2>4
<1> QED
  BY <1>1, <1>3 DEF OneEach

DashTypeInv ==
  /\ shown \in [Slices -> 0..MaxChanges] /\ missed \subseteq Slices
  /\ events \subseteq {All} \union {{w} : w \in Slices}
  /\ timer \in BOOLEAN /\ open \in BOOLEAN /\ visible \in BOOLEAN
  /\ OneEach

LEMMA DashTypeStep == DashInv /\ DashTypeInv /\ [DashboardNext]_dashboardVars => DashTypeInv'
<1> SUFFICES ASSUME DashInv, DashTypeInv, [DashboardNext]_dashboardVars PROVE DashTypeInv'
  OBVIOUS
<1> DEFINE Flags == timer \in BOOLEAN /\ open \in BOOLEAN /\ visible \in BOOLEAN
           Named == events \subseteq {All} \union {{w} : w \in Slices}
           Shown == shown \in [Slices -> 0..MaxChanges]
           Calls == missed \subseteq Slices /\ OneEach
<1>1. Reads /\ Flags /\ Named /\ Shown /\ Calls /\ pending.ids \in SUBSET Slices
  BY DEF DashInv, DashTypeInv
<1>2. Flags'
  BY <1>1 DEF DashboardNext, Change, Feed, ReadSlice, Receive, Fails, Deliver, Gather, TimerEnds, Refresh,
     Breaks, Reopens, Hides, Shows, dashboardVars
<1>3. Named'
  <2>1. ASSUME NEW w \in Slices, NEW named \in {All} \union {{v} : v \in Slices}, Changes(w, named)
        PROVE  Named'
    BY <1>1, <2>1 DEF Changes
  <2>2. ASSUME NEW w \in Slices, Change(w) PROVE Named'
    BY <2>1, <2>2, Zenon DEF Change
  <2>3. ASSUME NEW v \in Slices, NEW w \in Slices, Feed(v, w) PROVE Named'
    BY <2>1, <2>3, Zenon DEF Feed
  <2> QED
    BY <1>1, <2>2, <2>3, Zenon
       DEF DashboardNext, ReadSlice, Receive, Fails, Deliver, TimerEnds, Refresh, Breaks, Reopens, Hides, Shows, dashboardVars
<1>4. Shown'
  <2>1. ASSUME NEW f \in Fetches, Receive(f) PROVE Shown'
    <3>1. fetch[f].ids \in SUBSET Slices /\ \A w \in Slices : fetch[f].got[w] \in 0..Unread
      BY <1>1 DEF Reads, CallType
    <3>2. \A w \in Slices : w \in Scope(fetch[f].ids) => fetch[f].got[w] \in 0..MaxChanges
      <4> SUFFICES ASSUME NEW w \in Slices, w \in Scope(fetch[f].ids)
                   PROVE  fetch[f].got[w] \in 0..MaxChanges
        OBVIOUS
      <4>1. fetch[f].got[w] # Unread /\ fetch[f].got[w] \in 0..Unread
        BY <2>1, <3>1 DEF Receive
      <4> QED
        BY <4>1, DashboardAssumption DEF Unread
    <3>3. shown' = Merged(f)
      BY <2>1 DEF Receive
    <3> QED
      BY <1>1, <3>2, <3>3 DEF Merged
  <2>2. UNCHANGED shown => Shown'
    BY <1>1
  <2> HIDE DEF Shown
  <2> QED
    BY <2>1, <2>2, Zenon DEF DashboardNext, Change, Feed, ReadSlice, Fails, Deliver, TimerEnds, Refresh,
       Breaks, Reopens, Hides, Shows, dashboardVars
<1>5. Calls'
  <2>1. UNCHANGED <<fetch, missed>> => Calls'
    BY <1>1 DEF OneEach, Sent
  <2>2. ASSUME NEW ids \in SUBSET Slices, Fetch(ids) PROVE Calls'
    BY <1>1, <2>2, FetchKeepsOne
  <2>3. ASSUME NEW f \in Fetches, NEW w \in Slices, ReadSlice(f, w) PROVE Calls'
    <3>1. /\ \A g \in Fetches : fetch'[g].at = fetch[g].at /\ fetch'[g].ids = fetch[g].ids
          /\ missed' = missed
      BY <1>1, <2>3 DEF ReadSlice, Reads, CallType
    <3>2. Sent' = Sent
      BY <3>1 DEF Sent
    <3> QED
      BY <1>1, <3>1, <3>2 DEF OneEach, Sent
  <2>4. ASSUME NEW f \in Fetches, Receive(f) PROVE Calls'
    <3>1. f \in Sent /\ fetch' = Onward(f)
      BY <2>4 DEF Receive
    <3>2. OneEach' /\ JoinedLate(f) \subseteq Slices
      BY <1>1, <3>1, OnwardKeepsOne
    <3> QED
      BY <1>1, <2>4, <3>2, Zenon DEF Receive
  <2>5. ASSUME NEW f \in Fetches, Fails(f) PROVE Calls'
    <3>1. f \in Sent /\ fetch' = Onward(f)
      BY <2>5 DEF Fails
    <3>2. OneEach' /\ JoinedLate(f) \subseteq Slices
      BY <1>1, <3>1, OnwardKeepsOne
    <3>3. Scope(fetch[f].ids) \subseteq Slices
      BY <1>1 DEF Scope, Reads, CallType
    <3> QED
      BY <1>1, <2>5, <3>2, <3>3, Zenon DEF Fails
  <2>8. ASSUME NEW v \in Slices, NEW w \in Slices, Feed(v, w) PROVE Calls'
    BY <1>1, <2>8 DEF Feed, OneEach, Sent
  <2> HIDE DEF Calls
  <2>6. Gathered \in SUBSET Slices /\ All \in SUBSET Slices
    BY <1>1 DEF Gathered, All
  <2>7. TimerEnds \/ Refresh \/ Shows => Calls'
    BY <2>1, <2>2, <2>6, Zenon DEF TimerEnds, Refresh, Shows
  <2> QED
    BY <2>1, <2>3, <2>4, <2>5, <2>7, <2>8, Zenon
       DEF DashboardNext, Change, Deliver, Breaks, Reopens, Hides, dashboardVars
<1> QED
  BY <1>2, <1>3, <1>4, <1>5 DEF DashTypeInv

(* Types, of the tab's data: and no two requests in flight ask for the same *)
(* (useDashboardData.ts:419).                                               *)
THEOREM DashboardTypeCorrect == DashboardSpec => []DashboardTypeOK
<1>1. ASSUME DashboardInit PROVE DashTypeInv
  <2>1. shown \in [Slices -> 0..MaxChanges]
    BY <1>1, DashboardAssumption DEF DashboardInit
  <2>2. Sent = {}
    BY <1>1, CallOfType DEF DashboardInit, Sent
  <2>3. timer \in BOOLEAN /\ open \in BOOLEAN /\ visible \in BOOLEAN
    BY <1>1, Zenon DEF DashboardInit
  <2> QED
    BY <1>1, <2>1, <2>2, <2>3 DEF DashboardInit, DashTypeInv, OneEach
<1>2. DashInv /\ DashTypeInv => DashboardTypeOK
  BY DEF DashInv, DashTypeInv, Reads, CallType, OneEach, DashboardTypeOK
<1> QED
  BY <1>1, <1>2, DashInit, DashStep, DashTypeStep, PTL DEF DashboardSpec
=============================================================================
