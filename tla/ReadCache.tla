----------------------------- MODULE ReadCache -----------------------------
(***************************************************************************)
(* The dashboard's reads of BFrost's item bus, which take no lock: a cache *)
(* of all rows, the read that its callers share while it is under way, and *)
(* the writers of the same process, each of which empties the cache before *)
(* its first await and writes after it.                                    *)
(***************************************************************************)
EXTENDS Naturals

CONSTANTS
  Readers,  \* calls of loadQueueForRead
  Writers   \* calls of saveQueue, insertQueueItem, upsertQueueItems, deleteQueueItems

VARIABLES
  cached,   \* cachedQueue: "none", or rows: "fresh" if they have every write
  read,     \* inFlightRead: is its generation current, which rows does it have
            \* ("unread": none yet), and the writers that asked before it
  reader,   \* where each reader is, and what the read gave it
  writer    \* "idle", or "writing": it has emptied the cache

cacheVars == <<cached, read, reader, writer>>

NoRead == [current |-> FALSE, rows |-> "none", ahead |-> {}]
Idle == [at |-> "idle", current |-> FALSE, rows |-> "none"]

CacheInit ==
  /\ cached = "none" /\ read = NoRead
  /\ reader = [r \in Readers |-> Idle]
  /\ writer = [w \in Writers |-> "idle"]

-----------------------------------------------------------------------------
\* Faulty variant: a reader takes the generation of the moment it goes on.
Bug_SettleAsOfNow ==
  /\ read.rows \notin {"none", "unread"}
  /\ reader' = [r \in Readers |->
       IF reader[r].at = "wait"
       THEN [at |-> "resume", current |-> TRUE, rows |-> read.rows] ELSE reader[r]]
  /\ read' = NoRead
  /\ UNCHANGED <<cached, writer>>

-----------------------------------------------------------------------------
(* A writer calls invalidateQueueReadCache: generations are only compared   *)
(* for equality, so every read knows whether it is still current.           *)
AskWrite(w) ==
  /\ writer[w] = "idle"
  /\ writer' = [writer EXCEPT ![w] = "writing"]
  /\ cached' = "none"
  /\ read' = [read EXCEPT !.current = FALSE]
  /\ reader' = [r \in Readers |-> [reader[r] EXCEPT !.current = FALSE]]

(* The write lands, and what was read before is old; or it fails.           *)
Aged(s) == IF s = "fresh" THEN "old" ELSE s

Write(w) ==
  /\ writer[w] = "writing"
  /\ writer' = [writer EXCEPT ![w] = "idle"]
  /\ \/ /\ cached' = Aged(cached)
        /\ read' = [read EXCEPT !.rows = Aged(@), !.ahead = @ \ {w}]
        /\ reader' = [r \in Readers |-> [reader[r] EXCEPT !.rows = Aged(@)]]
     \/ read' = [read EXCEPT !.ahead = @ \ {w}] /\ UNCHANGED <<cached, reader>>

(* loadQueueForRead: a filled cache is returned at once, else the reader    *)
(* joins the read under way or starts one.  Statements run in the order in  *)
(* which the database was asked for.                                        *)
Ask(r) ==
  /\ reader[r].at = "idle" /\ cached = "none"
  /\ read' = IF read # NoRead THEN read
             ELSE [current |-> TRUE, rows |-> "unread",
                   ahead |-> {w \in Writers : writer[w] = "writing"}]
  /\ reader' = [reader EXCEPT ![r].at = "wait"]
  /\ UNCHANGED <<cached, writer>>

(* loadQueue *)
ReadRows ==
  /\ read.rows = "unread" /\ read.ahead = {}
  /\ read' = [read EXCEPT !.rows = "fresh"]
  /\ UNCHANGED <<cached, reader, writer>>

(* The promise settles; its slot is cleared before a reader goes on ...     *)
Settle ==
  /\ read.rows \notin {"none", "unread"}
  /\ reader' = [r \in Readers |->
       IF reader[r].at = "wait"
       THEN [at |-> "resume", current |-> read.current, rows |-> read.rows] ELSE reader[r]]
  /\ read' = NoRead
  /\ UNCHANGED <<cached, writer>>

(* ... or it rejects, and so do those who wait for it.                      *)
ReadFails ==
  /\ read.rows = "unread"
  /\ reader' = [r \in Readers |-> IF reader[r].at = "wait" THEN Idle ELSE reader[r]]
  /\ read' = NoRead
  /\ UNCHANGED <<cached, writer>>

(* The reader seeds the cache unless a write has begun since its read did.  *)
Seed(r) ==
  /\ reader[r].at = "resume"
  /\ cached' = IF reader[r].current THEN reader[r].rows ELSE cached
  /\ reader' = [reader EXCEPT ![r] = Idle]
  /\ UNCHANGED <<read, writer>>

CacheNext ==
  \/ \E w \in Writers : AskWrite(w) \/ Write(w)
  \/ \E r \in Readers : Ask(r) \/ Seed(r)
  \/ ReadRows \/ Settle \/ ReadFails

CacheSpec == CacheInit /\ [][CacheNext]_cacheVars

-----------------------------------------------------------------------------
CacheTypeOK ==
  /\ cached \in {"none", "fresh", "old"}
  /\ read \in [current : BOOLEAN, rows : {"none", "unread", "fresh", "old"},
               ahead : SUBSET Writers]
  /\ reader \in [Readers -> [at : {"idle", "wait", "resume"}, current : BOOLEAN,
                             rows : {"none", "fresh", "old"}]]
  /\ writer \in [Writers -> {"idle", "writing"}]

(* "It cannot seed the cache with rows a save superseded while the read     *)
(* ran": in whatever order reads and writes begin and end, what the cache   *)
(* holds has every write of its process.                                    *)
CacheFresh == cached # "old"
=============================================================================
