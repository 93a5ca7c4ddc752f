----------------------------- MODULE NewsDigest -----------------------------
(***************************************************************************)
(* The news digest of BFrost (core.news): a run reads which articles are   *)
(* known, searches, fetches and asks a model for minutes without a lock,   *)
(* then merges what it has into the item bus under the lock.  Runs overlap *)
(* (one outlived its deadline, or "npm run task" has another) and are cut  *)
(* off.  An article stands for its canonical URL.                          *)
(***************************************************************************)
EXTENDS Naturals

CONSTANTS
  Digests,      \* calls of runNewsDigest that may be in progress at once
  Articles,     \* what a search can return
  TitleOf,      \* normalised title of an article
  NewsFaults    \* "rows", "seen": saveQueue or saveState throws,
                \* "crash": the process of a run is killed

ASSUME NewsAssumption ==
  /\ DOMAIN TitleOf = Articles
  /\ NewsFaults \subseteq {"rows", "seen", "crash"}

VARIABLES
  digest,   \* where each run is: what it knows, what it wants to file or
            \* filed, and (history) what was settled when it began
  filed,    \* rows of the bus that digests made, by article
  others,   \* articles of which another producer's row is on the bus
  seen,     \* seenUrls of the news worker
  settled   \* history: filed by a digest that came to its end, and not yet
            \* older than seenTtlHours

newsVars == <<digest, filed, others, seen, settled>>

OnBus == {a \in Articles : filed[a] > 0} \union others
Titles(as) == {TitleOf[a] : a \in as}

NoDigest == [at |-> "none", known |-> {}, items |-> {}, old |-> {}]

NewsInit ==
  /\ digest = [d \in Digests |-> NoDigest]
  /\ filed = [a \in Articles |-> 0]
  /\ others = {} /\ seen = {} /\ settled = {}

-----------------------------------------------------------------------------
(* Faulty variants of steps below, none of them part of the specification.  *)

\* the merge trusts what the run knew when it began
Bug_NewAsOfBegin(d) == digest[d].items \ digest[d].known

\* seenUrls is written as the run read it, with its own articles
Bug_SeenAfterAsOfBegin(d) == digest[d].known \union digest[d].items

-----------------------------------------------------------------------------
(* runNewsDigest: loadState.                                                *)
ReadSeen(d) ==
  /\ digest[d].at = "none"
  /\ digest' = [digest EXCEPT ![d] =
       [at |-> "state", known |-> seen, items |-> {}, old |-> settled]]
  /\ UNCHANGED <<filed, others, seen, settled>>

(* ... and the queue, without the lock.                                     *)
ReadBus(d) ==
  /\ digest[d].at = "state"
  /\ digest' = [digest EXCEPT ![d].at = "slow", ![d].known = @ \union OnBus]
  /\ UNCHANGED <<filed, others, seen, settled>>

(* fetchNews, enrichCandidates, assessSourceQuality, filterWithLLM: of what *)
(* is found and not known some is left out; the rest becomes an item, be it *)
(* queued, rejected, or "seen" for its title or as a near-duplicate.        *)
Sift(d) ==
  /\ digest[d].at = "slow"
  /\ \E items \in SUBSET (Articles \ digest[d].known) :
       digest' = [digest EXCEPT ![d].at = "sifted", ![d].items = items]
  /\ UNCHANGED <<filed, others, seen, settled>>

(* The search or the model fails.                                           *)
SiftFails(d) ==
  /\ digest[d].at = "slow"
  /\ digest' = [digest EXCEPT ![d] = NoDigest]
  /\ UNCHANGED <<filed, others, seen, settled>>

(* The items that are not in the queue as it is now, by URL or by title.    *)
New(d) == {a \in digest[d].items \ OnBus : TitleOf[a] \notin Titles(OnBus)}

\* withQueueLock
Unlocked == \A d \in Digests : digest[d].at # "merging"

(* The write phase, under the lock: loadQueue, the merge and saveQueue,     *)
(* which may throw, ...                                                     *)
MergeRows(d) ==
  /\ digest[d].at = "sifted" /\ Unlocked
  /\ \/ /\ digest' = [digest EXCEPT ![d].at = "merging", ![d].items = New(d)]
        /\ filed' = [a \in Articles |-> filed[a] + IF a \in New(d) THEN 1 ELSE 0]
     \/ /\ "rows" \in NewsFaults
        /\ digest' = [digest EXCEPT ![d] = NoDigest]
        /\ UNCHANGED filed
  /\ UNCHANGED <<others, seen, settled>>

(* ... then saveState: the state as it is now and what was filed.           *)
SeenAfter(d) == seen \union digest[d].items

MergeSeen(d) ==
  /\ digest[d].at = "merging"
  /\ digest' = [digest EXCEPT ![d] = NoDigest]
  /\ \/ seen' = SeenAfter(d) /\ settled' = settled \union digest[d].items
     \/ "seen" \in NewsFaults /\ UNCHANGED <<seen, settled>>
  /\ UNCHANGED <<filed, others>>

(* The process of a run is killed; its lock is broken by who waits for it.  *)
CutDown(d) ==
  /\ "crash" \in NewsFaults /\ digest[d].at # "none"
  /\ digest' = [digest EXCEPT ![d] = NoDigest]
  /\ UNCHANGED <<filed, others, seen, settled>>

-----------------------------------------------------------------------------
(* Another producer files an article; the operator deletes a row, or the    *)
(* reaper does; both under the lock.                                        *)
OtherFiles(a) ==
  /\ Unlocked
  /\ others' = others \union {a}
  /\ UNCHANGED <<digest, filed, seen, settled>>

RowGoes(a) ==
  /\ Unlocked
  /\ \/ filed[a] > 0 /\ filed' = [filed EXCEPT ![a] = @ - 1] /\ UNCHANGED others
     \/ a \in others /\ others' = others \ {a} /\ UNCHANGED filed
  /\ UNCHANGED <<digest, seen, settled>>

(* seenTtlHours have passed: pruneSeenUrls drops the entry wherever the     *)
(* state is read.                                                           *)
Forgotten(a) ==
  /\ a \in seen
  /\ seen' = seen \ {a} /\ settled' = settled \ {a}
  /\ digest' = [d \in Digests |-> [digest[d] EXCEPT !.old = @ \ {a}]]
  /\ UNCHANGED <<filed, others>>

NewsNext ==
  \/ \E d \in Digests :
       \/ ReadSeen(d) \/ ReadBus(d) \/ Sift(d) \/ SiftFails(d)
       \/ MergeRows(d) \/ MergeSeen(d) \/ CutDown(d)
  \/ \E a \in Articles : OtherFiles(a) \/ RowGoes(a) \/ Forgotten(a)

NewsSpec == NewsInit /\ [][NewsNext]_newsVars

-----------------------------------------------------------------------------
(* Types; everything settled was filed and is remembered.                   *)
NewsTypeOK ==
  /\ digest \in [Digests ->
       [at : {"none", "state", "slow", "sifted", "merging"},
        known : SUBSET Articles, items : SUBSET Articles, old : SUBSET Articles]]
  /\ filed \in [Articles -> 0..2]
  /\ others \subseteq Articles /\ seen \subseteq Articles /\ settled \subseteq seen

(* "re-checking against the *current* queue inside the lock": whatever runs *)
(* overlap or are cut off, the digests file an article once at a time.      *)
OneRowPerArticle == \A a \in Articles : filed[a] <= 1

(* An article that a digest filed does not come back in a digest that began *)
(* after that one ended, though its row has been deleted since, for         *)
(* seenTtlHours; whatever ran beside them.                                  *)
NotFiledAgain ==
  \A d \in Digests : digest[d].at = "merging" => digest[d].items \intersect digest[d].old = {}

(* An article is filed once, by runs beside each other and one after another. *)
FiledOnce == OneRowPerArticle /\ NotFiledAgain
=============================================================================
