---------------------------- MODULE DashboardData ----------------------------
(***************************************************************************)
(* The data of the workers as BFrost's dashboard shows it in the browser:  *)
(* events of the server come over a stream, are gathered for a moment, and *)
(* refresh the slices of the workers they name, or all slices.  Requests   *)
(* overlap and are answered in any order; the stream breaks and the tab is *)
(* hidden.  A slice stands for its version.  The tab shows worker data,    *)
(* and the operator is signed in.                                          *)
(***************************************************************************)
EXTENDS Naturals

CONSTANTS
  Slices,      \* workers with a slice of the dashboard's data
  Feeders,     \* those whose runs change what other slices show: a run of
               \* finance-news publishes what finance-analyst counts
  Fetches,     \* bound: calls of fetchSection that are under way at once
  MaxChanges,  \* bound: changes of each slice
  WebFaults    \* "fetch": a request fails, "stream": the event stream breaks,
               \* "hide": the tab is hidden

ASSUME DashboardAssumption ==
  /\ MaxChanges \in Nat /\ Feeders \subseteq Slices
  /\ WebFaults \subseteq {"fetch", "stream", "hide"}

VARIABLES
  served,    \* the slices at the server
  shown,     \* dashboard.workerData
  events,    \* sent over the stream, not delivered: the slices each names;
             \* two that name the same count as one
  pending,   \* pendingStreamWorkerIds, pendingFullWorkerDataRefresh
  timer,     \* streamSectionTimer is set
  fetch,     \* calls of fetchSection: the slices asked for, the calls awaited
             \* first, the slices as the server has read them
  open,      \* the stream is open
  visible,   \* the tab is
  missed     \* history: slices whose last change no refresh brought, since no
             \* event named them, or a request failed, was joined too late or
             \* was overtaken

dashboardVars == <<served, shown, events, pending, timer, fetch, open, visible, missed>>

All == {}                                  \* names no worker: every slice
Scope(ids) == IF ids = All THEN Slices ELSE ids
Unread == MaxChanges + 1

NoFetch == [at |-> "none", ids |-> All, on |-> {}, got |-> [w \in Slices |-> Unread]]
NothingPending == [ids |-> {}, full |-> FALSE]

\* inflightSections: the requests sent, by what they ask for
Sent == {f \in Fetches : fetch[f].at = "sent"}
Free == {f \in Fetches : fetch[f].at = "none"}
Full(f) == fetch[f].ids = All

DashboardInit ==
  /\ served = [w \in Slices |-> 0] /\ shown = served
  /\ events = {} /\ pending = NothingPending /\ timer = FALSE
  /\ fetch = [f \in Fetches |-> NoFetch]
  /\ open = TRUE /\ visible = TRUE /\ missed = {}

-----------------------------------------------------------------------------
(* Faulty variants of steps below, none of them part of the specification.  *)

\* a targeted event among shared ones narrows the refresh
Bug_Gathered == IF pending.ids # {} THEN pending.ids ELSE All

-----------------------------------------------------------------------------
(* At the server: a change of a slice.  An open stream takes the event.     *)
Changes(w, named) ==
  /\ served[w] < MaxChanges
  /\ served' = [served EXCEPT ![w] = @ + 1]
  /\ events' = IF open THEN events \union {named} ELSE events

(* A run changes the slice of its own worker, which its event names; or     *)
(* something else does, whose event names nobody (configuration, queue).    *)
Change(w) ==
  /\ \E named \in {{w}, All} : Changes(w, named)
  /\ UNCHANGED <<shown, pending, timer, fetch, open, visible, missed>>

(* A run of v changes the slice of w, by what it puts on the bus.  The      *)
(* event names v: a tab that is shown it takes w to be as it was.           *)
Feed(v, w) ==
  /\ v \in Feeders \ {w}
  /\ Changes(w, {v})
  /\ missed' = IF open /\ visible THEN missed \union {w} ELSE missed
  /\ UNCHANGED <<shown, pending, timer, fetch, open, visible>>

(* The server works on a request, slice by slice.                           *)
ReadSlice(f, w) ==
  /\ f \in Sent /\ w \in Scope(fetch[f].ids) /\ fetch[f].got[w] = Unread
  /\ fetch' = [fetch EXCEPT ![f].got[w] = served[w]]
  /\ UNCHANGED <<served, shown, events, pending, timer, open, visible, missed>>

-----------------------------------------------------------------------------
(* fetchSection("workerData").  What is awaited first: all slices wait for  *)
(* the requests of single ones, and the other way round.                    *)
First(ids) == {f \in Sent : (ids = All) # Full(f)}

\* the request in flight that a call joins
Same(ids, sent) == {f \in sent : fetch[f].ids = ids}

\* what a joined request has read before the change that asks for it
TooLate(ids) == {w \in Scope(ids) : \E f \in Same(ids, Sent) : fetch[f].got[w] < served[w]}

Fetch(ids) ==
  \/ First(ids) = {} /\ Same(ids, Sent) # {}
     /\ missed' = missed \union TooLate(ids)
     /\ UNCHANGED fetch
  \/ /\ First(ids) # {} \/ Same(ids, Sent) = {}
     /\ \E f \in Free : fetch' = [fetch EXCEPT ![f] =
          [NoFetch EXCEPT !.ids = ids, !.on = First(ids),
                          !.at = IF First(ids) = {} THEN "sent" ELSE "waits"]]
     /\ UNCHANGED missed

-----------------------------------------------------------------------------
(* A request is over: those that awaited it, and nothing else, go on, join  *)
(* a request for the same or are sent.                                      *)
Woken(f) == {g \in Fetches : fetch[g].at = "waits" /\ fetch[g].on = {f}}
Joins(g, f) ==
  \/ Same(fetch[g].ids, Sent \ {f}) # {}
  \/ g # CHOOSE h \in Woken(f) : fetch[h].ids = fetch[g].ids

Onward(f) == [g \in Fetches |->
  IF g = f \/ (g \in Woken(f) /\ Joins(g, f)) THEN NoFetch
  ELSE IF g \in Woken(f) THEN [fetch[g] EXCEPT !.at = "sent", !.on = {}]
  ELSE [fetch[g] EXCEPT !.on = @ \ {f}]]

\* what calls that go on find being read already
JoinedLate(f) == UNION {{w \in Scope(fetch[g].ids) :
                           \E h \in Same(fetch[g].ids, Sent \ {f}) : fetch[h].got[w] < served[w]} :
                        g \in Woken(f)}

(* mergeSection: all slices are replaced, or those that were asked for.     *)
Merged(f) == [w \in Slices |-> IF w \in Scope(fetch[f].ids) THEN fetch[f].got[w] ELSE shown[w]]

Receive(f) ==
  /\ f \in Sent /\ \A w \in Scope(fetch[f].ids) : fetch[f].got[w] # Unread
  /\ shown' = Merged(f)
  /\ fetch' = Onward(f)
  /\ missed' = {w \in missed \union JoinedLate(f) \union {v \in Slices : shown'[v] < shown[v]} :
                  shown'[w] # served[w]}
  /\ UNCHANGED <<served, events, pending, timer, open, visible>>

Fails(f) ==
  /\ "fetch" \in WebFaults /\ f \in Sent
  /\ fetch' = Onward(f)
  /\ missed' = missed \union JoinedLate(f) \union {w \in Scope(fetch[f].ids) : shown[w] # served[w]}
  /\ UNCHANGED <<served, shown, events, pending, timer, open, visible>>

-----------------------------------------------------------------------------
(* handleStreamEvent and queueStreamSections.                               *)
Gather(ids) ==
  /\ pending' = IF ids = All THEN [pending EXCEPT !.full = TRUE]
                             ELSE [pending EXCEPT !.ids = @ \union ids]
  /\ timer' = TRUE

Deliver(e) ==
  /\ open /\ e \in events
  /\ events' = events \ {e}
  /\ Gather(e)
  /\ UNCHANGED <<served, shown, fetch, open, visible, missed>>

(* 250 ms later, unless the tab is hidden by then.                          *)
Gathered == IF pending.full THEN All ELSE pending.ids

TimerEnds ==
  /\ timer
  /\ timer' = FALSE /\ pending' = NothingPending
  /\ IF visible THEN Fetch(Gathered) ELSE UNCHANGED <<fetch, missed>>
  /\ UNCHANGED <<served, shown, events, open, visible>>

(* After a command of the operator, whose answer may come to a hidden tab,  *)
(* a change of tabs, or by the timer that polls while the stream is down,   *)
(* all slices are fetched.                                                  *)
Refresh ==
  /\ Fetch(All)
  /\ UNCHANGED <<served, shown, events, pending, timer, open, visible>>

-----------------------------------------------------------------------------
(* The stream breaks, with what is on its way, and is opened again by the   *)
(* browser: handleStreamOpen.                                               *)
Breaks ==
  /\ "stream" \in WebFaults /\ open
  /\ open' = FALSE /\ events' = {}
  /\ UNCHANGED <<served, shown, pending, timer, fetch, visible, missed>>

Reopens ==
  /\ ~open /\ open' = TRUE
  /\ Gather(All)
  /\ UNCHANGED <<served, shown, events, fetch, visible, missed>>

(* The tab is hidden, and shown again: handleVisibilityChange, there while  *)
(* the stream is open.                                                      *)
Hides ==
  /\ "hide" \in WebFaults /\ visible /\ visible' = FALSE
  /\ UNCHANGED <<served, shown, events, pending, timer, fetch, open, missed>>

Shows ==
  /\ ~visible /\ visible' = TRUE
  /\ IF open THEN Fetch(All) ELSE UNCHANGED <<fetch, missed>>
  /\ UNCHANGED <<served, shown, events, pending, timer, open>>

DashboardNext ==
  \/ \E w \in Slices : Change(w) \/ \E f \in Fetches : ReadSlice(f, w)
  \/ \E v, w \in Slices : Feed(v, w)
  \/ \E f \in Fetches : Receive(f) \/ Fails(f)
  \/ \E e \in events : Deliver(e)
  \/ TimerEnds \/ Refresh \/ Breaks \/ Reopens \/ Hides \/ Shows

DashboardSpec == DashboardInit /\ [][DashboardNext]_dashboardVars

-----------------------------------------------------------------------------
(* Types; what is asked for by one request is asked for by no other.        *)
DashboardTypeOK ==
  /\ served \in [Slices -> 0..MaxChanges] /\ shown \in [Slices -> 0..MaxChanges]
  /\ events \subseteq {All} \union {{w} : w \in Slices}
  /\ pending \in [ids : SUBSET Slices, full : BOOLEAN]
  /\ fetch \in [Fetches -> [at : {"none", "waits", "sent"}, ids : SUBSET Slices,
                            on : SUBSET Fetches, got : [Slices -> 0..Unread]]]
  /\ \A f, g \in Sent : fetch[f].ids = fetch[g].ids => f = g
  /\ {timer, open, visible} \subseteq BOOLEAN /\ missed \subseteq Slices

(* When nothing is under way, an open tab shows what the server has,        *)
(* whatever was hidden, lost, gathered or crossed; except the slices that a *)
(* run of another worker changed, whose event does not name them, and those *)
(* whose refresh failed, was answered from an earlier read, or was          *)
(* overtaken by an older answer.                                            *)
QuietIsCurrent ==
  /\ events = {} /\ ~timer /\ Free = Fetches /\ open /\ visible
  => \A w \in Slices \ missed : shown[w] = served[w]

(* "Keep full and partial worker-data responses ordered so an older full    *)
(* snapshot cannot overwrite a newer targeted slice merely because their    *)
(* requests crossed in flight."                                             *)
NoOlderFull ==
  [][\A f \in Sent : Full(f) /\ Receive(f) => \A w \in Slices : shown'[w] >= shown[w]]_dashboardVars
=============================================================================
