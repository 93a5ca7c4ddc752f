---------------------------- MODULE Conversations ----------------------------
(***************************************************************************)
(* Chat turns of BFrost: a message is entered into the history of its      *)
(* thread, a model answers, minutes later perhaps, and the answer is       *)
(* entered.  Turns of one thread overlap; the operator deletes the thread, *)
(* or starts it anew, at any time.  Histories and the list of threads are  *)
(* two documents in the database, each written whole after every change.   *)
(***************************************************************************)
EXTENDS Sequences, Naturals

CONSTANTS
  Turns,       \* calls of processChannelMessage, one message each
  Threads,     \* conversations
  Window,      \* MODEL_WINDOW
  ChatFaults   \* "save": writing a document fails, "model": no model answers,
               \* "crash": the process is killed and started again

ASSUME ChatAssumption ==
  /\ Threads # {} /\ Window \in Nat \ {0}
  /\ ChatFaults \subseteq {"save", "model", "crash"}

VARIABLES
  listed,     \* the threads of the registry
  history,    \* the messages of each thread
  disk,       \* the two documents
  turn,       \* where each turn is, and its prompt: a copy, or the array of
              \* the history itself ("live")
  strayed,    \* history: threads deleted under a turn, or whose documents
              \* are not of one time since a write failed
  entered     \* history: turns answered and written, their thread not cleared

chatVars == <<listed, history, disk, turn, strayed, entered>>

Question(x) == <<x, "user">>
Reply(x) == <<x, "assistant">>

\* before it begins; its thread is any
NoTurn == [at |-> "none", thread |-> CHOOSE t \in Threads : TRUE,
           prompt |-> <<>>, live |-> FALSE]

Open(x, t) == turn[x].thread = t /\ turn[x].at \in {"asked", "answering"}
OpenTurns(t) == {x \in Turns : Open(x, t)}

ChatInit ==
  /\ listed = {} /\ history = [t \in Threads |-> <<>>]
  /\ disk = [listed |-> {}, history |-> [t \in Threads |-> <<>>]]
  /\ turn = [x \in Turns |-> NoTurn]
  /\ strayed = {} /\ entered = {}

\* schedulePersist writes everything; where that throws it warns and goes on.
Writes == IF "save" \in ChatFaults THEN BOOLEAN ELSE {TRUE}
WriteList(ok) == IF ok THEN listed' ELSE disk.listed
WriteHistory(ok) == IF ok THEN history' ELSE disk.history

-----------------------------------------------------------------------------
(* Faulty variants of steps below, none of them part of the specification.  *)

\* the answer is entered after what the model was given
Bug_ReplyToPrompt(x, t) == Append(turn[x].prompt, Reply(x))

\* the list is written before the history is cleared
Bug_HalfDeleted(t) == [disk EXCEPT !.listed = listed \ {t}]

-----------------------------------------------------------------------------
(* getHistory: the array itself while it fits the window, else a copy.      *)
Fits(h) == Len(h) <= Window
LastOf(h) == SubSeq(h, Len(h) - Window + 1, Len(h))

(* processChannelMessage up to the first await: touchThread, addUserMessage *)
(* and getHistory.                                                          *)
Send(x, t) ==
  /\ turn[x].at = "none"
  /\ listed' = listed \union {t}
  /\ history' = [history EXCEPT ![t] = Append(@, Question(x))]
  /\ \E ok, told \in Writes :
       /\ disk' = [listed |-> WriteList(ok), history |-> WriteHistory(told)]
       /\ strayed' = IF ok THEN strayed \ {t} ELSE strayed \union {t}
  /\ turn' = [turn EXCEPT ![x] =
       [at |-> "asked", thread |-> t, live |-> Fits(history'[t]),
        prompt |-> IF Fits(history'[t]) THEN <<>> ELSE LastOf(history'[t])]]
  /\ UNCHANGED entered

(* runChatTurn, when the local runtime is free: generateText takes the      *)
(* messages as they are now; so does the next model, when one has failed.   *)
Generate(x) ==
  /\ turn[x].at \in {"asked", "answering"}
  /\ turn' = [turn EXCEPT ![x].at = "answering",
       ![x].prompt = IF turn[x].live THEN history[turn[x].thread] ELSE @]
  /\ UNCHANGED <<listed, history, disk, strayed, entered>>

\* addAssistantMessage, to the history as it is now
WithReply(x, t) == Append(history[t], Reply(x))

Enter(x) ==
  /\ turn[x].at = "answering"
  /\ LET t == turn[x].thread IN
       /\ history' = [history EXCEPT ![t] = WithReply(x, t)]
       /\ \E ok \in Writes :
            /\ disk' = [disk EXCEPT !.history = WriteHistory(ok)]
            /\ entered' = IF ok /\ \E i \in DOMAIN history[t] : history[t][i] = Question(x)
                          THEN entered \union {x} ELSE entered
  /\ turn' = [turn EXCEPT ![x].at = "over"]
  /\ UNCHANGED <<listed, strayed>>

(* No model answers: the question stays where it is.                        *)
NoAnswer(x) ==
  /\ "model" \in ChatFaults /\ turn[x].at = "answering"
  /\ turn' = [turn EXCEPT ![x].at = "over"]
  /\ UNCHANGED <<listed, history, disk, strayed, entered>>

-----------------------------------------------------------------------------
(* clearHistory takes the array out of the map; turns keep the one they     *)
(* hold.                                                                    *)
ClearHistory(t) ==
  /\ history' = [history EXCEPT ![t] = <<>>]
  /\ turn' = [x \in Turns |->
       IF Open(x, t) /\ turn[x].live
       THEN [at |-> turn[x].at, thread |-> t, live |-> FALSE, prompt |-> history[t]]
       ELSE turn[x]]
  /\ entered' = {x \in entered : turn[x].thread # t}

(* "/new" in Telegram.                                                      *)
StartAnew(t) ==
  /\ ClearHistory(t)
  /\ \E ok \in Writes : disk' = [disk EXCEPT !.history = WriteHistory(ok)]
  /\ UNCHANGED <<listed, strayed>>

(* deleteThread: the history is cleared and written, then the list.         *)
DeleteThread(t) ==
  /\ t \in listed
  /\ listed' = listed \ {t}
  /\ ClearHistory(t)
  /\ \E ok, told \in Writes :
       /\ disk' = [listed |-> WriteList(ok), history |-> WriteHistory(told)]
       /\ strayed' = IF told /\ OpenTurns(t) = {} THEN strayed ELSE strayed \union {t}

-----------------------------------------------------------------------------
(* The process is killed and started again: hydrateConversations and        *)
(* hydrateThreads read what a document d says; no turn goes on.             *)
Rehydrated(d) ==
  /\ "crash" \in ChatFaults
  /\ disk' = d /\ listed' = d.listed /\ history' = d.history
  /\ turn' = [x \in Turns |-> IF turn[x].at \in {"asked", "answering"}
                              THEN [turn[x] EXCEPT !.at = "over"] ELSE turn[x]]

Rehydrate == Rehydrated(disk) /\ UNCHANGED <<strayed, entered>>

(* ... between the two writes of Send,                                      *)
SendDies(t) ==
  /\ Rehydrated([disk EXCEPT !.listed = listed \union {t}])
  /\ UNCHANGED <<strayed, entered>>

(* ... or of DeleteThread.                                                  *)
HalfDeleted(t) == [disk EXCEPT !.history = [history EXCEPT ![t] = <<>>]]

DeleteDies(t) ==
  /\ t \in listed
  /\ Rehydrated(HalfDeleted(t))
  /\ entered' = {x \in entered : turn[x].thread # t}
  /\ UNCHANGED strayed

ChatNext ==
  \/ \E x \in Turns : Generate(x) \/ Enter(x) \/ NoAnswer(x) \/ \E t \in Threads : Send(x, t)
  \/ \E t \in Threads : StartAnew(t) \/ DeleteThread(t) \/ SendDies(t) \/ DeleteDies(t)
  \/ Rehydrate

ChatSpec == ChatInit /\ [][ChatNext]_chatVars

-----------------------------------------------------------------------------
(* Types.                                                                   *)
ChatTypeOK ==
  /\ listed \subseteq Threads /\ disk.listed \subseteq Threads
  /\ history \in [Threads -> Seq(Turns \X {"user", "assistant"})]
  /\ disk.history \in [Threads -> Seq(Turns \X {"user", "assistant"})]
  /\ \A x \in Turns :
       /\ turn[x].at \in {"none", "asked", "answering", "over"}
       /\ turn[x].thread \in Threads
       /\ turn[x].prompt \in Seq(Turns \X {"user", "assistant"})
  /\ strayed \subseteq Threads /\ entered \subseteq Turns

-----------------------------------------------------------------------------
(* "Every conversation is saved, ... and deletable": wherever the process   *)
(* dies, a history is that of a thread in the list, through which alone it  *)
(* can be opened and deleted; unless the thread was deleted under a turn,   *)
(* whose answer brings its history back, or a write failed.                 *)
NothingStranded ==
  \A t \in Threads \ strayed :
    /\ history[t] # <<>> => t \in listed
    /\ disk.history[t] # <<>> => t \in disk.listed

(* What a model is given has the question it is to answer, ...              *)
AskedOfModel ==
  \A x \in Turns : turn[x].at = "answering" =>
    \E i \in DOMAIN turn[x].prompt : turn[x].prompt[i] = Question(x)

(* ... and once an answer is in the database, question and answer are in    *)
(* the history in this order, whatever turns overlap, until it is cleared.  *)
AnswersStay ==
  \A x \in entered : \E i, k \in DOMAIN history[turn[x].thread] :
    /\ i < k
    /\ history[turn[x].thread][i] = Question(x)
    /\ history[turn[x].thread][k] = Reply(x)

TurnsAreWhole == AskedOfModel /\ AnswersStay
=============================================================================
