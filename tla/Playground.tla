----------------------------- MODULE Playground -----------------------------
(***************************************************************************)
(* The playground page: the chat handler and its stream controller, each    *)
(* with a generation counter of its own; the conversation it shows, which   *)
(* React changes through a queue of updaters; and the copy of it in the     *)
(* browser's storage. An event of the user is handled and rendered in one   *)
(* step, together with every update that waits (React 19 renders discrete   *)
(* events and ordinary updates in one pass); an event of the network or of  *)
(* a frame only queues updates, and the render is a step of its own. An     *)
(* updater that finds the queue empty may be run at once. A message with    *)
(* attachments is sent when its files have been read, by the handlers of    *)
(* the render in which it was submitted.                                    *)
(***************************************************************************)
EXTENDS Integers, Sequences, SequencesExt

CONSTANTS MaxRequests,  \* requests in all
          MaxAttached,  \* messages whose attachments are being read at one time
          MaxEdits,     \* editors opened
          MaxLeaves,    \* times the page is left
          MaxFaults,    \* writes to the storage that fail
          MaxQueue,     \* updates that wait when a frame adds its own
          MaxStored     \* MAX_STORED_MESSAGES

ASSUME PlaygroundAssumption ==
    /\ MaxRequests \in Nat /\ MaxAttached \in Nat /\ MaxEdits \in Nat /\ MaxLeaves \in Nat
    /\ MaxFaults \in Nat /\ MaxQueue \in Nat /\ MaxStored \in Nat \ {0}

VARIABLES msgs,      \* the conversation as it was last rendered
          queue,     \* updaters React has not run
          shown,     \* isGenerating, as it was last rendered
          chat,      \* the chat handler's refs and its isRequesting
          ctl,       \* the stream controller, and isStreaming
          reqs,      \* the requests that were ever made
          stream,    \* config.stream
          editing,   \* the key of the message being edited, or 0
          sending,   \* the messages whose attachments are being read, with what they captured
          open,      \* the page is there
          latest, saving, stored, unsaved,
          edits, leaves, faults,
          overwrote  \* a saved edit has undone an update that was not rendered yet

vars == <<msgs, queue, shown, chat, ctl, reqs, stream, editing, sending, open,
          latest, saving, stored, unsaved, edits, leaves, faults, overwrote>>
budget == <<edits, leaves, faults>>
storage == <<stored, unsaved>>

(* What a message may say: the text of request r, an error, what the user   *)
(* typed. Request r's answer has key 2r, a question sent with it 2r - 1.    *)
ErrorText == 0
Typed == -1

Question(r) == [key |-> 2 * r - 1, from |-> "user", status |-> "none", text |-> {Typed}]
Loading(r) == [key |-> 2 * r, from |-> "assistant", status |-> "loading", text |-> {}]

isAssistantMessageFinal(x) == x.status \in {"complete", "error"}
isAssistantMessagePending(x) == x.status \in {"loading", "streaming"}
completeAssistantMessage(x) == [x EXCEPT !.status = "complete"]

FreshChat(g) == [gen |-> g, pgen |-> 0, ptext |-> {}, frame |-> 0, requesting |-> FALSE, aborter |-> 0]
FreshCtl(g) == [gen |-> g, source |-> 0, streaming |-> FALSE]
isGenerating(c, k) == c.requesting \/ k.streaming

Slots == 1..MaxAttached
NoMessage == [reading |-> FALSE, msgs |-> <<>>, stream |-> FALSE]

Init ==
    /\ msgs = <<>> /\ queue = <<>> /\ shown = FALSE
    /\ chat = FreshChat(0) /\ ctl = FreshCtl(0) /\ reqs = <<>>
    /\ stream = TRUE /\ editing = 0 /\ sending = [k \in Slots |-> NoMessage] /\ open = FALSE
    /\ latest = <<>> /\ saving = FALSE /\ stored = <<>> /\ unsaved = FALSE
    /\ edits = 0 /\ leaves = 0 /\ faults = 0 /\ overwrote = FALSE

-----------------------------------------------------------------------------
(* The updaters, by what they do to the last message when they are run      *)

Put(m) == [op |-> "put", msgs |-> m]
Delete(key) == [op |-> "remove", key |-> key]
Change(op, g, text) == [op |-> op, gen |-> g, text |-> text]

applyStreamingChunk(x, text) ==
    IF x.status = "error" THEN x
    ELSE [x EXCEPT !.status = "streaming", !.text = @ \cup text]

Updated(u, x) ==
    CASE u.op = "chunk"    -> applyStreamingChunk(x, u.text)
      [] u.op = "complete" -> IF isAssistantMessageFinal(x) THEN x ELSE completeAssistantMessage(x)
      [] u.op = "settle"   -> IF isAssistantMessagePending(x) THEN completeAssistantMessage(x) ELSE x
      [] u.op = "answer"   -> [completeAssistantMessage(x) EXCEPT !.text = u.text]
      [] u.op = "error"    -> [x EXCEPT !.status = "error", !.text = {ErrorText}]

updateLastAssistantMessage(m, u) ==
    IF m = <<>> \/ Last(m).from # "assistant" THEN m
    ELSE [m EXCEPT ![Len(m)] = Updated(u, @)]

(* The messages but those with this key *)
removeMessageByKey(m, key) ==
    LET kept[n \in 0..Len(m)] ==
          IF n = 0 THEN <<>>
          ELSE IF m[n].key = key THEN kept[n - 1] ELSE Append(kept[n - 1], m[n])
    IN  kept[Len(m)]

(* g is the chat handler's generation when the updater runs                 *)
Applied(u, m, g) ==
    CASE u.op = "put"    -> u.msgs
      [] u.op = "remove" -> removeMessageByKey(m, u.key)
      [] OTHER           -> IF u.gen # g THEN m ELSE updateLastAssistantMessage(m, u)

(* React runs the updaters one after the other *)
Drained(q, m, g) ==
    LET run[n \in 0..Len(q)] == IF n = 0 THEN m ELSE Applied(q[n], run[n - 1], g)
    IN  run[Len(q)]

(* setMessages may run the first updater of an empty queue at once          *)
Queuings(us) ==
    {us} \cup (IF queue = <<>> /\ us # <<>>
               THEN {<<Put(Applied(Head(us), msgs, chat.gen))>> \o Tail(us)} ELSE {})

(* Updates are queued; one that ran at once has already been persisted      *)
Deliver(us, c, k) ==
    \E q \in Queuings(us) :
       /\ queue' = queue \o q
       /\ latest' = IF q = us THEN latest ELSE Head(q).msgs
       /\ saving' = (saving \/ q # us)
       /\ chat' = c /\ ctl' = k
       /\ UNCHANGED <<msgs, shown>>

(* React renders: the queue is run, each updater persists what it returns   *)
Commit(us, c, k) ==
    LET q == queue \o us
        m == Drained(q, msgs, c.gen)
    IN  /\ msgs' = m /\ queue' = <<>> /\ shown' = isGenerating(c, k)
        /\ latest' = IF q = <<>> THEN latest ELSE m
        /\ saving' = (saving \/ q # <<>>)
        /\ chat' = c /\ ctl' = k

Render ==
    /\ open
    /\ queue # <<>> \/ shown # isGenerating(chat, ctl)
    /\ Commit(<<>>, chat, ctl)
    /\ UNCHANGED <<reqs, stream, editing, sending, open, storage, budget, overwrote>>

-----------------------------------------------------------------------------
(* The chat handler                                                         *)

DiscardFrameOnly(c, g) == [c EXCEPT !.frame = 0, !.pgen = g]
discardPendingStreamUpdates(c, g) == [c EXCEPT !.frame = 0, !.pgen = g, !.ptext = {}]

HasPending(c, g) == g = c.gen /\ c.pgen = g /\ c.ptext # {}

flushStreamUpdates(c, g) ==
    IF g # c.gen THEN c
    ELSE [c EXCEPT !.frame = 0, !.ptext = IF c.pgen = g THEN {} ELSE @]
Flushing(c, g) == IF HasPending(c, g) THEN <<Change("chunk", g, c.ptext)>> ELSE <<>>

handleStreamUpdate(c, g, r) ==
    IF g # c.gen \/ c.pgen # g THEN c
    ELSE [c EXCEPT !.ptext = @ \cup {r}, !.frame = IF @ = 0 THEN g ELSE @]

(* handleStreamComplete and handleStreamError: the pending text first       *)
Ended(c, g) == IF g # c.gen THEN c ELSE [flushStreamUpdates(c, g) EXCEPT !.requesting = FALSE]
Ending(c, g, op) == IF g # c.gen THEN <<>> ELSE Append(Flushing(c, g), Change(op, g, {}))

(* The frame that was asked for when text arrived                           *)
Frame ==
    /\ open /\ chat.frame # 0 /\ Len(queue) <= MaxQueue
    /\ LET c == [chat EXCEPT !.frame = 0]
       IN Deliver(Flushing(c, chat.frame), flushStreamUpdates(c, chat.frame), ctl)
    /\ UNCHANGED <<reqs, stream, editing, sending, open, storage, budget, overwrote>>

(* A source is closed and a fetch aborted                                   *)
Dropped(rs, k, c) ==
    [r \in DOMAIN rs |->
        [rs[r] EXCEPT !.at = IF r = k.source THEN "closed" ELSE @, !.aborted = @ \/ r = c.aborter]]

cancel(k) == [k EXCEPT !.gen = @ + 1, !.source = 0, !.streaming = FALSE]

(* sendChat: sendStreamingChat and the controller's send up to its await,   *)
(* or sendNonStreamingChat up to its own                                    *)
sendChat(next, streams) ==
    LET r == Len(reqs) + 1
        g == chat.gen + 1
        k == cancel(ctl)
        c == [discardPendingStreamUpdates(chat, g) EXCEPT
                 !.gen = g, !.requesting = TRUE, !.aborter = IF streams THEN 0 ELSE r]
    IN  /\ reqs' = Append(Dropped(reqs, ctl, chat),
                          [gen |-> g, sgen |-> k.gen, at |-> IF streams THEN "headers" ELSE "fetch",
                           aborted |-> FALSE])
        /\ Commit(<<Put(next)>>, c, k)

(* The update that ends the answer belongs to the generation after the stop *)
SettlingStopped(g) == Change("settle", g - 1, {})
Settling(g) == Change("settle", g, {})

stopGeneration ==
    /\ open /\ shown
    /\ LET g == chat.gen + 1
           c == [discardPendingStreamUpdates(chat, g) EXCEPT
                    !.gen = g, !.requesting = FALSE, !.aborter = 0]
       IN \E q \in Queuings(Flushing(chat, chat.gen)) :
             Commit(Append(q, Settling(g)), c, cancel(ctl))
    /\ reqs' = Dropped(reqs, ctl, chat)
    /\ UNCHANGED <<stream, editing, sending, open, storage, budget, overwrote>>

-----------------------------------------------------------------------------
(* The stream controller, and the answer to a request that does not stream  *)

Untouched == UNCHANGED <<stream, editing, sending, open, storage, budget, overwrote>>

isCurrent(r) == ctl.gen = reqs[r].sgen /\ ctl.source = r
Gone(r) == reqs' = [reqs EXCEPT ![r].at = "closed"]
Nothing == UNCHANGED <<msgs, queue, shown, chat, ctl, latest, saving>>

(* The headers are there: a source is made, unless the request was passed   *)
HeadersReadyUnchecked(r) ==
    /\ reqs[r].at = "headers"
    /\ reqs' = [reqs EXCEPT ![r].at = "open"]
    /\ Deliver(<<>>, chat, [ctl EXCEPT !.source = r, !.streaming = TRUE])
    /\ Untouched

HeadersReady(r) ==
    /\ reqs[r].at = "headers"
    /\ \/ /\ ctl.gen = reqs[r].sgen
          /\ reqs' = [reqs EXCEPT ![r].at = "open"]
          /\ Deliver(<<>>, chat, [ctl EXCEPT !.source = r, !.streaming = TRUE])
       \/ ctl.gen # reqs[r].sgen /\ Gone(r) /\ Nothing
    /\ Untouched

NoHeaders(r) ==
    /\ reqs[r].at = "headers"
    /\ \/ /\ ctl.gen = reqs[r].sgen
          /\ Deliver(Ending(chat, reqs[r].gen, "error"), Ended(chat, reqs[r].gen), ctl)
       \/ ctl.gen # reqs[r].sgen /\ Nothing
    /\ Gone(r) /\ Untouched

StreamUpdate(r) ==
    /\ reqs[r].at = "open" /\ isCurrent(r)
    /\ Deliver(<<>>, handleStreamUpdate(chat, reqs[r].gen, r), ctl)
    /\ UNCHANGED reqs /\ Untouched

closeActiveSource == [ctl EXCEPT !.source = 0, !.streaming = FALSE]

(* The last message of a stream, or its end; an error event, a message that *)
(* cannot be parsed, an HTTP error                                          *)
StreamEnd(r) ==
    /\ reqs[r].at = "open" /\ isCurrent(r)
    /\ \E op \in {"complete", "error"} :
          Deliver(Ending(chat, reqs[r].gen, op), Ended(chat, reqs[r].gen), closeActiveSource)
    /\ Gone(r) /\ Untouched

(* sendChatCompletion returns: an answer, none, or an error; an aborted     *)
(* request and one that was passed change nothing                           *)
FetchEndUnchecked(r) ==
    /\ open /\ reqs[r].at = "fetch"
    /\ Deliver(<<Change("answer", chat.gen, {r})>>, [chat EXCEPT !.aborter = 0, !.requesting = FALSE], ctl)
    /\ Gone(r) /\ Untouched

FetchEnd(r) ==
    /\ reqs[r].at = "fetch"
    /\ LET g == reqs[r].gen
           c == [Ended(chat, g) EXCEPT !.aborter = 0, !.requesting = FALSE]
       IN  \/ /\ ~reqs[r].aborted /\ chat.gen = g
              /\ \/ Deliver(<<Change("answer", g, {r})>>, [chat EXCEPT !.aborter = 0, !.requesting = FALSE], ctl)
                 \/ Deliver(Ending(chat, g, "error"), c, ctl)
           \/ (reqs[r].aborted \/ chat.gen # g) /\ Nothing
    /\ Gone(r) /\ Untouched

-----------------------------------------------------------------------------
(* The user. Actions on messages are refused while isGenerating is shown;   *)
(* an editor that is already open can still be saved.                       *)

Calm == open /\ ~shown

(* A message that is being prepared will be a request                       *)
MayAsk ==
    /\ Len(reqs) < MaxRequests
    /\ Len(reqs) + Cardinality({k \in Slots : sending[k].reading}) < MaxRequests
NextAnswer == Loading(Len(reqs) + 1)

(* appendUserMessagePair to the conversation of the handler's render        *)
handleSendMessage(m, streams) ==
    /\ Len(reqs) < MaxRequests
    /\ sendChat(m \o <<Question(Len(reqs) + 1), NextAnswer>>, streams)
    /\ UNCHANGED <<stream, editing, open, storage, budget, overwrote>>

(* Without attachments the submit event and the promise that follows it are *)
(* one task                                                                 *)
SubmitText ==
    /\ Calm /\ MayAsk
    /\ handleSendMessage(msgs, stream)
    /\ UNCHANGED sending

(* With attachments the files are read first                                *)
SubmitFiles(k) ==
    /\ Calm /\ MayAsk /\ ~sending[k].reading
    /\ sending' = [sending EXCEPT ![k] = [reading |-> TRUE, msgs |-> msgs, stream |-> stream]]
    /\ UNCHANGED <<msgs, queue, shown, chat, ctl, reqs, stream, editing, open,
                   latest, saving, storage, budget, overwrote>>

ReadOver(k) == sending' = [sending EXCEPT ![k] = NoMessage]

(* The message is sent with what was captured when it was submitted, the    *)
(* disabled flag included                                                   *)
FilesRead(k) ==
    /\ open /\ sending[k].reading
    /\ handleSendMessage(sending[k].msgs, sending[k].stream)
    /\ ReadOver(k)

(* onError: the message is not sent                                         *)
ReadFailed(k) ==
    /\ open /\ sending[k].reading
    /\ ReadOver(k)
    /\ UNCHANGED <<msgs, queue, shown, chat, ctl, reqs, stream, editing, open,
                   latest, saving, storage, budget, overwrote>>

handleRegenerateMessage(i) ==
    /\ Calm /\ MayAsk /\ i \in DOMAIN msgs
    /\ msgs[i].text # {} /\ ~isAssistantMessagePending(msgs[i])
    /\ sendChat(Append(SubSeq(msgs, 1, IF msgs[i].from = "user" THEN i ELSE i - 1), NextAnswer), stream)
    /\ UNCHANGED <<stream, editing, sending, open, storage, budget, overwrote>>

handleEditMessage(i) ==
    /\ Calm /\ edits < MaxEdits /\ i \in DOMAIN msgs
    /\ msgs[i].text # {}
    /\ editing' = msgs[i].key /\ edits' = edits + 1
    /\ Commit(<<>>, chat, ctl)
    /\ UNCHANGED <<reqs, stream, sending, open, storage, leaves, faults, overwrote>>

handleEditCancel ==
    /\ open /\ editing # 0
    /\ editing' = 0
    /\ Commit(<<>>, chat, ctl)
    /\ UNCHANGED <<reqs, stream, sending, open, storage, budget, overwrote>>

(* applyEdit: the conversation of the last render replaces whatever the     *)
(* queue would have made of it                                              *)
saveEdit(i) ==
    /\ open /\ editing # 0 /\ i \in DOMAIN msgs /\ msgs[i].key = editing
    /\ editing' = 0
    /\ overwrote' = (overwrote \/ Drained(queue, msgs, chat.gen) # msgs)
    /\ Commit(<<Put([msgs EXCEPT ![i].text = {Typed}])>>, chat, ctl)
    /\ UNCHANGED <<reqs, stream, sending, open, storage, budget>>

saveEditAndSubmit(i) ==
    /\ open /\ editing # 0 /\ MayAsk
    /\ i \in DOMAIN msgs /\ msgs[i].key = editing /\ msgs[i].from = "user"
    /\ editing' = 0
    /\ sendChat(Append(SubSeq(msgs, 1, i), NextAnswer), stream)
    /\ UNCHANGED <<stream, sending, open, storage, budget, overwrote>>

handleDeleteMessage(i) ==
    /\ Calm /\ i \in DOMAIN msgs
    /\ Commit(<<Delete(msgs[i].key)>>, chat, ctl)
    /\ UNCHANGED <<reqs, stream, editing, sending, open, storage, budget, overwrote>>

clearMessages ==
    /\ Calm /\ msgs # <<>>
    /\ editing' = 0
    /\ Commit(<<Put(<<>>)>>, chat, ctl)
    /\ UNCHANGED <<reqs, stream, sending, open, storage, budget, overwrote>>

updateConfig ==
    /\ Calm
    /\ stream' = ~stream
    /\ Commit(<<>>, chat, ctl)
    /\ UNCHANGED <<reqs, editing, sending, open, storage, budget, overwrote>>

-----------------------------------------------------------------------------
(* The storage                                                              *)

KeepAll(m) == m
trimMessages(m) == IF Len(m) <= MaxStored THEN m ELSE SubSeq(m, Len(m) - MaxStored + 1, Len(m))

(* saveMessages swallows the error of a full storage                        *)
saveMessages(m) ==
    \/ stored' = trimMessages(m) /\ unsaved' = FALSE /\ UNCHANGED faults
    \/ faults < MaxFaults /\ faults' = faults + 1 /\ unsaved' = TRUE /\ UNCHANGED stored

SaveTimer ==
    /\ open /\ saving
    /\ saving' = FALSE
    /\ saveMessages(latest)
    /\ UNCHANGED <<msgs, queue, shown, chat, ctl, reqs, stream, editing, sending, open, latest,
                   edits, leaves, overwrote>>

normalizeStoredMessageForLoad(x) ==
    IF isAssistantMessagePending(x) /\ x.text # {} THEN completeAssistantMessage(x) ELSE x

(* Only the last message that is still pending is repaired                  *)
sanitizeMessagesOnLoad(m) ==
    LET stuck == {i \in DOMAIN m : isAssistantMessagePending(m[i])}
        last == CHOOSE i \in stuck : \A j \in stuck : j <= i
    IN  IF stuck = {} THEN m
        ELSE [m EXCEPT ![last].status = "error", ![last].text = {ErrorText}]

Loaded(m) == sanitizeMessagesOnLoad([i \in DOMAIN m |-> normalizeStoredMessageForLoad(m[i])])

(* The page is opened; a stored conversation, which is saved again, is      *)
(* there before the user acts                                               *)
loadMessages ==
    /\ ~open /\ open' = TRUE
    /\ LET m == Loaded(stored)
       IN  /\ msgs' = m /\ latest' = m
           /\ IF stored = <<>> THEN unsaved' = FALSE /\ UNCHANGED <<stored, faults>>
              ELSE saveMessages(m)
    /\ UNCHANGED <<queue, shown, chat, ctl, reqs, stream, editing, sending, saving, edits, leaves,
                   overwrote>>

(* What is left of a page: its counters are ahead of all its requests       *)
Unmounted ==
    /\ open' = FALSE /\ leaves' = leaves + 1
    /\ msgs' = <<>> /\ queue' = <<>> /\ shown' = FALSE /\ editing' = 0 /\ saving' = FALSE
    /\ chat' = FreshChat(chat.gen + 1) /\ ctl' = FreshCtl(ctl.gen + 1)
    /\ UNCHANGED <<stream, edits, overwrote>>

TimerCleared == UNCHANGED <<storage, faults>>
SaveOnLeave == IF saving THEN saveMessages(latest) ELSE UNCHANGED <<storage, faults>>

(* The user goes to another page: the effects' cleanups. Leaving while files *)
(* are read is not modelled: the message would be sent by a page that is    *)
(* gone.                                                                    *)
Leave ==
    /\ open /\ leaves < MaxLeaves
    /\ \A k \in Slots : ~sending[k].reading
    /\ Unmounted
    /\ reqs' = Dropped(reqs, ctl, chat)
    /\ SaveOnLeave
    /\ UNCHANGED <<sending, latest>>

(* The tab is closed or crashes: nothing is cleaned up, and what the timer  *)
(* still holds is lost                                                      *)
Crash ==
    /\ open /\ leaves < MaxLeaves
    /\ Unmounted
    /\ reqs' = [r \in DOMAIN reqs |-> [reqs[r] EXCEPT !.at = "closed"]]
    /\ sending' = [k \in Slots |-> NoMessage]
    /\ unsaved' = (unsaved \/ saving)
    /\ UNCHANGED <<latest, stored, faults>>

Network(r) ==
    \/ HeadersReady(r) \/ NoHeaders(r) \/ StreamUpdate(r) \/ StreamEnd(r) \/ FetchEnd(r)

OnMessage(i) ==
    \/ handleRegenerateMessage(i) \/ handleEditMessage(i) \/ saveEdit(i)
    \/ saveEditAndSubmit(i) \/ handleDeleteMessage(i)

Next ==
    \/ Render \/ Frame \/ SaveTimer \/ loadMessages \/ Leave \/ Crash
    \/ stopGeneration \/ SubmitText \/ handleEditCancel \/ clearMessages \/ updateConfig
    \/ \E k \in Slots : SubmitFiles(k) \/ FilesRead(k) \/ ReadFailed(k)
    \/ \E r \in DOMAIN reqs : Network(r)
    \/ \E i \in DOMAIN msgs : OnMessage(i)

Spec == Init /\ [][Next]_vars

-----------------------------------------------------------------------------

MessageOK(x) ==
    /\ x.from \in {"user", "assistant"}
    /\ x.status \in {"none", "loading", "streaming", "complete", "error"}
    /\ x.text \subseteq (-1)..MaxRequests

(* The shape of the state; the storage holds at most MaxStored messages     *)
(* (trimMessages) and no page has a frame or a pending buffer of a request  *)
(* that is still to come.                                                   *)
TypeOK ==
    /\ \A m \in {msgs, latest, stored} : \A i \in DOMAIN m : MessageOK(m[i])
    /\ Len(stored) <= MaxStored /\ Len(reqs) <= MaxRequests
    /\ chat.frame <= chat.gen /\ chat.pgen <= chat.gen
    /\ ctl.source \in 0..Len(reqs) /\ chat.aborter \in 0..Len(reqs)
    /\ \A k \in Slots :
          /\ sending[k].reading => open
          /\ \A i \in DOMAIN sending[k].msgs : MessageOK(sending[k].msgs[i])
    /\ \A b \in {shown, stream, open, saving, unsaved, overwrote} : b \in BOOLEAN

(* An answer holds the text of its own request and of no other, whatever    *)
(* was stopped, sent again or edited while text of an earlier request was   *)
(* buffered for a frame, queued in React or still on the network.           *)
AnswersKeepToTheirRequest ==
    \A i \in DOMAIN msgs : \A t \in msgs[i].text : t > 0 => msgs[i].key = 2 * t

(* When the page says that nothing is being generated and everything is     *)
(* rendered, no message shows a spinner: every way a request can end, a     *)
(* stop and a reload leave the last answer complete or in error. The one    *)
(* exception is an edit that is saved between the end of an answer and its  *)
(* render, since applyEdit puts back the conversation of the last render.   *)
IdleIsSettled ==
    open /\ queue = <<>> /\ ~isGenerating(chat, ctl) /\ ~overwrote =>
        \A i \in DOMAIN msgs : ~isAssistantMessagePending(msgs[i])

(* A connection is open only for the request the chat handler waits for:    *)
(* stopping, leaving or sending again while the headers are awaited leaves  *)
(* no stream behind. (Leave does not cover files that are being read.)      *)
NoStreamLeftOpen ==
    \A r \in DOMAIN reqs :
        reqs[r].at = "open" => open /\ ctl.source = r /\ reqs[r].gen = chat.gen

(* What the user has seen is in the storage or is about to be written: the  *)
(* timer is set, and leaving the page writes what the timer still holds.    *)
(* The exceptions are a write that the browser refused, and a tab that      *)
(* crashed before the timer: nothing else is ever lost.                     *)
SeenIsKept == ~unsaved /\ stored # trimMessages(latest) => open /\ saving

(* An answer that is complete or in error stays as it is, until the user    *)
(* edits it: no frame, late event or second end reopens or changes it. Only *)
(* a message with attachments, sent when its files were read, puts an answer *)
(* back to what it was when the message was submitted, which undoes edits   *)
(* made meanwhile but leaves no answer pending.                             *)
PutBack(k) == sending[k].reading /\ ~sending'[k].reading
EndedAnswersStay ==
    [][\A i \in DOMAIN msgs, j \in DOMAIN msgs' :
          msgs[i].key = msgs'[j].key /\ isAssistantMessageFinal(msgs[i]) /\ ~overwrote' =>
              \/ /\ msgs'[j].status = msgs[i].status
                 /\ msgs'[j].text \in {msgs[i].text, {Typed}}
              \/ /\ ~isAssistantMessagePending(msgs'[j])
                 /\ \E k \in Slots :
                       /\ PutBack(k)
                       /\ \E p \in DOMAIN sending[k].msgs : sending[k].msgs[p] = msgs'[j]]_vars

=============================================================================
