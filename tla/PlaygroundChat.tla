---------------------------- MODULE PlaygroundChat ----------------------------
(***************************************************************************)
(* One conversation of the playground page (web/src/features/playground):  *)
(* the chat handler and its stream controller, the conversation actions,   *)
(* and the message list with its debounced copy in localStorage.           *)
(*                                                                         *)
(* Stream events and timers queue React state updates; React evaluates the *)
(* queued updaters later, in order, when it renders.  A click renders      *)
(* before the next event, so its updates are evaluated in its own step,    *)
(* but the click handler itself sees the list as it was last rendered.     *)
(*                                                                         *)
(* Abstractions.  The list holds the answers; the prompt of an answer is   *)
(* its key, which a retry keeps.  A delta is one word, a snapshot all the  *)
(* words so far; a stream may repeat a word.  Reasoning and content are    *)
(* not told apart.  Generations are not reused when the page is mounted    *)
(* again.  The editor is that of a prompt; a prompt whose answer is        *)
(* deleted is forgotten.                                                   *)
(***************************************************************************)
EXTENDS Integers, Sequences, SequencesExt

CONSTANTS
    MaxSends,    \* bound: requests sent
    MaxPieces,   \* bound: chunks of a stream
    MaxEdits,    \* bound: editors opened
    MaxVisits,   \* bound: times the page is opened
    Word         \* per request: the words the server answers with

ASSUME PlaygroundBounds ==
    /\ MaxSends \in Nat \ {0} /\ MaxPieces \in Nat \ {0}
    /\ MaxEdits \in Nat /\ MaxVisits \in Nat
    /\ Word \in [1..MaxSends -> [1..MaxPieces -> Nat]]

VARIABLES
    gen,      \* requestGenerationRef
    ctl,      \* the stream controller: its generation and its source
    conn,     \* per request: how it was sent and how far it has come
    pend,     \* pendingStreamChunksRef
    timer,    \* the generation the flush timer was set for, 0 when unset
    latch,    \* the request whose promise activeResultRef resolves, or 0
    draft,    \* the composer's claim: failed pair, request that may make one
    queue,    \* state updaters React has not evaluated
    flags,    \* isStreaming and isRequesting as last set
    busy,     \* isGenerating as last rendered
    msgs,     \* the messages as last rendered
    editor,   \* key of the prompt whose editor is open, or 0
    disk,     \* the stored messages
    dirty,    \* the save timer is running
    page,     \* "open", "left" or "lost"
    sends, edits, visits,   \* counters of the bounds
    lost      \* history: requests cut by a saved edit, a visit or a reload

vars == <<gen, ctl, conn, pend, timer, latch, draft, queue, flags, busy, msgs,
          editor, disk, dirty, page, sends, edits, visits, lost>>

Reqs == 1..MaxSends
Modes == {"delta", "snapshot", "plain"}
NoConn == [mode |-> "plain", st |-> "none", gen |-> 0, cgen |-> 0, got |-> 0]
NoDraft == [failed |-> 0, owner |-> 0]
IdleFlags == [streaming |-> FALSE, requesting |-> FALSE]

\* What a request has delivered when i chunks of it were accepted.
Piece(r, k) == <<r, Word[r][k]>>
Pieces(r, i) == [k \in 1..i |-> Piece(r, k)]
Chunk(r, i) ==
    IF conn[r].mode = "delta" THEN <<Piece(r, i)>> ELSE Pieces(r, i)

(***************************************************************************)
(* Messages.                                                               *)
(***************************************************************************)
Loading(key, r) == [key |-> key, req |-> r, text |-> <<>>, st |-> "loading"]
Pending(m) == m.st \in {"loading", "streaming"}

\* mergePendingStreamChunk (text is the buffer since the last flush) and
\* getAppendableChunk (text is the answer): a chunk that begins with the whole
\* text is taken for a snapshot and replaces it.  So a delta that repeats the
\* buffer, or a batch that repeats the answer, is swallowed.
Merge(text, chunk) ==
    IF text # <<>> /\ IsPrefix(text, chunk) THEN chunk ELSE text \o chunk

\* Mutant: completion uses a status the load check does not know.
CompletedDone(m) == [m EXCEPT !.st = "done"]

\* applyStreamingChunk, completeAssistantMessage and
\* updateAssistantMessageWithError.
Streamed(m, text) ==
    IF m.st = "error" THEN m
    ELSE [m EXCEPT !.text = Merge(@, text), !.st = "streaming"]
Completed(m) == [m EXCEPT !.st = "complete"]
Failed(m) == [m EXCEPT !.text = <<>>, !.st = "error"]

Updated(m, u) ==
    CASE u.kind = "batch" -> Streamed(m, u.text)
      [] u.kind = "complete" -> IF Pending(m) THEN Completed(m) ELSE m
      [] u.kind = "error" -> Failed(m)
      [] u.kind = "response" -> Completed([m EXCEPT !.text = u.text])

UpdateLast(list, u) ==
    IF list = <<>> THEN list ELSE [list EXCEPT ![Len(list)] = Updated(@, u)]

(***************************************************************************)
(* State updaters.  All but a batch of chunks look at the generation when  *)
(* they are evaluated.                                                     *)
(***************************************************************************)
Updater(kind, g, text, list) ==
    [kind |-> kind, g |-> g, text |-> text, list |-> list]

\* removeMessageByKey: no two messages have the same key, so the filter
\* removes one.
Removed(list, r) == RemoveFirstMatch(list, LAMBDA m : m.req = r)

\* Mutant: a queued batch is dropped when Stop came before React evaluates it.
EvaluateGuarded(u, list, g) ==
    IF u.kind = "set" THEN u.list
    ELSE IF u.kind = "remove" THEN Removed(list, u.g)
    ELSE IF u.g # g THEN list ELSE UpdateLast(list, u)

Evaluate(u, list, g) ==
    IF u.kind = "set" THEN u.list
    ELSE IF u.kind = "remove" THEN Removed(list, u.g)
    ELSE IF u.kind # "batch" /\ u.g # g THEN list ELSE UpdateLast(list, u)

EvaluateAll(q, list, g) ==
    FoldLeft(LAMBDA acc, u : Evaluate(u, acc, g), list, q)

\* Evaluating an updater also restarts the save timer (persistMessages).
Rendered(q, g) ==
    /\ msgs' = IF q = <<>> THEN msgs ELSE EvaluateAll(q, msgs, g)
    /\ dirty' = (dirty \/ q # <<>>)
    /\ busy' = (flags'.streaming \/ flags'.requesting)
    /\ queue' = <<>>

Render ==
    /\ page = "open"
    /\ queue # <<>> \/ busy # (flags.streaming \/ flags.requesting)
    /\ flags' = flags
    /\ Rendered(queue, gen)
    /\ UNCHANGED <<gen, ctl, conn, pend, timer, latch, draft, editor, disk, page,
                   sends, edits, visits, lost>>

(***************************************************************************)
(* Chunks: handleStreamUpdate, scheduleStreamFlush, flushStreamUpdates.    *)
(***************************************************************************)
\* The batch that flushStreamUpdates(g) queues.
Batch(g) ==
    IF g = gen /\ pend.gen = g /\ pend.text # <<>>
    THEN <<Updater("batch", g, pend.text, <<>>)>> ELSE <<>>

Flush(g) ==
    IF g # gen THEN UNCHANGED <<pend, timer>>
    ELSE /\ timer' = 0
         /\ pend' = IF pend.gen = g THEN [pend EXCEPT !.text = <<>>] ELSE pend

\* isCurrent of the controller's listeners.
IsCurrent(r) == ctl.gen = conn[r].cgen /\ ctl.src = r

StreamChunk(r) ==
    /\ conn[r].st = "open" /\ conn[r].got < MaxPieces
    /\ IsCurrent(r) /\ conn[r].gen = gen /\ pend.gen = gen
    /\ pend' = [pend EXCEPT !.text = Merge(@, Chunk(r, conn[r].got + 1))]
    /\ timer' = IF timer = 0 THEN gen ELSE timer
    /\ conn' = [conn EXCEPT ![r].got = @ + 1]
    /\ UNCHANGED <<gen, ctl, latch, draft, queue, flags, busy, msgs, editor, disk,
                   dirty, page, sends, edits, visits, lost>>

FlushTimer ==
    /\ timer # 0
    /\ queue' = queue \o Batch(timer)
    /\ Flush(timer)
    /\ UNCHANGED <<gen, ctl, conn, latch, draft, flags, busy, msgs, editor, disk,
                   dirty, page, sends, edits, visits, lost>>

(***************************************************************************)
(* settleRequest, and the continuation of the action that sent the         *)
(* request: the composer owns a pair that failed.                          *)
(***************************************************************************)
Settled(success) ==
    IF latch = 0 \/ draft.owner # latch THEN draft
    ELSE [failed |-> IF success THEN 0 ELSE latch, owner |-> 0]

\* handleStreamComplete and handleStreamError of a request of generation g.
Finish(g, kind, success) ==
    IF g # gen THEN UNCHANGED <<pend, timer, queue, latch, draft>>
    ELSE /\ queue' = queue \o Batch(g) \o <<Updater(kind, g, <<>>, <<>>)>>
         /\ Flush(g)
         /\ latch' = 0 /\ draft' = Settled(success)

\* Mutant: the end of a stream leaves isRequesting set.
StreamEndRequesting(r, kind, success) ==
    /\ conn[r].st = "open" /\ IsCurrent(r)
    /\ conn' = [conn EXCEPT ![r].st = "closed"]
    /\ ctl' = [ctl EXCEPT !.src = 0]
    /\ flags' = [flags EXCEPT !.streaming = FALSE]
    /\ Finish(conn[r].gen, kind, success)
    /\ UNCHANGED <<gen, busy, msgs, editor, disk, dirty, page, sends, edits,
                   visits, lost>>

StreamEnd(r, kind, success) ==
    /\ conn[r].st = "open" /\ IsCurrent(r)
    /\ conn' = [conn EXCEPT ![r].st = "closed"]
    /\ ctl' = [ctl EXCEPT !.src = 0]
    /\ flags' = [streaming |-> FALSE,
                 requesting |-> IF conn[r].gen = gen THEN FALSE
                                ELSE flags.requesting]
    /\ Finish(conn[r].gen, kind, success)
    /\ UNCHANGED <<gen, busy, msgs, editor, disk, dirty, page, sends, edits,
                   visits, lost>>

\* "[DONE]"; and an error event, an error chunk, a chunk that does not parse
\* or a connection that closes early.
StreamDone(r) == StreamEnd(r, "complete", TRUE)
StreamError(r) == StreamEnd(r, "error", FALSE)

\* getHeaders resolves and the source is opened, unless another request or a
\* stop came first.
StreamOpen(r) ==
    /\ conn[r].st = "headers"
    /\ IF ctl.gen = conn[r].cgen
       THEN /\ conn' = [conn EXCEPT ![r].st = "open"]
            /\ ctl' = [ctl EXCEPT !.src = r]
            /\ flags' = [flags EXCEPT !.streaming = TRUE]
       ELSE /\ conn' = [conn EXCEPT ![r].st = "closed"]
            /\ UNCHANGED <<ctl, flags>>
    /\ UNCHANGED <<gen, pend, timer, latch, draft, queue, busy, msgs, editor, disk,
                   dirty, page, sends, edits, visits, lost>>

\* getHeaders fails or the source cannot be made.
StreamStartError(r) ==
    /\ conn[r].st = "headers"
    /\ ctl.gen = conn[r].cgen
    /\ conn' = [conn EXCEPT ![r].st = "closed"]
    /\ Finish(conn[r].gen, "error", FALSE)
    /\ flags' = [flags EXCEPT !.requesting = IF conn[r].gen = gen THEN FALSE ELSE @]
    /\ UNCHANGED <<gen, ctl, busy, msgs, editor, disk, dirty, page, sends, edits,
                   visits, lost>>

(***************************************************************************)
(* sendNonStreamingChat after its await.  An answer that another request   *)
(* or a stop overtook is dropped.                                          *)
(***************************************************************************)
PlainAnswer(r) ==
    /\ conn[r].st = "plain" /\ conn[r].gen = gen
    /\ conn' = [conn EXCEPT ![r].st = "closed", ![r].got = MaxPieces]
    /\ queue' = Append(queue, Updater("response", gen, Pieces(r, MaxPieces), <<>>))
    /\ latch' = 0 /\ draft' = Settled(TRUE)
    /\ flags' = [flags EXCEPT !.requesting = FALSE]
    /\ UNCHANGED <<gen, ctl, pend, timer, busy, msgs, editor, disk, dirty, page,
                   sends, edits, visits, lost>>

PlainError(r) ==
    /\ conn[r].st = "plain" /\ conn[r].gen = gen
    /\ conn' = [conn EXCEPT ![r].st = "closed"]
    /\ Finish(gen, "error", FALSE)
    /\ flags' = [flags EXCEPT !.requesting = FALSE]
    /\ UNCHANGED <<gen, ctl, busy, msgs, editor, disk, dirty, page, sends, edits,
                   visits, lost>>

(***************************************************************************)
(* sendChat: the latch, then sendStreamingChat or sendNonStreamingChat.    *)
(* The caller replaces the list by its own copy with a loading answer.     *)
(***************************************************************************)
Dispatch(r, mode, list, claim) ==
    /\ latch = 0
    /\ gen' = gen + 1
    /\ pend' = [gen |-> gen + 1, text |-> <<>>] /\ timer' = 0
    /\ ctl' = [gen |-> ctl.gen + 1, src |-> 0]
    /\ conn' = [conn EXCEPT ![r] =
                  [mode |-> mode, st |-> IF mode = "plain" THEN "plain" ELSE "headers",
                   gen |-> gen + 1, cgen |-> ctl.gen + 1, got |-> 0]]
    /\ latch' = r
    /\ draft' = [failed |-> 0, owner |-> IF claim THEN r ELSE 0]
    /\ flags' = [streaming |-> FALSE, requesting |-> TRUE]
    /\ sends' = r
    /\ Rendered(Append(queue, Updater("set", 0, <<>>, list)), gen + 1)
    /\ UNCHANGED <<disk, page, edits, visits, lost>>

Keep(n) == SubSeq(msgs, 1, n)

\* handleSendMessage: a failed pair at the end that the composer still owns
\* is replaced.
SendMessage(mode) ==
    /\ page = "open" /\ ~busy /\ sends < MaxSends
    /\ LET r == sends + 1
           owned == msgs # <<>> /\ draft.failed # 0
                      /\ Last(msgs).req = draft.failed
           base == IF owned THEN Keep(Len(msgs) - 1) ELSE msgs
       IN  Dispatch(r, mode, Append(base, Loading(r, r)), TRUE)
    /\ UNCHANGED editor

\* handleRegenerateMessage of the answer at position i.
Regenerate(i, mode) ==
    /\ page = "open" /\ ~busy /\ sends < MaxSends
    /\ LET r == sends + 1
       IN  Dispatch(r, mode, Append(Keep(i - 1), Loading(msgs[i].key, r)),
                    msgs[i].req = draft.failed)
    /\ UNCHANGED editor

\* stopGeneration.
Stop ==
    /\ page = "open" /\ busy
    /\ gen' = gen + 1
    /\ pend' = [gen |-> gen + 1, text |-> <<>>] /\ timer' = 0
    /\ ctl' = [gen |-> ctl.gen + 1, src |-> 0]
    /\ latch' = 0 /\ draft' = Settled(FALSE)
    /\ flags' = IdleFlags
    /\ Rendered(queue \o Batch(gen)
                  \o <<Updater("complete", gen + 1, <<>>, <<>>)>>, gen + 1)
    /\ UNCHANGED <<conn, editor, disk, page, sends, edits, visits, lost>>

(***************************************************************************)
(* Editing and deleting.  An editor that is open stays open, and can be    *)
(* saved, while an answer is generated.                                    *)
(***************************************************************************)
EditOpen(i) ==
    /\ page = "open" /\ ~busy /\ edits < MaxEdits
    /\ editor' = msgs[i].key
    /\ edits' = edits + 1
    /\ draft' = NoDraft
    /\ UNCHANGED <<gen, ctl, conn, pend, timer, latch, queue, flags, busy, msgs,
                   disk, dirty, page, sends, visits, lost>>

Editing(i) == editor # 0 /\ msgs[i].key = editor

\* applyEdit without submit: the list of the last rendering, with the new
\* prompt, replaces the state.
EditSave(i) ==
    /\ page = "open" /\ Editing(i)
    /\ editor' = 0 /\ draft' = NoDraft
    /\ flags' = flags
    /\ Rendered(Append(queue, Updater("set", 0, <<>>, msgs)), gen)
    /\ lost' = IF queue = <<>> THEN lost ELSE lost \cup {sends}
    /\ UNCHANGED <<gen, ctl, conn, pend, timer, latch, disk, page, sends, edits,
                   visits>>

\* applyEdit with submit: what follows the prompt is cut off and asked again.
EditSubmit(i, mode) ==
    /\ page = "open" /\ Editing(i) /\ sends < MaxSends
    /\ Dispatch(sends + 1, mode, Append(Keep(i - 1), Loading(editor, sends + 1)),
                FALSE)
    /\ editor' = 0

\* handleEditOpenChange(FALSE).
EditCancel ==
    /\ page = "open" /\ editor # 0
    /\ editor' = 0 /\ draft' = NoDraft
    /\ UNCHANGED <<gen, ctl, conn, pend, timer, latch, queue, flags, busy, msgs,
                   disk, dirty, page, sends, edits, visits, lost>>

\* sendChat refuses (the latch is held, the key is gone): an edit has given up
\* the failed draft by then, a retry of that draft keeps it.
SendRefused(i) ==
    /\ page = "open" /\ draft # NoDraft
    /\ \/ Editing(i)
       \/ ~busy /\ msgs[i].req # draft.failed
    /\ draft' = NoDraft
    /\ UNCHANGED <<gen, ctl, conn, pend, timer, latch, queue, flags, busy, msgs,
                   editor, disk, dirty, page, sends, edits, visits, lost>>

\* handleDeleteMessage of an answer, and clearMessages.
DeleteBy(u) ==
    /\ page = "open" /\ ~busy
    /\ draft' = NoDraft
    /\ flags' = flags
    /\ Rendered(Append(queue, u), gen)
    /\ UNCHANGED <<gen, ctl, conn, pend, timer, latch, disk, page, sends, edits,
                   visits, lost>>

DeleteMessage(i) ==
    DeleteBy(Updater("remove", msgs[i].req, <<>>, <<>>)) /\ UNCHANGED editor
ClearMessages ==
    msgs # <<>> /\ DeleteBy(Updater("set", 0, <<>>, <<>>)) /\ editor' = 0

(***************************************************************************)
(* Storage: the save timer, leaving the page, losing it, and loading.      *)
(***************************************************************************)
SaveTimer ==
    /\ page = "open" /\ dirty
    /\ disk' = msgs /\ dirty' = FALSE
    /\ UNCHANGED <<gen, ctl, conn, pend, timer, latch, draft, queue, flags, busy,
                   msgs, editor, page, sends, edits, visits, lost>>

\* The effect cleanups run: the requests are abandoned, what React has not
\* evaluated is dropped, and a pending save is made at once.
Unmounted ==
    /\ gen' = gen + 1
    /\ ctl' = [gen |-> ctl.gen + 1, src |-> 0]
    /\ pend' = [gen |-> 0, text |-> <<>>] /\ timer' = 0
    /\ latch' = 0 /\ draft' = NoDraft /\ editor' = 0
    /\ queue' = <<>> /\ flags' = IdleFlags /\ busy' = FALSE
    /\ dirty' = FALSE
    /\ lost' = 1..sends
    /\ UNCHANGED <<conn, sends, edits, visits>>

\* Mutant: the save timer is cleared without saving.
LeaveUnsaved ==
    /\ page = "open"
    /\ Unmounted
    /\ page' = "left"
    /\ UNCHANGED <<disk, msgs>>

Leave ==
    /\ page = "open"
    /\ Unmounted
    /\ page' = "left"
    /\ disk' = IF dirty THEN msgs ELSE disk
    /\ UNCHANGED msgs

\* The document goes away: no cleanup runs.
Crash ==
    /\ page = "open"
    /\ Unmounted
    /\ page' = "lost"
    /\ UNCHANGED <<disk, msgs>>

\* loadMessages: every pending answer with text is completed, and the last
\* one without text becomes an interrupted error; the result is stored.
Sanitized(list) ==
    LET normal == [i \in DOMAIN list |->
                     IF Pending(list[i]) /\ list[i].text # <<>>
                     THEN Completed(list[i]) ELSE list[i]]
        last == {i \in DOMAIN normal : Pending(normal[i])
                   /\ \A j \in DOMAIN normal : j > i => ~Pending(normal[j])}
    IN  [i \in DOMAIN normal |-> IF i \in last THEN Failed(normal[i])
                                 ELSE normal[i]]

Load ==
    /\ page # "open" /\ visits < MaxVisits
    /\ page' = "open" /\ visits' = visits + 1
    /\ msgs' = Sanitized(disk) /\ disk' = Sanitized(disk)
    /\ UNCHANGED <<gen, ctl, conn, pend, timer, latch, draft, queue, flags, busy,
                   editor, dirty, sends, edits, lost>>

Init ==
    /\ gen = 0 /\ ctl = [gen |-> 0, src |-> 0]
    /\ conn = [r \in Reqs |-> NoConn]
    /\ pend = [gen |-> 0, text |-> <<>>] /\ timer = 0
    /\ latch = 0 /\ draft = NoDraft
    /\ queue = <<>> /\ flags = IdleFlags /\ busy = FALSE
    /\ msgs = <<>> /\ editor = 0
    /\ disk = <<>> /\ dirty = FALSE /\ page = "open"
    /\ sends = 0 /\ edits = 0 /\ visits = 0 /\ lost = {}

Network(r) ==
    StreamOpen(r) \/ StreamStartError(r) \/ StreamChunk(r) \/ StreamDone(r)
        \/ StreamError(r) \/ PlainAnswer(r) \/ PlainError(r)

Click(mode) ==
    \/ SendMessage(mode)
    \/ \E i \in DOMAIN msgs : Regenerate(i, mode) \/ EditSubmit(i, mode)

Next ==
    \/ \E r \in Reqs : Network(r)
    \/ \E mode \in Modes : Click(mode)
    \/ \E i \in DOMAIN msgs : EditOpen(i) \/ EditSave(i) \/ SendRefused(i)
                                \/ DeleteMessage(i)
    \/ Stop \/ EditCancel \/ ClearMessages
    \/ Render \/ FlushTimer \/ SaveTimer \/ Leave \/ Crash \/ Load

Spec == Init /\ [][Next]_vars

--------------------------------------------------------------------------------
(***************************************************************************)
(* Properties.                                                             *)
(***************************************************************************)
Texts == Seq(Reqs \X Nat)
Generations == 0..(2 * MaxSends + MaxVisits + 1)
Messages ==
    [key : Reqs, req : Reqs, text : Texts,
     st : {"loading", "streaming", "complete", "error"}]

\* Type invariant.
TypeOK ==
    /\ gen \in Generations
    /\ ctl \in [gen : Generations, src : 0..MaxSends]
    /\ conn \in [Reqs -> [mode : Modes,
                          st : {"none", "headers", "open", "plain", "closed"},
                          gen : Generations, cgen : Generations,
                          got : 0..MaxPieces]]
    /\ pend \in [gen : Generations, text : Texts]
    /\ timer \in Generations /\ latch \in 0..MaxSends
    /\ draft \in [failed : 0..MaxSends, owner : 0..MaxSends]
    /\ queue \in Seq([kind : {"set", "remove", "batch", "complete", "error", "response"},
                      g : Generations, text : Texts, list : Seq(Messages)])
    /\ flags \in [streaming : BOOLEAN, requesting : BOOLEAN]
    /\ busy \in BOOLEAN /\ dirty \in BOOLEAN
    /\ msgs \in Seq(Messages) /\ disk \in Seq(Messages)
    /\ editor \in 0..MaxSends /\ page \in {"open", "left", "lost"}
    /\ sends \in 0..MaxSends /\ edits \in 0..MaxEdits /\ visits \in 0..MaxVisits
    /\ lost \subseteq Reqs

\* Buffered text always has a timer that will flush it.
BufferFlushes == pend.text # <<>> => timer = gen

\* Nothing of the stream of r looks like a snapshot that is none.
Exact(r, mode) ==
    mode = "delta" =>
      \A j, k \in 1..MaxPieces : Word[r][j] = Word[r][k] => j = k

\* The text shows the first a chunks of request r: each of their words and no
\* other, and exactly the chunks, in order, unless a delta repeats a word.
Shows(text, r, mode, a) ==
    /\ ToSet(text) = ToSet(Pieces(r, a))
    /\ Exact(r, mode) => text = Pieces(r, a)

\* An answer never shows text of another request.  Unless it was cut by a saved
\* edit, a visit or a reload (lost), it shows the beginning of what its stream
\* delivered, and once React has caught up all of it, also the chunks buffered
\* or queued when Stop was pressed ("Keep it when Stop advances the generation
\* before React evaluates this updater").  A stream of deltas that repeats a
\* word may lose a repetition to Merge, but no word altogether.
ReceivedTextKept ==
    /\ \A i \in DOMAIN msgs :
         LET m == msgs[i]
             c == conn[m.req]
         IN  /\ \A k \in DOMAIN m.text : m.text[k][1] = m.req
             /\ m.req \notin lost =>
                  \E a \in 0..c.got : Shows(m.text, m.req, c.mode, a)
             /\ (/\ m.st # "error" /\ c.mode # "plain" /\ m.req \notin lost
                 /\ queue = <<>> /\ (pend.text = <<>> \/ pend.gen # c.gen))
                   => Shows(m.text, m.req, c.mode, c.got)
    /\ BufferFlushes

\* While a promise is unsettled its request can still settle it, and a page
\* that renders as idle holds no promise.
LatchSettles ==
    /\ latch # 0 =>
         /\ conn[latch].gen = gen
         /\ \/ conn[latch].st = "plain"
            \/ conn[latch].st = "headers" /\ ctl.gen = conn[latch].cgen
            \/ conn[latch].st = "open" /\ IsCurrent(latch)
    /\ page = "open" /\ ~busy => latch = 0

\* isGenerating, as it was last set, is true exactly while a request holds the
\* promise, which the network can still settle; so a page that renders as busy
\* has such a request or a rendering due.  Once it renders as idle no answer is
\* left loading or streaming, except one of a request that was cut (lost).
BusyIffActive ==
    /\ LatchSettles
    /\ flags.streaming \/ flags.requesting <=> latch # 0
    /\ page = "open" /\ ~busy =>
         \A i \in DOMAIN msgs : Pending(msgs[i]) => msgs[i].req \in lost

\* Leaving the page inside the application stores the conversation as it was
\* last rendered, whatever the save timer had or had not done.
LeaveSaves == page = "left" => disk = msgs

================================================================================
