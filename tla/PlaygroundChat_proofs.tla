------------------------ MODULE PlaygroundChat_proofs -------------------------
(***************************************************************************)
(* Proofs about the playground page, for any number of requests, chunks,   *)
(* edits and visits: the promise of a request, the buffer of its chunks,   *)
(* and the stored copy.                                                    *)
(*                                                                         *)
(* PageInv is the inductive invariant.  A promise can be settled by its    *)
(* own request only, and the request's callbacks are dropped when either   *)
(* generation has moved on; so the invariant says that of all the requests *)
(* sent only the last one can have the current generations.                *)
(***************************************************************************)
EXTENDS PlaygroundChat, TLAPS

Conns == [mode : Modes, st : {"none", "headers", "open", "plain", "closed"},
          gen : Nat, cgen : Nat, got : Nat]

Types ==
    /\ gen \in Nat /\ ctl \in [gen : Nat, src : Nat] /\ conn \in [Reqs -> Conns]
    /\ latch \in 0..MaxSends /\ sends \in 0..MaxSends
    /\ flags \in [streaming : BOOLEAN, requesting : BOOLEAN]
    /\ busy \in BOOLEAN /\ dirty \in BOOLEAN

(* Of the requests that were sent only the last one can be current.        *)
LastIsCurrent ==
    \A r \in Reqs : conn[r].st # "none" =>
        /\ r <= sends /\ conn[r].gen <= gen /\ conn[r].cgen <= ctl.gen
        /\ conn[r].gen = gen \/ conn[r].cgen = ctl.gen => r = sends

Latched ==
    latch # 0 =>
      /\ flags.requesting /\ page = "open" /\ busy
      /\ conn[latch].gen = gen
      /\ \/ conn[latch].st = "plain"
         \/ conn[latch].st = "headers" /\ ctl.gen = conn[latch].cgen
         \/ conn[latch].st = "open" /\ ctl.gen = conn[latch].cgen /\ ctl.src = latch

Buffered ==
    /\ timer \in {0, gen}
    /\ pend.text # <<>> => pend.gen = gen /\ timer = gen

Stored ==
    /\ page = "open" /\ ~dirty => disk = msgs
    /\ page = "left" => disk = msgs

PageInv == Types /\ LastIsCurrent /\ Latched /\ Buffered /\ Stored

--------------------------------------------------------------------------------
(***************************************************************************)
(* Steps that many actions share.                                          *)
(***************************************************************************)
LEMMA Bounds ==
    /\ MaxSends \in Nat \ {0} /\ MaxPieces \in Nat /\ Reqs = 1..MaxSends
    /\ 0 \notin Reqs
  BY PlaygroundBounds DEF Reqs

LEMMA FieldTypes ==
  ASSUME Types
  PROVE  /\ gen \in Nat /\ ctl.gen \in Nat /\ ctl.src \in Nat
         /\ \A r \in Reqs : /\ conn[r] \in Conns /\ conn[r].gen \in Nat
                            /\ conn[r].cgen \in Nat /\ conn[r].got \in Nat
         /\ flags.streaming \in BOOLEAN /\ flags.requesting \in BOOLEAN
         /\ latch # 0 => latch \in Reqs
         /\ sends \in Nat
  BY Bounds DEF Types, Conns

(* Rendering: the save timer runs again when something was evaluated.      *)
LEMMA RenderedStores ==
  ASSUME Types, Stored, NEW q, NEW g, page = "open", Rendered(q, g),
         UNCHANGED <<disk, page>>,
         flags' \in [streaming : BOOLEAN, requesting : BOOLEAN]
  PROVE  Stored' /\ busy' \in BOOLEAN /\ dirty' \in BOOLEAN
<1>1. busy' \in BOOLEAN /\ dirty' \in BOOLEAN  BY DEF Rendered
<1>2. Stored'
  <2>1. CASE q = <<>>  BY <2>1 DEF Rendered, Stored
  <2>2. CASE q # <<>>  BY <2>2 DEF Rendered, Stored
  <2> QED  BY <2>1, <2>2
<1> QED  BY <1>1, <1>2

LEMMA FlushBuffered ==
  ASSUME Types, Buffered, NEW g, Flush(g), gen' = gen
  PROVE  Buffered'
<1>1. CASE g # gen  BY <1>1 DEF Flush, Buffered
<1>2. CASE g = gen
  <2>1. timer' = 0  BY <1>2 DEF Flush
  <2>2. pend'.text # <<>> => FALSE
    <3>1. CASE pend.gen = g
      <4>1. pend' = [pend EXCEPT !.text = <<>>]  BY <1>2, <3>1 DEF Flush
      <4> QED  BY <4>1
    <3>2. CASE pend.gen # g  BY <1>2, <3>2 DEF Flush, Buffered
    <3> QED  BY <3>1, <3>2
  <2> QED  BY <2>1, <2>2 DEF Buffered
<1> QED  BY <1>1, <1>2

(* What a stored page depends on is left alone.                            *)
LEMMA StoredKept ==
  ASSUME Stored, UNCHANGED <<page, dirty, disk, msgs>>
  PROVE  Stored'
  BY DEF Stored

(* A request changes its own connection only, and never starts again.      *)
LEMMA ConnKept ==
  ASSUME Types, LastIsCurrent, NEW r \in Reqs, NEW c \in Conns,
         conn[r].st # "none", c.gen = conn[r].gen, c.cgen = conn[r].cgen,
         conn' = [conn EXCEPT ![r] = c], UNCHANGED <<gen, sends>>, ctl'.gen = ctl.gen
  PROVE  LastIsCurrent' /\ conn' \in [Reqs -> Conns] /\ conn'[r] = c
         /\ \A s \in Reqs \ {r} : conn'[s] = conn[s]
<1>1. /\ conn' \in [Reqs -> Conns] /\ conn'[r] = c
      /\ \A s \in Reqs \ {r} : conn'[s] = conn[s]
  BY DEF Types
<1>2. LastIsCurrent'  BY <1>1 DEF LastIsCurrent
<1> QED  BY <1>1, <1>2

(* A finished request of the current generation releases the promise; the  *)
(* end of another one leaves it alone.                                     *)
LEMMA FinishLatch ==
  ASSUME Types, NEW g, NEW kind, NEW ok, Finish(g, kind, ok)
  PROVE  /\ g = gen => latch' = 0 /\ Flush(g)
         /\ g # gen => latch' = latch /\ Flush(g)
  BY DEF Finish, Flush

--------------------------------------------------------------------------------
(***************************************************************************)
(* The network.                                                            *)
(***************************************************************************)
LEMMA StreamOpenStep ==
  ASSUME PageInv, NEW r \in Reqs, StreamOpen(r)
  PROVE  PageInv'
<1> USE FieldTypes DEF PageInv
<1>1. /\ conn[r].st = "headers"
      /\ UNCHANGED <<gen, pend, timer, latch, busy, msgs, disk, dirty, page, sends>>
  BY DEF StreamOpen
<1>2. Buffered' /\ Stored'  BY <1>1, StoredKept DEF Buffered
<1>3. CASE ctl.gen = conn[r].cgen
  <2>1. PICK c : c = [conn[r] EXCEPT !.st = "open"]  OBVIOUS
  <2>2. /\ c \in Conns /\ c.gen = conn[r].gen /\ c.cgen = conn[r].cgen /\ c.st = "open"
    BY <2>1 DEF Conns
  <2>3. conn' = [conn EXCEPT ![r] = c] /\ ctl' = [ctl EXCEPT !.src = r]
        /\ flags' = [flags EXCEPT !.streaming = TRUE]
    BY <1>3, <2>1 DEF StreamOpen
  <2>4. ctl' \in [gen : Nat, src : Nat] /\ ctl'.gen = ctl.gen /\ ctl'.src = r
    BY <2>3, Bounds DEF Types
  <2>5. /\ flags' \in [streaming : BOOLEAN, requesting : BOOLEAN]
        /\ flags'.requesting = flags.requesting
    BY <2>3 DEF Types
  <2>6. /\ LastIsCurrent' /\ conn' \in [Reqs -> Conns] /\ conn'[r] = c
        /\ \A s \in Reqs \ {r} : conn'[s] = conn[s]
    BY <1>1, <2>2, <2>3, <2>4, ConnKept
  <2>7. Types'  BY <1>1, <2>4, <2>5, <2>6 DEF Types
  <2>8. r = sends  BY <1>1, <1>3 DEF LastIsCurrent
  <2>9. latch # 0 => latch = r
    <3>1. latch # 0 => conn[latch].st # "none" /\ conn[latch].gen = gen  BY DEF Latched
    <3> QED  BY <2>8, <3>1 DEF LastIsCurrent
  <2>10. Latched'  BY <1>1, <1>3, <2>2, <2>4, <2>5, <2>6, <2>9 DEF Latched
  <2> QED  BY <1>2, <2>6, <2>7, <2>10
<1>4. CASE ctl.gen # conn[r].cgen
  <2>1. PICK c : c = [conn[r] EXCEPT !.st = "closed"]  OBVIOUS
  <2>2. /\ c \in Conns /\ c.gen = conn[r].gen /\ c.cgen = conn[r].cgen
    BY <2>1 DEF Conns
  <2>3. conn' = [conn EXCEPT ![r] = c] /\ UNCHANGED <<ctl, flags>>
    BY <1>4, <2>1 DEF StreamOpen
  <2>4. /\ LastIsCurrent' /\ conn' \in [Reqs -> Conns] /\ conn'[r] = c
        /\ \A s \in Reqs \ {r} : conn'[s] = conn[s]
    BY <1>1, <2>2, <2>3, ConnKept
  <2>5. Types'  BY <1>1, <2>3, <2>4 DEF Types
  <2>6. latch # r  BY <1>1, <1>4, Bounds DEF Latched
  <2>7. Latched'  BY <1>1, <2>3, <2>4, <2>6 DEF Latched
  <2> QED  BY <1>2, <2>4, <2>5, <2>7
<1> QED  BY <1>3, <1>4

(* The end of request r, whose callbacks are not dropped: r is the last    *)
(* request when its generation is the current one.                         *)
LEMMA EndStep ==
  ASSUME PageInv, NEW r \in Reqs, NEW c \in Conns,
         conn[r].st # "none", c.gen = conn[r].gen, c.cgen = conn[r].cgen,
         conn' = [conn EXCEPT ![r] = c],
         ctl' \in [gen : Nat, src : Nat], ctl'.gen = ctl.gen,
         ctl'.src = ctl.src \/ ctl.src = r,
         flags' \in [streaming : BOOLEAN, requesting : BOOLEAN],
         conn[r].gen # gen => flags'.requesting = flags.requesting,
         conn[r].gen = gen => latch' = 0,
         conn[r].gen # gen => latch' = latch,
         Flush(conn[r].gen) \/ UNCHANGED <<pend, timer>>,
         UNCHANGED <<gen, busy, msgs, disk, dirty, page, sends>>
  PROVE  PageInv'
<1> USE FieldTypes DEF PageInv
<1>1. /\ LastIsCurrent' /\ conn' \in [Reqs -> Conns] /\ conn'[r] = c
      /\ \A s \in Reqs \ {r} : conn'[s] = conn[s]
  BY ConnKept
<1>2. latch' \in 0..MaxSends  BY Bounds DEF Types
<1>3. Types'  BY <1>1, <1>2 DEF Types
<1>4. Buffered'  BY FlushBuffered DEF Buffered
<1>5. Latched'
  <2>1. CASE conn[r].gen = gen  BY <2>1 DEF Latched
  <2>2. CASE conn[r].gen # gen
    <3>1. latch # r  BY <2>2, Bounds DEF Latched
    <3> QED  BY <1>1, <2>2, <3>1 DEF Latched
  <2> QED  BY <2>1, <2>2
<1> QED  BY <1>1, <1>3, <1>4, <1>5, StoredKept

LEMMA ClosedFields ==
  ASSUME NEW c \in Conns
  PROVE  /\ [c EXCEPT !.st = "closed"] \in Conns
         /\ [c EXCEPT !.st = "closed"].gen = c.gen
         /\ [c EXCEPT !.st = "closed"].cgen = c.cgen
  BY DEF Conns

LEMMA StreamEndStep ==
  ASSUME PageInv, NEW r \in Reqs, NEW kind, NEW ok, StreamEnd(r, kind, ok)
  PROVE  PageInv'
<1> USE FieldTypes DEF PageInv
<1>1. /\ conn[r].st = "open" /\ ctl.src = r /\ ctl' = [ctl EXCEPT !.src = 0]
      /\ Finish(conn[r].gen, kind, ok)
      /\ UNCHANGED <<gen, busy, msgs, disk, dirty, page, sends>>
  BY DEF StreamEnd, IsCurrent
<1>2. PICK c : c = [conn[r] EXCEPT !.st = "closed"]  OBVIOUS
<1>3. c \in Conns /\ c.gen = conn[r].gen /\ c.cgen = conn[r].cgen
  BY <1>2, ClosedFields
<1>4. conn' = [conn EXCEPT ![r] = c]  BY <1>2 DEF StreamEnd
<1>5. ctl' \in [gen : Nat, src : Nat] /\ ctl'.gen = ctl.gen  BY <1>1 DEF Types
<1>6. PICK b \in BOOLEAN : b = IF conn[r].gen = gen THEN FALSE ELSE flags.requesting
  OBVIOUS
<1>7. flags' = [streaming |-> FALSE, requesting |-> b]  BY <1>6 DEF StreamEnd
<1>8. /\ flags' \in [streaming : BOOLEAN, requesting : BOOLEAN]
      /\ conn[r].gen # gen => flags'.requesting = flags.requesting
  BY <1>6, <1>7
<1>9. /\ conn[r].gen = gen => latch' = 0
      /\ conn[r].gen # gen => latch' = latch
      /\ Flush(conn[r].gen)
  BY <1>1, FinishLatch
<1> QED  BY <1>1, <1>3, <1>4, <1>5, <1>8, <1>9, EndStep

LEMMA StreamStartErrorStep ==
  ASSUME PageInv, NEW r \in Reqs, StreamStartError(r)
  PROVE  PageInv'
<1> USE FieldTypes DEF PageInv
<1>1. /\ conn[r].st = "headers" /\ Finish(conn[r].gen, "error", FALSE)
      /\ UNCHANGED <<gen, ctl, busy, msgs, disk, dirty, page, sends>>
  BY DEF StreamStartError
<1>2. PICK c : c = [conn[r] EXCEPT !.st = "closed"]  OBVIOUS
<1>3. c \in Conns /\ c.gen = conn[r].gen /\ c.cgen = conn[r].cgen
  BY <1>2, ClosedFields
<1>4. conn' = [conn EXCEPT ![r] = c]  BY <1>2 DEF StreamStartError
<1>5. ctl' \in [gen : Nat, src : Nat]  BY <1>1 DEF Types
<1>6. PICK b \in BOOLEAN : b = IF conn[r].gen = gen THEN FALSE ELSE flags.requesting
  OBVIOUS
<1>7. flags' = [flags EXCEPT !.requesting = b]  BY <1>6 DEF StreamStartError
<1>8. /\ flags' \in [streaming : BOOLEAN, requesting : BOOLEAN]
      /\ conn[r].gen # gen => flags'.requesting = flags.requesting
  BY <1>6, <1>7 DEF Types
<1>9. /\ conn[r].gen = gen => latch' = 0
      /\ conn[r].gen # gen => latch' = latch
      /\ Flush(conn[r].gen)
  BY <1>1, FinishLatch
<1> QED  BY <1>1, <1>3, <1>4, <1>5, <1>8, <1>9, EndStep

LEMMA PlainErrorStep ==
  ASSUME PageInv, NEW r \in Reqs, PlainError(r)
  PROVE  PageInv'
<1> USE FieldTypes DEF PageInv
<1>1. /\ conn[r].st = "plain" /\ conn[r].gen = gen /\ Finish(gen, "error", FALSE)
      /\ flags' = [flags EXCEPT !.requesting = FALSE]
      /\ UNCHANGED <<gen, ctl, busy, msgs, disk, dirty, page, sends>>
  BY DEF PlainError
<1>2. PICK c : c = [conn[r] EXCEPT !.st = "closed"]  OBVIOUS
<1>3. c \in Conns /\ c.gen = conn[r].gen /\ c.cgen = conn[r].cgen
  BY <1>2, ClosedFields
<1>4. conn' = [conn EXCEPT ![r] = c]  BY <1>2 DEF PlainError
<1>5. ctl' \in [gen : Nat, src : Nat]  BY <1>1 DEF Types
<1>6. flags' \in [streaming : BOOLEAN, requesting : BOOLEAN]  BY <1>1 DEF Types
<1>7. latch' = 0 /\ Flush(conn[r].gen)  BY <1>1, FinishLatch
<1> QED  BY <1>1, <1>3, <1>4, <1>5, <1>6, <1>7, EndStep

LEMMA PlainAnswerStep ==
  ASSUME PageInv, NEW r \in Reqs, PlainAnswer(r)
  PROVE  PageInv'
<1> USE FieldTypes DEF PageInv
<1>1. /\ conn[r].st = "plain" /\ conn[r].gen = gen /\ latch' = 0
      /\ flags' = [flags EXCEPT !.requesting = FALSE]
      /\ UNCHANGED <<gen, ctl, pend, timer, busy, msgs, disk, dirty, page, sends>>
  BY DEF PlainAnswer
<1>2. PICK c : c = [conn[r] EXCEPT !.st = "closed", !.got = MaxPieces]  OBVIOUS
<1>3. c \in Conns /\ c.gen = conn[r].gen /\ c.cgen = conn[r].cgen
  BY <1>2, Bounds DEF Conns
<1>4. conn' = [conn EXCEPT ![r] = c]  BY <1>2 DEF PlainAnswer, Types
<1>5. ctl' \in [gen : Nat, src : Nat]  BY <1>1 DEF Types
<1>6. flags' \in [streaming : BOOLEAN, requesting : BOOLEAN]  BY <1>1 DEF Types
<1> QED  BY <1>1, <1>3, <1>4, <1>5, <1>6, EndStep

LEMMA StreamChunkStep ==
  ASSUME PageInv, NEW r \in Reqs, StreamChunk(r)
  PROVE  PageInv'
<1> USE FieldTypes DEF PageInv
<1>1. /\ conn[r].st = "open" /\ pend.gen = gen
      /\ pend' = [pend EXCEPT !.text = Merge(@, Chunk(r, conn[r].got + 1))]
      /\ timer' = IF timer = 0 THEN gen ELSE timer
      /\ UNCHANGED <<gen, ctl, latch, flags, busy, msgs, disk, dirty, page, sends>>
  BY DEF StreamChunk
<1>2. PICK n \in Nat : n = conn[r].got + 1  OBVIOUS
<1>3. PICK c : c = [conn[r] EXCEPT !.got = n]  OBVIOUS
<1>4. /\ c \in Conns /\ c.gen = conn[r].gen /\ c.cgen = conn[r].cgen
      /\ c.st = conn[r].st
  BY <1>3 DEF Conns
<1>5. conn' = [conn EXCEPT ![r] = c]  BY <1>2, <1>3 DEF StreamChunk, Types
<1>6. /\ LastIsCurrent' /\ conn' \in [Reqs -> Conns] /\ conn'[r] = c
      /\ \A s \in Reqs \ {r} : conn'[s] = conn[s]
  BY <1>1, <1>4, <1>5, ConnKept
<1>7. Types'  BY <1>1, <1>6 DEF Types
<1>8. Latched'  BY <1>1, <1>4, <1>6 DEF Latched
<1>9. Buffered'
  <2>1. timer' = gen  BY <1>1 DEF Buffered
  <2>2. pend'.gen = gen  BY <1>1
  <2> QED  BY <1>1, <2>1, <2>2 DEF Buffered
<1> QED  BY <1>1, <1>6, <1>7, <1>8, <1>9, StoredKept

LEMMA NetworkStep ==
  ASSUME PageInv, NEW r \in Reqs, Network(r)
  PROVE  PageInv'
  BY StreamOpenStep, StreamStartErrorStep, StreamChunkStep, StreamEndStep,
     PlainAnswerStep, PlainErrorStep
  DEF Network, StreamDone, StreamError

--------------------------------------------------------------------------------
(***************************************************************************)
(* What the user does.                                                     *)
(***************************************************************************)
LEMMA DispatchStep ==
  ASSUME PageInv, page = "open", sends < MaxSends, NEW mode \in Modes, NEW list, NEW claim,
         Dispatch(sends + 1, mode, list, claim)
  PROVE  PageInv'
<1> USE FieldTypes DEF PageInv
<1>1. PICK r \in Reqs : r = sends + 1  BY Bounds DEF Types
<1>2. /\ gen' = gen + 1 /\ timer' = 0 /\ latch' = r /\ sends' = r
      /\ pend' = [gen |-> gen + 1, text |-> <<>>]
      /\ ctl' = [gen |-> ctl.gen + 1, src |-> 0]
      /\ flags' = [streaming |-> FALSE, requesting |-> TRUE]
      /\ UNCHANGED <<disk, page>>
  BY <1>1 DEF Dispatch
<1>3. PICK q : Rendered(q, gen + 1)  BY DEF Dispatch
<1>4. PICK st \in {"plain", "headers"} : st = IF mode = "plain" THEN "plain" ELSE "headers"
  OBVIOUS
<1>5. PICK c : c = [mode |-> mode, st |-> st, gen |-> gen + 1, cgen |-> ctl.gen + 1, got |-> 0]
  OBVIOUS
<1>6. c \in Conns /\ c.st = st /\ c.gen = gen + 1 /\ c.cgen = ctl.gen + 1
  BY <1>5 DEF Conns
<1>7. /\ conn' \in [Reqs -> Conns] /\ conn'[r] = c
      /\ \A s \in Reqs \ {r} : conn'[s] = conn[s]
  BY <1>1, <1>4, <1>5, <1>6 DEF Dispatch, Types
<1>8. /\ flags' \in [streaming : BOOLEAN, requesting : BOOLEAN] /\ flags'.requesting
      /\ ctl' \in [gen : Nat, src : Nat] /\ ctl'.gen = ctl.gen + 1
      /\ latch' \in 0..MaxSends /\ sends' \in 0..MaxSends
  BY <1>1, <1>2, Bounds
<1>9. Stored' /\ busy' \in BOOLEAN /\ dirty' \in BOOLEAN
  BY <1>2, <1>3, <1>8, RenderedStores
<1>10. busy'  BY <1>3, <1>8 DEF Rendered
<1>11. Types'  BY <1>2, <1>7, <1>8, <1>9 DEF Types
<1>12. LastIsCurrent'
  <2> SUFFICES ASSUME NEW s \in Reqs, conn'[s].st # "none"
               PROVE  /\ s <= sends' /\ conn'[s].gen <= gen' /\ conn'[s].cgen <= ctl'.gen
                      /\ conn'[s].gen = gen' \/ conn'[s].cgen = ctl'.gen => s = sends'
    BY DEF LastIsCurrent
  <2>1. CASE s = r  BY <1>2, <1>6, <1>7, <1>8, <2>1, Bounds
  <2>2. CASE s # r
    <3>1. conn'[s] = conn[s] /\ s \in Nat  BY <1>7, <2>2, Bounds
    <3>2. s <= sends /\ conn[s].gen <= gen /\ conn[s].cgen <= ctl.gen
      BY <3>1 DEF LastIsCurrent
    <3> QED  BY <1>1, <1>2, <1>8, <3>1, <3>2
  <2> QED  BY <2>1, <2>2
<1>13. Latched'
  <2>1. conn'[latch'].st \in {"plain", "headers"}  BY <1>2, <1>6, <1>7
  <2> QED  BY <1>2, <1>6, <1>7, <1>8, <1>10, <2>1 DEF Latched
<1>14. Buffered'  BY <1>2 DEF Buffered
<1> QED  BY <1>9, <1>11, <1>12, <1>13, <1>14

LEMMA ClickStep ==
  ASSUME PageInv, NEW mode \in Modes, Click(mode)
  PROVE  PageInv'
<1>1. CASE SendMessage(mode)  BY <1>1, DispatchStep DEF SendMessage
<1>2. ASSUME NEW i \in DOMAIN msgs, Regenerate(i, mode)  PROVE PageInv'
  BY <1>2, DispatchStep DEF Regenerate
<1>3. ASSUME NEW i \in DOMAIN msgs, EditSubmit(i, mode)  PROVE PageInv'
  BY <1>3, DispatchStep DEF EditSubmit
<1> QED  BY <1>1, <1>2, <1>3 DEF Click

(* A generation that moves leaves no request current.                      *)
LEMMA NoneCurrent ==
  ASSUME Types, LastIsCurrent, gen' = gen + 1, ctl'.gen = ctl.gen + 1,
         UNCHANGED <<conn, sends>>
  PROVE  LastIsCurrent'
<1> USE FieldTypes
<1> SUFFICES ASSUME NEW s \in Reqs, conn[s].st # "none"
             PROVE  /\ s <= sends /\ conn[s].gen <= gen' /\ conn[s].cgen <= ctl'.gen
                    /\ conn[s].gen = gen' \/ conn[s].cgen = ctl'.gen => s = sends
  BY DEF LastIsCurrent
<1>1. s <= sends /\ conn[s].gen <= gen /\ conn[s].cgen <= ctl.gen  BY DEF LastIsCurrent
<1> QED  BY <1>1

LEMMA StopStep ==
  ASSUME PageInv, Stop
  PROVE  PageInv'
<1> USE FieldTypes DEF PageInv
<1>1. /\ page = "open" /\ gen' = gen + 1 /\ timer' = 0 /\ latch' = 0
      /\ pend' = [gen |-> gen + 1, text |-> <<>>]
      /\ ctl' = [gen |-> ctl.gen + 1, src |-> 0] /\ flags' = IdleFlags
      /\ UNCHANGED <<conn, disk, page, sends>>
  BY DEF Stop
<1>2. PICK q : Rendered(q, gen + 1)  BY DEF Stop
<1>3. /\ flags' \in [streaming : BOOLEAN, requesting : BOOLEAN]
      /\ ctl' \in [gen : Nat, src : Nat] /\ ctl'.gen = ctl.gen + 1
      /\ latch' \in 0..MaxSends
  BY <1>1, Bounds DEF IdleFlags
<1>4. Stored' /\ busy' \in BOOLEAN /\ dirty' \in BOOLEAN
  BY <1>1, <1>2, <1>3, RenderedStores
<1>5. Types'  BY <1>1, <1>3, <1>4 DEF Types
<1>6. LastIsCurrent'  BY <1>1, <1>3, NoneCurrent
<1> QED  BY <1>1, <1>4, <1>5, <1>6 DEF Latched, Buffered

(* A rendering that changes no request.                                    *)
LEMMA RenderStep ==
  ASSUME PageInv, page = "open", NEW q, Rendered(q, gen), flags' = flags,
         UNCHANGED <<gen, ctl, conn, pend, timer, latch, disk, page, sends>>
  PROVE  PageInv'
<1> USE FieldTypes DEF PageInv
<1>1. flags' \in [streaming : BOOLEAN, requesting : BOOLEAN]  BY DEF Types
<1>2. Stored' /\ busy' \in BOOLEAN /\ dirty' \in BOOLEAN  BY <1>1, RenderedStores
<1>3. Types'  BY <1>1, <1>2 DEF Types
<1>4. flags.requesting => busy'  BY DEF Rendered
<1>5. Latched'  BY <1>4 DEF Latched
<1> QED  BY <1>2, <1>3, <1>5 DEF LastIsCurrent, Buffered

LEMMA QuietStep ==
  ASSUME PageInv,
         UNCHANGED <<gen, ctl, conn, pend, timer, latch, flags, busy, msgs, disk, dirty, page,
                     sends>>
  PROVE  PageInv'
  BY DEF PageInv, Types, LastIsCurrent, Latched, Buffered, Stored

LEMMA EditStep ==
  ASSUME PageInv, NEW i \in DOMAIN msgs,
         EditOpen(i) \/ EditSave(i) \/ SendRefused(i) \/ DeleteMessage(i)
  PROVE  PageInv'
<1>1. CASE EditOpen(i)  BY <1>1, QuietStep DEF EditOpen
<1>2. CASE EditSave(i)  BY <1>2, RenderStep DEF EditSave
<1>3. CASE SendRefused(i)  BY <1>3, QuietStep DEF SendRefused
<1>4. CASE DeleteMessage(i)  BY <1>4, RenderStep DEF DeleteMessage, DeleteBy
<1> QED  BY <1>1, <1>2, <1>3, <1>4

(***************************************************************************)
(* Timers, leaving and loading.                                            *)
(***************************************************************************)
LEMMA FlushTimerStep ==
  ASSUME PageInv, FlushTimer
  PROVE  PageInv'
<1> USE DEF PageInv
<1>1. /\ Flush(timer)
      /\ UNCHANGED <<gen, ctl, conn, latch, flags, busy, msgs, disk, dirty, page, sends>>
  BY DEF FlushTimer
<1>2. Buffered'  BY <1>1, FlushBuffered
<1> QED  BY <1>1, <1>2 DEF Types, LastIsCurrent, Latched, Stored

LEMMA SaveTimerStep ==
  ASSUME PageInv, SaveTimer
  PROVE  PageInv'
  BY DEF PageInv, SaveTimer, Types, LastIsCurrent, Latched, Buffered, Stored

LEMMA UnmountedStep ==
  ASSUME PageInv, Unmounted, page' \in {"left", "lost"}, page' = "left" => disk' = msgs'
  PROVE  PageInv'
<1> USE FieldTypes DEF PageInv
<1>1. /\ gen' = gen + 1 /\ timer' = 0 /\ latch' = 0 /\ pend' = [gen |-> 0, text |-> <<>>]
      /\ ctl' = [gen |-> ctl.gen + 1, src |-> 0] /\ flags' = IdleFlags
      /\ busy' = FALSE /\ dirty' = FALSE /\ UNCHANGED <<conn, sends>>
  BY DEF Unmounted
<1>2. /\ flags' \in [streaming : BOOLEAN, requesting : BOOLEAN]
      /\ ctl' \in [gen : Nat, src : Nat] /\ ctl'.gen = ctl.gen + 1
      /\ latch' \in 0..MaxSends
  BY <1>1, Bounds DEF IdleFlags
<1>3. Types'
  <2>1. busy' \in BOOLEAN /\ dirty' \in BOOLEAN  BY <1>1, Zenon
  <2>2. gen' \in Nat  BY <1>1
  <2>3. conn' \in [Reqs -> Conns] /\ sends' \in 0..MaxSends  BY <1>1 DEF Types
  <2> QED  BY <1>2, <2>1, <2>2, <2>3 DEF Types
<1>4. LastIsCurrent'  BY <1>1, <1>2, NoneCurrent
<1> QED  BY <1>1, <1>3, <1>4 DEF Latched, Buffered, Stored

LEMMA LeaveStep ==
  ASSUME PageInv, Leave \/ Crash
  PROVE  PageInv'
<1>1. Unmounted /\ page' \in {"left", "lost"}  BY DEF Leave, Crash
<1>2. page' = "left" => disk' = msgs'
  <2>1. CASE Leave  BY <2>1 DEF Leave, PageInv, Stored, Types
  <2>2. CASE Crash  BY <2>2 DEF Crash
  <2> QED  BY <2>1, <2>2
<1> QED  BY <1>1, <1>2, UnmountedStep

LEMMA LoadStep ==
  ASSUME PageInv, Load
  PROVE  PageInv'
  BY DEF PageInv, Load, Types, LastIsCurrent, Latched, Buffered, Stored

LEMMA InitHolds == Init => PageInv
<1> SUFFICES ASSUME Init  PROVE PageInv  OBVIOUS
<1>1. NoConn \in Conns /\ NoConn.st = "none"  BY DEF NoConn, Conns, Modes
<1>2. Types
  <2>1. busy \in BOOLEAN /\ dirty \in BOOLEAN  BY Zenon DEF Init
  <2>2. flags \in [streaming : BOOLEAN, requesting : BOOLEAN]  BY DEF Init, IdleFlags
  <2>3. conn \in [Reqs -> Conns]  BY <1>1 DEF Init
  <2>4. /\ gen \in Nat /\ ctl \in [gen : Nat, src : Nat]
        /\ latch \in 0..MaxSends /\ sends \in 0..MaxSends
    BY Bounds DEF Init
  <2> QED  BY <2>1, <2>2, <2>3, <2>4 DEF Types
<1>3. \A r \in Reqs : conn[r].st = "none"  BY <1>1 DEF Init
<1> QED  BY <1>2, <1>3 DEF Init, PageInv, LastIsCurrent, Latched, Buffered, Stored

LEMMA StepKeeps == PageInv /\ [Next]_vars => PageInv'
<1> SUFFICES ASSUME PageInv, [Next]_vars  PROVE PageInv'  OBVIOUS
<1>1. CASE \E r \in Reqs : Network(r)  BY <1>1, NetworkStep
<1>2. CASE \E mode \in Modes : Click(mode)  BY <1>2, ClickStep
<1>3. CASE \E i \in DOMAIN msgs : EditOpen(i) \/ EditSave(i) \/ SendRefused(i)
                                    \/ DeleteMessage(i)
  BY <1>3, EditStep
<1>4. CASE Stop  BY <1>4, StopStep
<1>5. CASE EditCancel  BY <1>5, QuietStep DEF EditCancel
<1>6. CASE ClearMessages  BY <1>6, RenderStep DEF ClearMessages, DeleteBy
<1>7. CASE Render  BY <1>7, RenderStep DEF Render
<1>8. CASE FlushTimer  BY <1>8, FlushTimerStep
<1>9. CASE SaveTimer  BY <1>9, SaveTimerStep
<1>10. CASE Leave \/ Crash  BY <1>10, LeaveStep
<1>11. CASE Load  BY <1>11, LoadStep
<1>12. CASE UNCHANGED vars  BY <1>12, QuietStep DEF vars
<1> QED  BY <1>1, <1>2, <1>3, <1>4, <1>5, <1>6, <1>7, <1>8, <1>9, <1>10, <1>11, <1>12 DEF Next

--------------------------------------------------------------------------------
(***************************************************************************)
(* The theorems.                                                           *)
(***************************************************************************)
(* The inductive invariant holds throughout.                               *)
THEOREM PageInvariant == Spec => []PageInv
  BY InitHolds, StepKeeps, PTL DEF Spec

(* Leaving the page stores what was last rendered (the unmount effect of   *)
(* the message list and its save timer).                                   *)
THEOREM LeavingSaves == Spec => []LeaveSaves
<1>1. PageInv => LeaveSaves  BY DEF PageInv, Stored, LeaveSaves
<1> QED  BY <1>1, PageInvariant, PTL

(* An unsettled promise belongs to a request that can still settle it, and *)
(* an idle page holds none (activeResultRef, settleRequest).               *)
THEOREM LatchNeverStuck == Spec => []LatchSettles
<1>1. PageInv => LatchSettles  BY DEF PageInv, Latched, LatchSettles, IsCurrent
<1> QED  BY <1>1, PageInvariant, PTL

(* Buffered chunks always have a flush timer of their generation           *)
(* (scheduleStreamFlush, flushStreamUpdates).                              *)
THEOREM BufferNeverStuck == Spec => []BufferFlushes
<1>1. PageInv => BufferFlushes  BY DEF PageInv, Buffered, BufferFlushes
<1> QED  BY <1>1, PageInvariant, PTL

================================================================================
