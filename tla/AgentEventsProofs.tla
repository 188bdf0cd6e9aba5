-------------------------- MODULE AgentEventsProofs --------------------------
(***************************************************************************)
(* Theorems about the parts of MCAgentEvents, for any number of events,    *)
(* timer goroutines, calls of Close and pages, for every script and every  *)
(* capacity of the channels.                                               *)
(***************************************************************************)
EXTENDS MCAgentEvents, TLAPS

-----------------------------------------------------------------------------
(***************************************************************************)
(* The batching writer.  A flush stops the timer only together with        *)
(* emptying the buffer, and a timer that fires is replaced by its          *)
(* goroutine.                                                              *)
(***************************************************************************)

(* BufferHasTimer, with the little typing its steps need.                   *)
TimerInv ==
  /\ fired \in Nat
  /\ buf = [arr |-> buf.arr, len |-> buf.len]
  /\ BufferHasTimer

(* The writer starts without a buffer.                                      *)
LEMMA InitTimer == Init => TimerInv
BY DEF Init, TimerInv, BufferHasTimer, NoBuffer

(* Appending, flushing, closing, firing and writing keep TimerInv.          *)
LEMMA NextTimer == TimerInv /\ [Next]_vars => TimerInv'
<1> SUFFICES ASSUME TimerInv, [Next]_vars PROVE TimerInv'
  OBVIOUS
<1> USE DEF TimerInv, BufferHasTimer
<1>1. CASE AppendEvent
  BY <1>1 DEF AppendEvent, AppendToSlice, RestartTimer
<1>2. CASE Close
  BY <1>2 DEF Close, TakeEvents, NoBuffer
<1>3. CASE TimerFires
  BY <1>3 DEF TimerFires
<1>4. ASSUME NEW t \in Goroutines, Flush(t) PROVE TimerInv'
  <2>1. CASE buf.len = 0
    BY <1>4, <2>1 DEF Flush
  <2>2. CASE buf.len # 0
    BY <1>4, <2>2 DEF Flush, Reset
  <2> QED BY <2>1, <2>2
<1>5. ASSUME NEW t \in Threads, Write(t) PROVE TimerInv'
  BY <1>5 DEF Write, ReadSlot, SendBatch
<1>6. CASE UNCHANGED vars
  BY <1>6 DEF vars
<1> QED BY <1>1, <1>2, <1>3, <1>4, <1>5, <1>6 DEF Next, Timer

(* The events of a run never wait in a buffer that no timer will flush.     *)
THEOREM TimerRuns == PartSpec => []BufferHasTimer
<1>1. PartInit => TimerInv
  BY InitTimer DEF PartInit
<1>2. TimerInv /\ [PartNext]_allVars => TimerInv'
  <2>1. [PartNext]_allVars => [Next]_vars
    BY DEF PartNext, WriterPart, RunPart, allVars, vars
  <2> QED BY <2>1, NextTimer
<1>3. TimerInv => BufferHasTimer
  BY DEF TimerInv
<1> QED BY <1>1, <1>2, <1>3, PTL DEF PartSpec

-----------------------------------------------------------------------------
(***************************************************************************)
(* The live feed of a run that is watched over one connection.  What a     *)
(* page receives and has a number that it has shown is passed over; that   *)
(* loses nothing because no two events of one connection share a number.   *)
(***************************************************************************)

Pairs == Nat \X Nat

(* Where a row of the run may be. *)
Everywhere ==
  stored \cup inserts
  \cup (UNION {Range(buffer[c]) : c \in Watched!Conns}) \cup (UNION {Range(b) : b \in batches})
  \cup (UNION {shown[v] \cup Range(chan[v]) : v \in Viewers})

(* The rows S have numbers up to n, and no two have the same. *)
Numbered(S, n) ==
  /\ \A r \in S : r[2] <= n
  /\ \A r, s \in S : r[2] = s[2] => r = s

FeedTypes ==
  /\ emitted \in Nat /\ agentQ \in Seq(Nat) /\ wire \in Seq(Nat)
  /\ conn = 1 /\ seqno \in Nat /\ published \in Seq(Nat)
  /\ buffer \in [Watched!Conns -> Seq(Pairs)] /\ batches \subseteq Seq(Pairs)
  /\ inserts \subseteq Pairs /\ stored \subseteq Pairs
  /\ page \in [Viewers -> {"out", "checked", "subscribed", "live", "done"}]
  /\ sub \in [Viewers -> {"no", "open", "closed"}]
  /\ chan \in [Viewers -> Seq(Pairs)]
  /\ dropped \in [Viewers -> BOOLEAN]
  /\ shown \in [Viewers -> SUBSET Pairs] /\ base \in [Viewers -> Nat]

(* Page v has, of what was published since it subscribed, all that fitted. *)
Fed(v) ==
  page[v] \in {"subscribed", "live"} /\ sub[v] = "open" /\ dropped[v] = FALSE =>
    \A i \in base[v] + 1 .. Len(published) :
      \E r \in shown[v] \cup Range(chan[v]) : r[1] = published[i]

(* LiveFeedComplete made inductive. *)
FeedInv ==
  /\ FeedTypes
  /\ Numbered(Everywhere, seqno)
  /\ \A v \in Viewers : Fed(v)

(* What is in a sequence after an Append, and before a Tail. *)
LEMMA RangeOfAppend ==
  ASSUME NEW S, NEW s \in Seq(S), NEW x \in S
  PROVE  Append(s, x) \in Seq(S) /\ Range(Append(s, x)) = Range(s) \cup {x}
<1>1. /\ Append(s, x) \in Seq(S) /\ Len(Append(s, x)) = Len(s) + 1 /\ Len(s) \in Nat
      /\ \A i \in 1 .. Len(s) : Append(s, x)[i] = s[i]
      /\ Append(s, x)[Len(s) + 1] = x
  OBVIOUS
<1>2. DOMAIN s = 1 .. Len(s) /\ DOMAIN Append(s, x) = 1 .. (Len(s) + 1)
  BY <1>1
<1>3. 1 .. (Len(s) + 1) = (1 .. Len(s)) \cup {Len(s) + 1}
  BY <1>1
<1> QED BY <1>1, <1>2, <1>3 DEF Range

(* What a goroutine takes from the front of a channel was in it, and what it leaves was too. *)
LEMMA RangeOfTail ==
  ASSUME NEW S, NEW s \in Seq(S), s # <<>>
  PROVE  /\ Head(s) \in S /\ Tail(s) \in Seq(S)
         /\ Range(s) \subseteq {Head(s)} \cup Range(Tail(s))
         /\ Range(Tail(s)) \subseteq Range(s) /\ Head(s) \in Range(s)
<1>1. /\ Head(s) = s[1] /\ Tail(s) \in Seq(S) /\ Len(Tail(s)) = Len(s) - 1
      /\ Len(s) \in Nat /\ Len(s) >= 1 /\ DOMAIN s = 1 .. Len(s) /\ DOMAIN Tail(s) = 1 .. (Len(s) - 1)
      /\ \A i \in 1 .. (Len(s) - 1) : Tail(s)[i] = s[i + 1]
  OBVIOUS
<1>2. ASSUME NEW i \in 1 .. Len(s) PROVE s[i] \in {Head(s)} \cup Range(Tail(s))
  <2>1. CASE i = 1
    BY <1>1, <2>1
  <2>2. CASE i # 1
    <3>1. i - 1 \in 1 .. (Len(s) - 1) /\ (i - 1) + 1 = i
      BY <1>1, <2>2
    <3> QED BY <1>1, <3>1 DEF Range
  <2> QED BY <2>1, <2>2
<1>3. ASSUME NEW i \in 1 .. (Len(s) - 1) PROVE Tail(s)[i] \in Range(s)
  <2>1. i + 1 \in 1 .. Len(s)
    BY <1>1
  <2> QED BY <1>1, <2>1 DEF Range
<1>4. Head(s) \in S /\ Head(s) \in Range(s)
  BY <1>1 DEF Range
<1> QED BY <1>1, <1>2, <1>3, <1>4 DEF Range

(* Rows that are numbered stay so when some are left out, and when one with *)
(* the next number is added.                                                *)
LEMMA NumberedStays ==
  ASSUME NEW S, NEW T, NEW n \in Nat, NEW e \in Nat, S \subseteq Pairs, Numbered(S, n)
  PROVE  /\ T \subseteq S => Numbered(T, n)
         /\ T \subseteq S \cup {<<e, n + 1>>} => Numbered(T, n + 1)
<1>1. \A r \in S : r[2] \in Nat /\ r[2] <= n
  BY DEF Numbered, Pairs
<1>2. <<e, n + 1>>[2] = n + 1
  OBVIOUS
<1>3. ASSUME T \subseteq S PROVE Numbered(T, n)
  BY <1>3 DEF Numbered
<1>4. ASSUME T \subseteq S \cup {<<e, n + 1>>} PROVE Numbered(T, n + 1)
  <2>1. \A r \in T : r[2] <= n + 1
    BY <1>1, <1>2, <1>4
  <2>2. ASSUME NEW r \in T, NEW s \in T, r[2] = s[2] PROVE r = s
    <3>1. CASE r \in S /\ s \in S
      BY <2>2, <3>1 DEF Numbered
    <3>2. CASE r \notin S \/ s \notin S
      <4>1. r \notin S => s \notin S
        BY <1>1, <1>2, <1>4, <2>2
      <4>2. s \notin S => r \notin S
        BY <1>1, <1>2, <1>4, <2>2
      <4> QED BY <1>4, <3>2, <4>1, <4>2
    <3> QED BY <3>1, <3>2
  <2> QED BY <2>1, <2>2 DEF Numbered
<1> QED BY <1>3, <1>4

(* Where a row may be, one place after the other, before and after a step. *)
LEMMA Places ==
  ASSUME NEW r
  PROVE  r \in Everywhere <=> \/ r \in stored \/ r \in inserts
                              \/ \E c \in Watched!Conns : r \in Range(buffer[c])
                              \/ \E b \in batches : r \in Range(b)
                              \/ \E v \in Viewers : r \in shown[v] \/ r \in Range(chan[v])
BY DEF Everywhere

(* The same of the next state. *)
LEMMA NextPlaces ==
  ASSUME NEW r
  PROVE  r \in Everywhere' <=> \/ r \in stored' \/ r \in inserts'
                               \/ \E c \in Watched!Conns : r \in Range(buffer'[c])
                               \/ \E b \in batches' : r \in Range(b)
                               \/ \E v \in Viewers : r \in shown'[v] \/ r \in Range(chan'[v])
BY DEF Everywhere

(* All rows are pairs of an event and a number. *)
LEMMA PlacesTyped ==
  ASSUME FeedTypes
  PROVE  Everywhere \subseteq Pairs
<1>1. \A q \in Seq(Pairs) : Range(q) \subseteq Pairs
  BY DEF Range
<1>2. /\ stored \subseteq Pairs /\ inserts \subseteq Pairs
      /\ \A c \in Watched!Conns : Range(buffer[c]) \subseteq Pairs
      /\ \A b \in batches : Range(b) \subseteq Pairs
      /\ \A v \in Viewers : shown[v] \subseteq Pairs /\ Range(chan[v]) \subseteq Pairs
  BY <1>1 DEF FeedTypes
<1>3. ASSUME NEW r \in Everywhere PROVE r \in Pairs
  BY <1>2, <1>3, Places, Zenon
<1> QED BY <1>3

(* A step that numbers no event. *)
LEMMA NoNewRow ==
  ASSUME FeedInv, FeedTypes', Everywhere' \subseteq Everywhere, seqno' = seqno,
         \A v \in Viewers : Fed(v)'
  PROVE  FeedInv'
<1>1. Everywhere \subseteq Pairs
  BY PlacesTyped DEF FeedInv
<1>2. seqno \in Nat /\ Numbered(Everywhere, seqno) /\ 0 \in Nat
  BY DEF FeedInv, FeedTypes
<1>3. Numbered(Everywhere', seqno)
  BY <1>1, <1>2, NumberedStays
<1> QED BY <1>3 DEF FeedInv

(* A step of the page v, which leaves the others alone and shows nothing    *)
(* but what was stored or in the channel.                                   *)
LEMMA OnlyPage ==
  ASSUME FeedInv, NEW v \in Viewers, FeedTypes', UNCHANGED <<seqno, stored, inserts, buffer, batches, published>>,
         \A u \in Viewers \ {v} : /\ page'[u] = page[u] /\ sub'[u] = sub[u] /\ chan'[u] = chan[u]
                                  /\ dropped'[u] = dropped[u] /\ shown'[u] = shown[u] /\ base'[u] = base[u],
         shown'[v] \cup Range(chan'[v]) \subseteq shown[v] \cup Range(chan[v]) \cup stored,
         Fed(v)'
  PROVE  FeedInv'
<1>1. ASSUME NEW u \in Viewers PROVE Fed(u)'
  <2>1. CASE u = v
    BY <2>1
  <2>2. CASE u # v
    BY <2>2 DEF FeedInv, Fed
  <2> QED BY <2>1, <2>2
<1>2. Everywhere' \subseteq Everywhere
  <2>1. ASSUME NEW r \in Everywhere' PROVE r \in Everywhere
    <3>1. \/ r \in stored \/ r \in inserts
          \/ \E c \in Watched!Conns : r \in Range(buffer[c])
          \/ \E b \in batches : r \in Range(b)
          \/ \E u \in Viewers : r \in shown'[u] \/ r \in Range(chan'[u])
      BY NextPlaces, Zenon
    <3>2. ASSUME NEW u \in Viewers, r \in shown'[u] \/ r \in Range(chan'[u])
          PROVE  r \in shown[u] \/ r \in Range(chan[u]) \/ r \in stored
      <4>1. CASE u = v
        BY <3>2, <4>1
      <4>2. CASE u # v
        BY <3>2, <4>2
      <4> QED BY <4>1, <4>2
    <3> QED BY <3>1, <3>2, Places
  <2> QED BY <2>1
<1> QED BY <1>1, <1>2, NoNewRow

(* An event arrives: it gets the next number, and goes to the channel of    *)
(* each page that has room for it (AgentEvent, RunEventHub.Publish).        *)
LEMMA EventArrives ==
  ASSUME FeedInv, NEW e \in Nat, wire' \in Seq(Nat), Watched!ReceiveEvent(e),
         UNCHANGED <<emitted, agentQ, conn, page, shown, base>>
  PROVE  FeedInv'
<1> DEFINE row == <<e, seqno + 1>>
<1>1. FeedTypes /\ conn \in Watched!Conns
  BY DEF FeedInv, FeedTypes, Watched!Conns
<1>2. row \in Pairs /\ row[1] = e /\ seqno + 1 \in Nat
  BY <1>1 DEF FeedTypes, Pairs
<1>3. seqno' = seqno + 1
  BY DEF Watched!ReceiveEvent, Watched!NextSeq
<1>4. Everywhere \subseteq Pairs
  BY PlacesTyped DEF FeedInv
<1>5. CASE UNCHANGED <<stored, inserts, buffer, batches, published, sub, chan, dropped>>
  <2>1. Everywhere' = Everywhere
    BY <1>5 DEF Everywhere
  <2>2. Numbered(Everywhere', seqno')
    BY <1>1, <1>3, <1>4, <2>1, NumberedStays DEF FeedInv, FeedTypes
  <2>3. \A v \in Viewers : Fed(v)'
    BY <1>5 DEF FeedInv, Fed
  <2>4. FeedTypes'
    BY <1>1, <1>2, <1>3, <1>5 DEF FeedTypes
  <2> QED BY <2>2, <2>3, <2>4 DEF FeedInv
<1>6. CASE /\ Watched!Publish(row) /\ published' = Append(published, e)
           /\ Watched!PersistEnd(e, row) \/ Watched!Persist(e, row)
           /\ UNCHANGED batches
  <2> HIDE DEF row
  <2>1. /\ sub' = sub /\ chan' \in [Viewers -> Seq(Pairs)] /\ dropped' \in [Viewers -> BOOLEAN]
        /\ \A v \in Viewers :
             /\ Range(chan[v]) \subseteq Range(chan'[v]) /\ Range(chan'[v]) \subseteq Range(chan[v]) \cup {row}
             /\ sub[v] = "open" /\ dropped'[v] = FALSE => dropped[v] = FALSE /\ row \in Range(chan'[v])
    <3>1. sub' = sub /\ DOMAIN chan' = Viewers /\ DOMAIN dropped' = Viewers
          /\ chan' = [v \in Viewers |-> chan'[v]] /\ dropped' = [v \in Viewers |-> dropped'[v]]
      BY <1>6 DEF Watched!Publish
    <3>2. ASSUME NEW v \in Viewers
          PROVE  /\ chan'[v] \in Seq(Pairs) /\ dropped'[v] \in BOOLEAN
                 /\ Range(chan[v]) \subseteq Range(chan'[v]) /\ Range(chan'[v]) \subseteq Range(chan[v]) \cup {row}
                 /\ sub[v] = "open" /\ dropped'[v] = FALSE => dropped[v] = FALSE /\ row \in Range(chan'[v])
      <4>1. chan[v] \in Seq(Pairs) /\ dropped[v] \in BOOLEAN
        BY <1>1 DEF FeedTypes
      <4>2. /\ Append(chan[v], row) \in Seq(Pairs)
            /\ Range(Append(chan[v], row)) = Range(chan[v]) \cup {row}
        BY <1>2, <4>1, RangeOfAppend
      <4>3. CASE sub[v] = "open" /\ Len(chan[v]) < ChanCap
        <5>1. chan'[v] = Append(chan[v], row)
          BY <1>6, <4>3 DEF Watched!Publish
        <5>2. dropped'[v] = dropped[v]
          <6>1. dropped'[v] = (dropped[v] \/ FALSE)
            BY <1>6, <4>3 DEF Watched!Publish
          <6> QED BY <4>1, <6>1
        <5> QED BY <4>1, <4>2, <5>1, <5>2
      <4>4. CASE sub[v] = "open" /\ ~(Len(chan[v]) < ChanCap)
        <5>1. chan'[v] = chan[v]
          BY <1>6, <4>4 DEF Watched!Publish
        <5>2. dropped'[v] = TRUE
          BY <1>6, <4>4, Zenon DEF Watched!Publish
        <5> QED BY <4>1, <5>1, <5>2, Zenon
      <4>5. CASE sub[v] # "open"
        <5>1. chan'[v] = chan[v]
          BY <1>6, <4>5 DEF Watched!Publish
        <5>2. dropped'[v] \in BOOLEAN
          BY <1>6 DEF Watched!Publish
        <5> QED BY <4>1, <4>5, <5>1, <5>2
      <4> QED BY <4>3, <4>4, <4>5, Zenon
    <3> QED BY <3>1, <3>2, Zenon
  <2>2. /\ inserts' \subseteq inserts \cup {row} /\ inserts' \subseteq Pairs
        /\ stored' \subseteq stored \cup Range(buffer[conn]) /\ stored' \subseteq Pairs
        /\ buffer' \in [Watched!Conns -> Seq(Pairs)]
        /\ \A c \in Watched!Conns : Range(buffer'[c]) \subseteq Range(buffer[c]) \cup {row}
    <3>1. /\ buffer \in [Watched!Conns -> Seq(Pairs)]
          /\ inserts \subseteq Pairs /\ stored \subseteq Pairs
      BY <1>1 DEF FeedTypes
    <3>2. buffer[conn] \in Seq(Pairs) /\ Range(buffer[conn]) \subseteq Pairs
      BY <1>1, <3>1 DEF Range
    <3>3. CASE Watched!PersistEnd(e, row)
      <4>1. /\ inserts' = inserts \cup {row} /\ stored' = stored \cup Watched!Range(buffer[conn])
            /\ buffer' = [buffer EXCEPT ![conn] = <<>>]
        BY <3>3 DEF Watched!PersistEnd
      <4>2. Watched!Range(buffer[conn]) = Range(buffer[conn])
        BY DEF Watched!Range, Range
      <4>3. <<>> \in Seq(Pairs) /\ Range(<<>>) = {}
        BY DEF Range
      <4> QED BY <1>2, <3>1, <3>2, <4>1, <4>2, <4>3, Zenon
    <3>4. CASE Watched!Persist(e, row)
      <4>1. /\ \/ buffer' = [buffer EXCEPT ![conn] = Append(buffer[conn], row)] /\ UNCHANGED inserts
               \/ inserts' = inserts \cup {row} /\ UNCHANGED buffer
            /\ UNCHANGED stored
        BY <3>4 DEF Watched!Persist
      <4>2. /\ Append(buffer[conn], row) \in Seq(Pairs)
            /\ Range(Append(buffer[conn], row)) = Range(buffer[conn]) \cup {row}
        BY <1>2, <3>2, RangeOfAppend
      <4> QED BY <1>1, <1>2, <3>1, <4>1, <4>2, Zenon
    <3> QED BY <1>6, <3>3, <3>4, Zenon
  <2>3. FeedTypes'
    <3>1. published' \in Seq(Nat)
      BY <1>1, <1>6 DEF FeedTypes
    <3> QED BY <1>1, <1>2, <1>3, <1>6, <2>1, <2>2, <3>1 DEF FeedTypes
  <2>4. Everywhere' \subseteq Everywhere \cup {row}
    <3>1. ASSUME NEW r \in Everywhere' PROVE r \in Everywhere \/ r = row
      <4>1. \/ r \in stored' \/ r \in inserts'
            \/ \E c \in Watched!Conns : r \in Range(buffer'[c])
            \/ \E b \in batches' : r \in Range(b)
            \/ \E u \in Viewers : r \in shown'[u] \/ r \in Range(chan'[u])
        BY NextPlaces, Zenon
      <4>2. ASSUME NEW u \in Viewers, r \in shown'[u] \/ r \in Range(chan'[u])
            PROVE  r \in shown[u] \/ r \in Range(chan[u]) \/ r = row
        BY <2>1, <4>2
      <4>3. ASSUME NEW c \in Watched!Conns, r \in Range(buffer'[c])
            PROVE  r \in Range(buffer[c]) \/ r = row
        BY <2>2, <4>3
      <4>4. r \in stored' \cup inserts' => r \in stored \/ r \in inserts \/ r \in Range(buffer[conn]) \/ r = row
        BY <2>2
      <4>5. batches' = batches
        BY <1>6
      <4> QED BY <1>1, <4>1, <4>2, <4>3, <4>4, <4>5, Places
    <3> QED BY <3>1
  <2>5. Numbered(Everywhere', seqno')
    <3>1. seqno \in Nat /\ Numbered(Everywhere, seqno)
      BY DEF FeedInv, FeedTypes
    <3> QED BY <1>3, <1>4, <2>4, <3>1, NumberedStays, Zenon DEF row
  <2>6. ASSUME NEW v \in Viewers PROVE Fed(v)'
    <3>1. Fed(v) /\ base[v] \in Nat /\ published \in Seq(Nat)
      BY DEF FeedInv, FeedTypes
    <3>2. /\ Len(published') = Len(published) + 1 /\ Len(published) \in Nat
          /\ \A i \in 1 .. Len(published) : published'[i] = published[i]
          /\ published'[Len(published) + 1] = e
      BY <1>6, <3>1
    <3>3. SUFFICES ASSUME page[v] \in {"subscribed", "live"}, sub[v] = "open", dropped'[v] = FALSE,
                          NEW i \in base[v] + 1 .. Len(published) + 1
                   PROVE  \E r \in shown[v] \cup Range(chan'[v]) : r[1] = published'[i]
      BY <2>1, <3>2, Zenon DEF Fed
    <3>4. CASE i = Len(published) + 1
      BY <1>2, <2>1, <3>2, <3>3, <3>4
    <3>5. CASE i # Len(published) + 1
      <4>1. i \in base[v] + 1 .. Len(published) /\ i \in 1 .. Len(published)
        BY <3>1, <3>2, <3>3, <3>5
      <4>2. dropped[v] = FALSE
        BY <2>1, <3>3
      <4>3. \E r \in shown[v] \cup Range(chan[v]) : r[1] = published[i]
        BY <3>1, <3>3, <4>1, <4>2 DEF Fed
      <4> QED BY <2>1, <3>2, <4>1, <4>3
    <3> QED BY <3>4, <3>5
  <2> QED BY <2>3, <2>5, <2>6 DEF FeedInv
<1> QED BY <1>5, <1>6 DEF Watched!ReceiveEvent, Watched!NextSeq, Watched!dbVars, Watched!hubVars

(* A step that the pages do not see. *)
LEMMA Behind ==
  ASSUME FeedInv, FeedTypes', UNCHANGED <<seqno, published, page, sub, chan, dropped, shown, base>>,
         NEW T, T \subseteq Everywhere, stored' \cup inserts' \subseteq stored \cup inserts \cup T,
         \A c \in Watched!Conns : Range(buffer'[c]) \subseteq Range(buffer[c]),
         \A b \in batches' : Range(b) \subseteq Everywhere
  PROVE  FeedInv'
<1>1. ASSUME NEW r \in Everywhere' PROVE r \in Everywhere
  <2>1. CASE r \in stored' \/ r \in inserts'
    BY <2>1, Places
  <2>2. CASE \E c \in Watched!Conns : r \in Range(buffer'[c])
    BY <2>2, Places
  <2>3. CASE \E b \in batches' : r \in Range(b)
    BY <2>3
  <2>4. CASE \E v \in Viewers : r \in shown'[v] \/ r \in Range(chan'[v])
    BY <2>4, Places
  <2> QED BY <1>1, <2>1, <2>2, <2>3, <2>4, NextPlaces
<1>2. \A v \in Viewers : Fed(v)'
  BY DEF FeedInv, Fed
<1> QED BY <1>1, <1>2, NoNewRow

(* The hub is closed, or nothing happens to it, and no row moves: the pages *)
(* that were subscribed are so no more.                                     *)
LEMMA HubCloses ==
  ASSUME FeedInv, Watched!CloseHub, wire' \in Seq(Nat),
         UNCHANGED <<emitted, agentQ, conn, seqno, published, buffer, batches, inserts, stored, page, shown, base>>
  PROVE  FeedInv'
<1>1. sub' \in [Viewers -> {"no", "open", "closed"}] /\ \A v \in Viewers : sub'[v] # "open"
  BY DEF FeedInv, FeedTypes, Watched!CloseHub
<1>2. UNCHANGED <<chan, dropped>>
  BY DEF Watched!CloseHub
<1>3. FeedTypes'
  BY <1>1, <1>2 DEF FeedInv, FeedTypes
<1>4. Everywhere' = Everywhere
  BY <1>2 DEF Everywhere
<1>5. \A v \in Viewers : Fed(v)'
  BY <1>1 DEF Fed
<1> QED BY <1>3, <1>4, <1>5, NoNewRow

(* The steps of the satellite and of the gateway. *)
LEMMA GatewayKeepsFeed ==
  ASSUME FeedInv,
         \/ Watched!Emit \/ Watched!Exit \/ Watched!SendReport \/ Watched!SendEvent
         \/ Watched!Reconnect \/ Watched!Receive \/ Watched!Background
  PROVE  FeedInv'
<1> USE DEF Watched!satVars, Watched!gwVars, Watched!dbVars, Watched!viewVars, Watched!hubVars
<1>1. FeedTypes
  BY DEF FeedInv
<1>2. ASSUME FeedTypes', UNCHANGED <<seqno, published, page, sub, chan, dropped, shown, base>>,
             UNCHANGED <<stored, inserts, buffer, batches>>
      PROVE  FeedInv'
  <2>1. Everywhere' = Everywhere
    BY <1>2 DEF Everywhere
  <2>2. \A v \in Viewers : Fed(v)'
    BY <1>2 DEF FeedInv, Fed
  <2> QED BY <1>2, <2>1, <2>2, NoNewRow
<1>3. CASE Watched!Emit
  <2>1. emitted' \in Nat /\ agentQ' \in Seq(Nat)
    BY <1>1, <1>3 DEF Watched!Emit, FeedTypes
  <2>2. FeedTypes'
    BY <1>1, <1>3, <2>1 DEF Watched!Emit, FeedTypes
  <2> QED BY <1>2, <1>3, <2>2 DEF Watched!Emit
<1>4. CASE Watched!Exit
  <2>1. FeedTypes'
    BY <1>1, <1>4 DEF Watched!Exit, FeedTypes
  <2> QED BY <1>2, <1>4, <2>1 DEF Watched!Exit
<1>5. CASE Watched!SendReport
  <2>1. wire' \in Seq(Nat)
    BY <1>1, <1>5 DEF Watched!SendReport, Watched!Terminated, FeedTypes
  <2>2. FeedTypes'
    BY <1>1, <1>5, <2>1 DEF Watched!SendReport, FeedTypes
  <2> QED BY <1>2, <1>5, <2>2 DEF Watched!SendReport
<1>6. CASE Watched!SendEvent
  <2>1. wire' \in Seq(Nat) /\ agentQ' \in Seq(Nat)
    BY <1>1, <1>6, RangeOfTail DEF Watched!SendEvent, FeedTypes
  <2>2. FeedTypes'
    BY <1>1, <1>6, <2>1 DEF Watched!SendEvent, FeedTypes
  <2> QED BY <1>2, <1>6, <2>2 DEF Watched!SendEvent
<1>7. CASE Watched!Reconnect
  BY <1>1, <1>7 DEF Watched!Reconnect, FeedTypes
<1>8. CASE Watched!Receive
  <2>1. wire' \in Seq(Nat) /\ Head(wire) \in Nat
    BY <1>1, <1>8, RangeOfTail DEF Watched!Receive, FeedTypes
  <2>2. CASE Watched!ReceiveEvent(Head(wire))
    <3>1. UNCHANGED <<emitted, agentQ, conn, page, shown, base>>
      BY <1>8 DEF Watched!Receive
    <3> QED BY <2>1, <2>2, <3>1, EventArrives
  <2>3. CASE /\ Watched!ReceiveTerminated
             /\ UNCHANGED <<seqno, mapped, buffer, batches, inserts, finishing, stored, published>>
    <3>1. UNCHANGED <<emitted, agentQ, conn, page, shown, base>>
      BY <1>8 DEF Watched!Receive
    <3>2. CASE Watched!CloseHub
      BY <2>1, <2>3, <3>1, <3>2, HubCloses
    <3>3. CASE UNCHANGED <<sub, chan, dropped>>
      <4>1. FeedTypes'
        BY <1>1, <2>1, <2>3, <3>1, <3>3 DEF FeedTypes
      <4> QED BY <1>2, <2>3, <3>1, <3>3, <4>1
    <3> QED BY <2>3, <3>2, <3>3 DEF Watched!ReceiveTerminated
  <2> QED BY <1>8, <2>2, <2>3 DEF Watched!Receive
<1>9. CASE \E c \in Watched!Conns : Watched!FlushTimer(c)
  <2> PICK c \in Watched!Conns : Watched!FlushTimer(c)
    BY <1>9
  <2>1. /\ batches' = batches \cup {buffer[c]} /\ buffer' = [buffer EXCEPT ![c] = <<>>]
        /\ UNCHANGED <<emitted, agentQ, wire, conn, inserts, stored>>
        /\ UNCHANGED <<seqno, published, page, sub, chan, dropped, shown, base>>
    BY DEF Watched!FlushTimer
  <2>2. buffer[c] \in Seq(Pairs) /\ <<>> \in Seq(Pairs) /\ Range(<<>>) = {}
    BY <1>1 DEF FeedTypes, Range
  <2>3. FeedTypes'
    BY <1>1, <2>1, <2>2 DEF FeedTypes
  <2>4. \A d \in Watched!Conns : Range(buffer'[d]) \subseteq Range(buffer[d])
    BY <1>1, <2>1, <2>2 DEF FeedTypes
  <2>5. \A b \in batches' : Range(b) \subseteq Everywhere
    BY <2>1, Places
  <2>6. {} \subseteq Everywhere /\ stored' \cup inserts' \subseteq stored \cup inserts \cup {}
    BY <2>1
  <2> QED BY <2>1, <2>3, <2>4, <2>5, <2>6, Behind, Zenon
<1>10. CASE \E b \in batches : Watched!ExecuteBatch(b)
  <2> PICK b \in batches : Watched!ExecuteBatch(b)
    BY <1>10
  <2>1. /\ batches' = batches \ {b} /\ stored' = stored \cup Range(b)
        /\ UNCHANGED <<emitted, agentQ, wire, conn, inserts, buffer>>
        /\ UNCHANGED <<seqno, published, page, sub, chan, dropped, shown, base>>
    BY DEF Watched!ExecuteBatch, Watched!Range, Range
  <2>2. Range(b) \subseteq Pairs
    BY <1>1 DEF FeedTypes, Range
  <2>3. FeedTypes'
    BY <1>1, <2>1, <2>2 DEF FeedTypes
  <2>4. \A d \in batches : Range(d) \subseteq Everywhere
    BY Places
  <2>5. Range(b) \subseteq Everywhere /\ stored' \cup inserts' \subseteq stored \cup inserts \cup Range(b)
    BY <2>1, <2>4
  <2> QED BY <2>1, <2>3, <2>4, <2>5, Behind
<1>11. CASE \E row \in inserts : Watched!InsertEvent(row)
  <2> PICK row \in inserts : Watched!InsertEvent(row)
    BY <1>11
  <2>1. /\ inserts' = inserts \ {row} /\ stored' = stored \cup {row}
        /\ UNCHANGED <<emitted, agentQ, wire, conn, batches, buffer>>
        /\ UNCHANGED <<seqno, published, page, sub, chan, dropped, shown, base>>
    BY DEF Watched!InsertEvent
  <2>2. FeedTypes'
    BY <1>1, <2>1 DEF FeedTypes
  <2>3. \A d \in batches' : Range(d) \subseteq Everywhere
    BY <2>1, Places, Zenon
  <2>4. {} \subseteq Everywhere /\ stored' \cup inserts' \subseteq stored \cup inserts \cup {}
    BY <2>1
  <2> QED BY <2>1, <2>2, <2>3, <2>4, Behind
<1>12. CASE \E st \in finishing : Watched!Finish(st)
  <2> PICK st \in finishing : Watched!Finish(st)
    BY <1>12
  <2> QED BY <1>1, HubCloses DEF Watched!Finish, FeedTypes
<1> QED BY <1>3, <1>4, <1>5, <1>6, <1>7, <1>8, <1>9, <1>10, <1>11, <1>12 DEF Watched!Background

(* The steps of a page and of the handler that serves it.  A row the page   *)
(* passes over has the number of one it shows, so it is that one.           *)
LEMMA PageKeepsFeed ==
  ASSUME FeedInv, NEW v \in Viewers, Watched!View(v)
  PROVE  FeedInv'
<1> USE DEF Watched!satVars, Watched!gwVars, Watched!dbVars, Watched!viewVars, Watched!hubVars
<1>1. FeedTypes /\ Fed(v)
  BY DEF FeedInv
<1>2. /\ chan[v] \in Seq(Pairs) /\ shown[v] \subseteq Pairs /\ base[v] \in Nat /\ Len(published) \in Nat
      /\ <<>> \in Seq(Pairs) /\ Range(<<>>) = {} /\ Range(chan[v]) \subseteq Pairs
  <2>1. chan[v] \in Seq(Pairs) /\ shown[v] \subseteq Pairs /\ base[v] \in Nat /\ published \in Seq(Nat)
    BY <1>1 DEF FeedTypes
  <2>2. <<>> \in Seq(Pairs) /\ Range(<<>>) = {}
    BY DEF Range
  <2>3. Range(chan[v]) \subseteq Pairs
    BY <2>1 DEF Range
  <2> QED BY <2>1, <2>2, <2>3
<1>3. UNCHANGED <<emitted, agentQ, wire, conn, seqno, stored, inserts, buffer, batches, published>>
  BY DEF Watched!View, Watched!CheckRun, Watched!Subscribe, Watched!Replay, Watched!Deliver, Watched!EndOfStream
<1>4. ASSUME NEW p \in {"out", "done"}, page' = [page EXCEPT ![v] = p], Watched!Unsubscribe(v), base' = base,
             NEW T, T \subseteq Range(chan[v]) \cup stored, shown' = [shown EXCEPT ![v] = shown[v] \cup T]
      PROVE  FeedInv'
  <2>1. /\ sub' = [sub EXCEPT ![v] = "no"] /\ chan' = [chan EXCEPT ![v] = <<>>]
        /\ dropped' = [dropped EXCEPT ![v] = FALSE]
    BY <1>4 DEF Watched!Unsubscribe
  <2>2. T \subseteq Pairs
    BY <1>1, <1>2, <1>4 DEF FeedTypes
  <2>3. FeedTypes'
    BY <1>1, <1>2, <1>3, <1>4, <2>1, <2>2 DEF FeedTypes
  <2>4. shown'[v] \cup Range(chan'[v]) \subseteq shown[v] \cup Range(chan[v]) \cup stored
    BY <1>1, <1>2, <1>4, <2>1 DEF FeedTypes
  <2>5. \A u \in Viewers \ {v} : /\ page'[u] = page[u] /\ sub'[u] = sub[u] /\ chan'[u] = chan[u]
                                 /\ dropped'[u] = dropped[u] /\ shown'[u] = shown[u] /\ base'[u] = base[u]
    BY <1>1, <1>4, <2>1 DEF FeedTypes
  <2>6. Fed(v)'
    BY <1>1, <1>4 DEF Fed, FeedTypes
  <2> QED BY <1>3, <2>3, <2>4, <2>5, <2>6, OnlyPage, Zenon
<1>5. ASSUME NEW p \in {"live", "subscribed"}, page' = [page EXCEPT ![v] = p], UNCHANGED <<sub, dropped, base>>,
             page[v] \in {"live", "subscribed"},
             NEW T, T \subseteq Range(chan[v]) \cup stored, shown' = [shown EXCEPT ![v] = shown[v] \cup T],
             NEW q \in Seq(Pairs), chan' = [chan EXCEPT ![v] = q],
             Range(q) \subseteq Range(chan[v]), Range(chan[v]) \subseteq shown[v] \cup T \cup Range(q)
      PROVE  FeedInv'
  <2>1. T \subseteq Pairs
    BY <1>1, <1>2, <1>5 DEF FeedTypes
  <2>2. FeedTypes'
    BY <1>1, <1>2, <1>3, <1>5, <2>1 DEF FeedTypes
  <2>3. shown'[v] = shown[v] \cup T /\ chan'[v] = q /\ page'[v] = p
    BY <1>1, <1>5 DEF FeedTypes
  <2>4. shown'[v] \cup Range(chan'[v]) \subseteq shown[v] \cup Range(chan[v]) \cup stored
    BY <1>5, <2>3
  <2>5. shown[v] \cup Range(chan[v]) \subseteq shown'[v] \cup Range(chan'[v])
    BY <1>5, <2>3
  <2>6. \A u \in Viewers \ {v} : /\ page'[u] = page[u] /\ sub'[u] = sub[u] /\ chan'[u] = chan[u]
                                 /\ dropped'[u] = dropped[u] /\ shown'[u] = shown[u] /\ base'[u] = base[u]
    BY <1>1, <1>5 DEF FeedTypes
  <2>7. Fed(v)'
    <3>1. SUFFICES ASSUME sub[v] = "open", dropped[v] = FALSE, NEW i \in base[v] + 1 .. Len(published)
                   PROVE  \E r \in shown'[v] \cup Range(chan'[v]) : r[1] = published[i]
      BY <1>3, <1>5, Zenon DEF Fed
    <3>2. \E r \in shown[v] \cup Range(chan[v]) : r[1] = published[i]
      BY <1>1, <1>5, <3>1, Zenon DEF Fed
    <3> QED BY <2>5, <3>2, Zenon
  <2> QED BY <1>3, <2>2, <2>4, <2>6, <2>7, OnlyPage, Zenon
<1>6. CASE Watched!CheckRun(v)
  <2>1. page' = [page EXCEPT ![v] = "checked"] /\ UNCHANGED <<sub, chan, dropped, shown, base>>
    BY <1>6 DEF Watched!CheckRun
  <2>2. FeedTypes'
    BY <1>1, <1>3, <2>1 DEF FeedTypes
  <2>3. Fed(v)'
    BY <1>1, <2>1 DEF Fed, FeedTypes
  <2>4. \A u \in Viewers \ {v} : page'[u] = page[u]
    BY <1>1, <2>1 DEF FeedTypes
  <2> QED BY <1>3, <2>1, <2>2, <2>3, <2>4, OnlyPage
<1>7. CASE Watched!Subscribe(v)
  <2>1. /\ page' = [page EXCEPT ![v] = "subscribed"] /\ sub' = [sub EXCEPT ![v] = "open"]
        /\ base' = [base EXCEPT ![v] = Len(published)] /\ UNCHANGED <<chan, dropped, shown>>
    BY <1>7 DEF Watched!Subscribe
  <2>2. FeedTypes'
    BY <1>1, <1>2, <1>3, <2>1 DEF FeedTypes
  <2>3. Fed(v)'
    <3>1. base'[v] = Len(published)
      BY <1>1, <2>1 DEF FeedTypes
    <3>2. base'[v] + 1 .. Len(published') = {}
      <4>1. \A n \in Nat : n + 1 .. n = {}
        OBVIOUS
      <4>2. Len(published) \in Nat /\ published' = published
        BY <1>1, <1>3 DEF FeedTypes
      <4> QED BY <3>1, <4>1, <4>2, Zenon
    <3> QED BY <3>2, Zenon DEF Fed
  <2>4. \A u \in Viewers \ {v} : page'[u] = page[u] /\ sub'[u] = sub[u] /\ base'[u] = base[u]
    BY <1>1, <2>1 DEF FeedTypes
  <2> QED BY <1>3, <2>1, <2>2, <2>3, <2>4, OnlyPage, Zenon
<1>8. CASE Watched!Replay(v)
  <2>1. PICK T \in Watched!History(v) :
             /\ shown' = [shown EXCEPT ![v] = shown[v] \cup T]
             /\ \/ page' = [page EXCEPT ![v] = "done"] /\ Watched!Unsubscribe(v)
                \/ page' = [page EXCEPT ![v] = "out"] /\ Watched!Unsubscribe(v)
                \/ page' = [page EXCEPT ![v] = "live"] /\ UNCHANGED <<sub, chan, dropped>>
    BY <1>8, Zenon DEF Watched!Replay
  <2>2. T \subseteq Range(chan[v]) \cup stored
    BY DEF Watched!History, Watched!NewTo
  <2>3. base' = base /\ page[v] = "subscribed"
    BY <1>8 DEF Watched!Replay
  <2>4. CASE \E p \in {"out", "done"} : page' = [page EXCEPT ![v] = p] /\ Watched!Unsubscribe(v)
    BY <1>4, <2>1, <2>2, <2>3, <2>4, Zenon
  <2>5. CASE page' = [page EXCEPT ![v] = "live"] /\ UNCHANGED <<sub, chan, dropped>>
    <3>1. chan' = [chan EXCEPT ![v] = chan[v]]
      BY <1>1, <2>5 DEF FeedTypes
    <3> QED BY <1>2, <1>5, <2>1, <2>2, <2>3, <2>5, <3>1, Zenon
  <2> QED BY <2>1, <2>4, <2>5
<1>9. CASE Watched!Deliver(v)
  <2> DEFINE T == Watched!NewTo(v, {Head(chan[v])})
  <2>1. /\ page[v] = "live" /\ chan[v] # <<>> /\ base' = base
        /\ shown' = [shown EXCEPT ![v] = shown[v] \cup T]
        /\ \/ page' = [page EXCEPT ![v] = "done"] /\ Watched!Unsubscribe(v)
           \/ page' = page /\ chan' = [chan EXCEPT ![v] = Tail(chan[v])] /\ UNCHANGED <<sub, dropped>>
    BY <1>9 DEF Watched!Deliver
  <2>2. /\ Tail(chan[v]) \in Seq(Pairs) /\ Range(chan[v]) \subseteq {Head(chan[v])} \cup Range(Tail(chan[v]))
        /\ Range(Tail(chan[v])) \subseteq Range(chan[v]) /\ Head(chan[v]) \in Range(chan[v])
    BY <1>2, <2>1, RangeOfTail
  <2>3. T \subseteq Range(chan[v]) \cup stored
    BY <2>2 DEF Watched!NewTo
  <2>4. Head(chan[v]) \in shown[v] \cup T
    <3>1. CASE Head(chan[v]) \in T
      BY <3>1
    <3>2. CASE Head(chan[v]) \notin T
      <4>1. PICK s \in shown[v] : s[2] = Head(chan[v])[2]
        BY <3>2 DEF Watched!NewTo
      <4>2. s \in Everywhere /\ Head(chan[v]) \in Everywhere
        BY <2>2, Places
      <4>3. s = Head(chan[v])
        BY <4>1, <4>2 DEF FeedInv, Numbered
      <4> QED BY <4>3
    <3> QED BY <3>1, <3>2
  <2> HIDE DEF T
  <2>5. CASE page' = [page EXCEPT ![v] = "done"] /\ Watched!Unsubscribe(v)
    BY <1>4, <2>1, <2>3, <2>5, Zenon
  <2>6. CASE page' = page /\ chan' = [chan EXCEPT ![v] = Tail(chan[v])] /\ UNCHANGED <<sub, dropped>>
    <3>1. page' = [page EXCEPT ![v] = "live"]
      BY <1>1, <2>1, <2>6 DEF FeedTypes
    <3>2. Range(chan[v]) \subseteq shown[v] \cup T \cup Range(Tail(chan[v]))
      BY <2>2, <2>4
    <3> QED BY <1>5, <2>1, <2>2, <2>3, <2>6, <3>1, <3>2, Zenon
  <2> QED BY <2>1, <2>5, <2>6
<1>10. CASE Watched!EndOfStream(v)
  <2> DEFINE T == {}
  <2>1. page' = [page EXCEPT ![v] = "out"] /\ Watched!Unsubscribe(v) /\ base' = base /\ shown' = shown
    BY <1>10, Zenon DEF Watched!EndOfStream
  <2>2. shown' = [shown EXCEPT ![v] = shown[v] \cup T] /\ T \subseteq Range(chan[v]) \cup stored
    BY <1>1, <2>1 DEF FeedTypes
  <2> HIDE DEF T
  <2> QED BY <1>4, <2>1, <2>2, Zenon
<1> QED BY <1>6, <1>7, <1>8, <1>9, <1>10 DEF Watched!View

(* Before the first event nothing is anywhere, so FeedInv holds. *)
LEMMA InitFeed ==
  ASSUME Watched!Init
  PROVE  FeedInv
<1>1. FeedTypes
  BY DEF Watched!Init, FeedTypes
<1>2. Everywhere = {}
  <2>1. ASSUME NEW r PROVE r \notin Everywhere
    <3>1. Range(<<>>) = {}
      BY DEF Range
    <3>2. stored = {} /\ inserts = {} /\ batches = {}
      BY DEF Watched!Init
    <3>3. \A c \in Watched!Conns : Range(buffer[c]) = {}
      BY <3>1 DEF Watched!Init
    <3>4. \A v \in Viewers : shown[v] = {} /\ Range(chan[v]) = {}
      BY <3>1 DEF Watched!Init
    <3> QED BY <3>2, <3>3, <3>4, Places, Zenon
  <2> QED BY <2>1
<1>3. \A v \in Viewers : Fed(v)
  BY DEF Watched!Init, Fed
<1> QED BY <1>1, <1>2, <1>3 DEF FeedInv, Numbered

(* Every step of agents, streams, the writer and the pages keeps FeedInv. *)
LEMMA NextFeed ==
  ASSUME FeedInv, [Watched!Next]_runVars
  PROVE  FeedInv'
<1>1. CASE UNCHANGED runVars
  <2>1. /\ UNCHANGED <<emitted, agentQ, wire, conn, seqno, published, buffer, batches, inserts, stored>>
        /\ UNCHANGED <<page, sub, chan, dropped, shown, base>>
    BY <1>1, Zenon DEF runVars
  <2>2. FeedTypes'
    BY <2>1, Zenon DEF FeedInv, FeedTypes
  <2>3. Everywhere' = Everywhere /\ seqno' = seqno
    BY <2>1 DEF Everywhere
  <2>4. \A v \in Viewers : Fed(v)'
    BY <2>1, Zenon DEF FeedInv, Fed
  <2> QED BY <2>2, <2>3, <2>4, NoNewRow
<1> QED BY <1>1, GatewayKeepsFeed, PageKeepsFeed DEF Watched!Next

(* "Subscribe BEFORE replay to avoid missing live events during replay"     *)
(* (agent_run_stream.go:221): for every script, any number of pages and     *)
(* channels of any size, what was published since a page subscribed is on   *)
(* the page or in its channel, unless the channel overflowed.               *)
THEOREM NothingMissedLive == PartSpec => []LiveFeedComplete
<1> DEFINE Inv == part = "watched" => FeedInv
<1>1. PartInit => Inv
  BY InitFeed DEF PartInit
<1>2. Inv /\ [PartNext]_allVars => Inv'
  <2> SUFFICES ASSUME Inv, [PartNext]_allVars, part' = "watched" PROVE FeedInv'
    OBVIOUS
  <2>1. part' = part
    BY DEF PartNext, WriterPart, RunPart, allVars
  <2>2. [Watched!Next]_runVars
    BY <2>1 DEF PartNext, WriterPart, RunPart, allVars
  <2> QED BY <2>1, <2>2, NextFeed
<1>3. Inv => LiveFeedComplete
  <2>1. ASSUME NEW S PROVE Watched!Range(S) = Range(S)
    BY DEF Watched!Range, Range
  <2> QED BY <2>1 DEF FeedInv, Fed, FeedTypes, LiveFeedComplete, Watched!LiveFeedComplete
<1> QED BY <1>1, <1>2, <1>3, PTL DEF PartSpec
=============================================================================
