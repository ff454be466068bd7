-------------------------- MODULE RTPStreamProofs --------------------------
(***************************************************************************)
(* Proofs about RTPStream, for any goroutines, digits, losses and audio: a *)
(* digit of which enough is read is reported, and the digits reported are  *)
(* the ones pressed, once and in order, as DigitChannel promises.          *)
(***************************************************************************)
EXTENDS RTPStream, TLAPS

-----------------------------------------------------------------------------
(* The inductive invariant *)

Packet == [ts : Nat, marker : BOOLEAN, pt : Nat, end : BOOLEAN, id : Nat, fresh : BOOLEAN]
Writer == [pc : {"idle", "follow", "lock", "event"}, ev : Nat, saw : Nat, id : Nat,
           fresh : BOOLEAN]
Reader == [pt : Nat, began : Nat, ts : Nat, last : Nat]
PacketWriter == [ts : Nat, init : Nat, written : BOOLEAN, evTs : Nat]
Parts == {"begin", "end", "heard"}

StreamTypes ==
    /\ pressed \in Seq(Digits) /\ wire \in Seq(Packet)
    /\ w \in PacketWriter
    /\ caller \in [Callers -> Writer] /\ rx \in Reader
    /\ txPT \in Nat /\ session \in [{"tx", "rx"} -> Nat]
    /\ mu \in BOOLEAN
    /\ got \subseteq (1 .. Len(pressed)) \X Parts

Writing(c) == caller[c].pc = "event"

\* One goroutine writes a digit, the last one pressed, while it has the lock, and no
\* audio through the DTMF writer breaks in.
Held ==
    /\ \A c \in Callers : Writing(c) =>
          mu /\ caller[c].id = Len(pressed) /\ Len(pressed) > 0 /\ caller[c].ev > 0
    /\ \A c \in Callers : ~Writing(c) => ~caller[c].fresh
    /\ \A c, d \in Callers : Writing(c) /\ Writing(d) => c = d
    /\ audio.pc # "idle" /\ ~scene.direct => mu /\ \A c \in Callers : ~Writing(c)

\* Timestamps only grow, and no event is of a digit not yet pressed.
Stamps ==
    /\ rx.ts <= w.evTs /\ w.evTs <= w.ts
    /\ rx.last <= Len(pressed)
    /\ \A i \in DOMAIN wire : wire[i].id # 0 =>
          wire[i].id <= Len(pressed) /\ wire[i].ts <= w.evTs

\* The event that goroutine x is to write with the packet writer u and payload type pt.
Coming(x, u, pt) ==
    [ts |-> u.ts, marker |-> x.ev = 1, pt |-> pt, end |-> x.ev > StartEvents, id |-> x.id,
     fresh |-> x.fresh \/ u.ts # u.evTs]

\* Event p was written before q: digits follow one another, the starts of a digit its
\* ends, and a digit is fresh from its first event of a timestamp of its own on.
Before(p, q) ==
    /\ p.id <= q.id /\ p.ts <= q.ts
    /\ p.id = q.id /\ p.end => q.end
    /\ q.fresh => p.ts < q.ts \/ (p.id = q.id /\ p.fresh)

Ordered ==
    /\ \A i, j \in DOMAIN wire :
          i < j /\ wire[i].id # 0 /\ wire[j].id # 0 => Before(wire[i], wire[j])
    /\ \A i \in DOMAIN wire, c \in Callers :
          wire[i].id # 0 /\ Writing(c) => Before(wire[i], Coming(caller[c], w, txPT))

\* What a reader r that has read g may still read: nothing of a digit before the one it
\* has begun, no start of one of which it has read an end, and a fresh start only if that
\* begins its digit or the digit is begun; and a digit begun is reported, or the one
\* whose end r waits for, or over.
Ahead(p, r, g) ==
    /\ r.last <= p.id /\ r.ts <= p.ts
    /\ p.fresh /\ ~p.end => r.ts < p.ts \/ r.last = p.id
    /\ \A i \in Nat : <<i, "end">> \in g => i <= p.id /\ (~p.end => i < p.id)
    /\ \A i \in Nat : <<i, "begin">> \in g =>
          i < p.id \/ r.last = i \/ <<i, "heard">> \in g

Unread ==
    /\ \A i \in DOMAIN wire : wire[i].id # 0 => Ahead(wire[i], rx, got)
    /\ \A c \in Callers : Writing(c) => Ahead(Coming(caller[c], w, txPT), rx, got)

\* The payload type is that of the session the Read began on, and the digit begun is
\* none that was reported.
Following ==
    /\ rx.began # 0 => rx.pt = rx.began
    /\ \A i \in Nat : <<i, "heard">> \in got =>
          <<i, "end">> \in got /\ (rx.last # 0 => i < rx.last)

StreamInv ==
    /\ StreamTypes /\ Held /\ Stamps /\ Ordered /\ Unread /\ Following
    /\ DigitReported

-----------------------------------------------------------------------------
(* Sequences *)

\* What remains of a sequence without its head.
LEMMA TailFacts ==
  ASSUME NEW S, NEW s \in Seq(S), s # <<>>
  PROVE  /\ Tail(s) \in Seq(S) /\ Head(s) = s[1] /\ s[1] \in S /\ 1 \in DOMAIN s
         /\ \A i \in DOMAIN Tail(s) : i + 1 \in DOMAIN s /\ Tail(s)[i] = s[i + 1] /\ i > 0
OBVIOUS

\* What an element at the end adds.
LEMMA AppendFacts ==
  ASSUME NEW S, NEW s \in Seq(S), NEW x \in S
  PROVE  /\ Append(s, x) \in Seq(S) /\ Len(s) \in Nat /\ Len(Append(s, x)) = Len(s) + 1
         /\ \A i \in DOMAIN Append(s, x) :
               \/ i \in DOMAIN s /\ Append(s, x)[i] = s[i]
               \/ i = Len(s) + 1 /\ Append(s, x)[i] = x
         /\ \A i \in DOMAIN s : i \in DOMAIN Append(s, x) /\ i \in Nat /\ i <= Len(s)
OBVIOUS

-----------------------------------------------------------------------------
(* one event read *)

\* What reading event p adds to what has been read, and where it leaves the reader: it
\* reports a digit (rep), or begins one, or neither.
Added(p, rep) ==
    (IF p.end THEN {<<p.id, "end">>} ELSE {})
    \cup (IF ~p.end /\ (p.marker \/ p.fresh) THEN {<<p.id, "begin">>} ELSE {})
    \cup (IF rep THEN {<<p.id, "heard">>} ELSE {})
After(p, r, rep) ==
    IF rep THEN 0 ELSE IF ~p.end /\ (p.marker \/ p.ts # r.ts) THEN p.id ELSE r.last

\* Which pieces are new.
LEMMA AddedFacts ==
  ASSUME NEW p \in Packet, NEW rep \in BOOLEAN, NEW g, NEW i \in Nat
  PROVE  /\ <<i, "end">> \in g \cup Added(p, rep) <=> <<i, "end">> \in g \/ (p.end /\ i = p.id)
         /\ <<i, "begin">> \in g \cup Added(p, rep)
               <=> <<i, "begin">> \in g \/ (~p.end /\ (p.marker \/ p.fresh) /\ i = p.id)
         /\ <<i, "heard">> \in g \cup Added(p, rep)
               <=> <<i, "heard">> \in g \/ (rep /\ i = p.id)
BY DEF Added

\* What a goroutine is to write is a packet.
LEMMA ComingType ==
  ASSUME NEW x \in Writer, NEW u \in PacketWriter, NEW pt \in Nat
  PROVE  Coming(x, u, pt) \in Packet
BY EventsAssumption DEF Coming, Packet, Writer, PacketWriter

\* An event that comes later is still ahead once p has been read.
LEMMA ReadAhead ==
  ASSUME NEW p \in Packet, NEW q \in Packet, NEW r \in Reader, NEW t \in Reader,
         NEW g, NEW rep \in BOOLEAN,
         p.id # 0, Before(p, q), Ahead(p, r, g), Ahead(q, r, g),
         rep => p.end, t.ts = p.ts, t.last = After(p, r, rep)
  PROVE  Ahead(q, t, g \cup Added(p, rep))
<1>1. /\ p.id \in Nat /\ q.id \in Nat /\ p.ts \in Nat /\ q.ts \in Nat /\ r.ts \in Nat
      /\ r.last \in Nat /\ t.ts \in Nat /\ t.last \in Nat
  BY DEF Packet, Reader
<1>2. t.last <= q.id /\ t.ts <= q.ts
  BY <1>1 DEF Before, Ahead, After
<1>3. q.fresh /\ ~q.end => t.ts < q.ts \/ t.last = q.id
  BY <1>1 DEF Before, Ahead, After
<1> DEFINE h == g \cup Added(p, rep)
<1>4. \A i \in Nat :
         /\ <<i, "end">> \in h <=> <<i, "end">> \in g \/ (p.end /\ i = p.id)
         /\ <<i, "begin">> \in h
               <=> <<i, "begin">> \in g \/ (~p.end /\ (p.marker \/ p.fresh) /\ i = p.id)
         /\ <<i, "heard">> \in h <=> <<i, "heard">> \in g \/ (rep /\ i = p.id)
  BY AddedFacts, Zenon
<1> HIDE DEF h
<1>5. ASSUME NEW i \in Nat, <<i, "end">> \in h
      PROVE  i <= q.id /\ (~q.end => i < q.id)
  <2>1. <<i, "end">> \in g \/ (p.end /\ i = p.id)
    BY <1>4, <1>5, Zenon
  <2>2. <<i, "end">> \in g => i <= p.id /\ (~p.end => i < p.id)
    BY Zenon DEF Ahead
  <2> QED BY <1>1, <2>1, <2>2 DEF Before
<1>6. ASSUME NEW i \in Nat, <<i, "begin">> \in h
      PROVE  i < q.id \/ t.last = i \/ <<i, "heard">> \in h
  <2>1. CASE <<i, "begin">> \in g
    <3>1. i < p.id \/ r.last = i \/ <<i, "heard">> \in h
      BY <1>4, <2>1, Zenon DEF Ahead
    <3>2. CASE r.last = i
      <4>1. r.last <= p.id /\ (rep /\ i = p.id => <<i, "heard">> \in h)
        BY <1>4, Zenon DEF Ahead
      <4> QED BY <1>1, <3>2, <4>1 DEF Before, After
    <3> QED BY <1>1, <3>1, <3>2 DEF Before
  <2>2. CASE <<i, "begin">> \notin g
    <3>1. ~p.end /\ (p.marker \/ p.fresh) /\ i = p.id /\ ~rep
      BY <1>4, <1>6, <2>2, Zenon
    <3> QED BY <1>1, <3>1 DEF Before, Ahead, After
  <2> QED BY <2>1, <2>2
<1> QED BY <1>2, <1>3, <1>5, <1>6 DEF Ahead, h

\* A Read returns with an event, or with audio or an event of another payload type.
LEMMA ReadReturnsInv ==
  ASSUME StreamInv, ReadReturns
  PROVE  StreamInv'
<1> DEFINE p == wire[1]
           n == Len(pressed)
<1>1. /\ wire # <<>> /\ wire' = Tail(wire) /\ rx.began # 0
      /\ UNCHANGED <<scene, mu, w, clock, audio, caller, txPT, session, losses, pressed>>
  BY DEF ReadReturns, None, sender
<1>2. StreamTypes /\ Held /\ Stamps /\ Ordered /\ Unread /\ Following /\ DigitReported
  BY DEF StreamInv
<1>3. /\ wire' \in Seq(Packet) /\ Head(wire) = p /\ p \in Packet /\ 1 \in DOMAIN wire
      /\ \A i \in DOMAIN wire' : i + 1 \in DOMAIN wire /\ wire'[i] = wire[i + 1] /\ i > 0
  BY <1>1, <1>2, TailFacts DEF StreamTypes
<1>4. n \in Nat
  BY <1>2 DEF StreamTypes
<1>5. rx.pt = rx.began
  BY <1>1, <1>2 DEF Following
<1> HIDE DEF p, n
<1>6. Ordered'
  BY <1>1, <1>2, <1>3 DEF Ordered, Writing
<1>7. Held'
  BY <1>1, <1>2 DEF Held, Writing
<1>8. CASE p.id = 0 \/ p.pt # rx.pt
  <2>1. rx' = [rx EXCEPT !.began = 0] /\ got' = got
    BY <1>1, <1>3, <1>5, <1>8, Zenon DEF ReadReturns, None, Pieces
  <2>2. StreamTypes'
    BY <1>1, <1>2, <1>3, <2>1, Zenon DEF StreamTypes, Reader
  <2>3. rx'.ts = rx.ts /\ rx'.last = rx.last /\ rx'.began = 0
    BY <1>2, <2>1 DEF StreamTypes, Reader
  <2>4. Stamps'
    BY <1>1, <1>2, <1>3, <2>3 DEF Stamps
  <2>5. Unread'
    BY <1>1, <1>2, <1>3, <2>1, <2>3 DEF Unread, Ahead, Writing
  <2>6. Following' /\ DigitReported'
    BY <1>1, <1>2, <2>1, <2>3 DEF Following, DigitReported
  <2> QED BY <1>6, <1>7, <2>2, <2>4, <2>5, <2>6 DEF StreamInv
<1>9. CASE p.id # 0 /\ p.pt = rx.pt
  <2> DEFINE rep == Reports(p)
  <2>1. /\ rx' = [rx EXCEPT !.began = 0, !.ts = p.ts, !.last = After(p, rx, rep)]
        /\ got' = got \cup Added(p, rep)
    BY <1>1, <1>3, <1>5, <1>9, Zenon DEF ReadReturns, None, Pieces,
       Cleared,
       Begins, After, Added
  <2>2. rep \in BOOLEAN /\ (rep => p.end) /\ (p.end /\ rx.last = p.id => rep)
    BY <1>9 DEF Reports, None
  <2> HIDE DEF rep
  <2>3. /\ p.id \in 1 .. n /\ p.ts \in Nat /\ p.ts <= w.evTs /\ w.evTs \in Nat /\ w.ts \in Nat
        /\ rx \in Reader /\ rx.last \in 0 .. n
    <3>1. p.id <= n /\ p.ts <= w.evTs /\ rx.last <= n
      BY <1>2, <1>3, <1>9 DEF Stamps, p, n
    <3>2. p.id \in Nat /\ p.ts \in Nat /\ w.evTs \in Nat /\ w.ts \in Nat
      BY <1>2, <1>3 DEF StreamTypes, Packet, PacketWriter
    <3>3. rx \in Reader /\ rx.last \in Nat
      BY <1>2 DEF StreamTypes, Reader
    <3> QED BY <1>4, <1>9, <3>1, <3>2, <3>3
  <2>4. After(p, rx, rep) \in 0 .. n
    BY <1>4, <2>3 DEF After
  <2>5. rx' \in Reader /\ rx'.ts = p.ts /\ rx'.last = After(p, rx, rep) /\ rx'.began = 0
    <3>1. After(p, rx, rep) \in Nat
      BY <1>4, <2>4
    <3> QED BY <2>1, <2>3, <3>1, Zenon DEF Reader
  <2>6. got' \subseteq (1 .. n) \X Parts
    BY <1>2, <2>1, <2>3 DEF StreamTypes, Added, Parts, n
  <2>7. StreamTypes' /\ n' = n
    BY <1>1, <1>2, <1>3, <2>5, <2>6 DEF StreamTypes, n
  <2>8. Stamps'
    BY <1>1, <1>2, <1>3, <2>3, <2>4, <2>5 DEF Stamps, n
  <2>9. Unread'
    <3>1. ASSUME NEW q \in Packet, Before(p, q), Ahead(q, rx, got)
          PROVE  Ahead(q, rx', got')
      <4>1. Ahead(p, rx, got)
        BY <1>2, <1>3, <1>9 DEF Unread, p
      <4> QED BY <1>3, <1>9, <2>1, <2>2, <2>3, <2>5, <3>1, <4>1, ReadAhead, Zenon
    <3>2. ASSUME NEW i \in DOMAIN wire', wire'[i].id # 0
          PROVE  Ahead(wire'[i], rx', got')
      <4>1. i + 1 \in DOMAIN wire /\ wire'[i] = wire[i + 1] /\ 1 < i + 1
        BY <1>3
      <4>2. Before(p, wire'[i]) /\ Ahead(wire'[i], rx, got)
        BY <1>2, <1>3, <1>9, <3>2, <4>1 DEF Ordered, Unread, p
      <4>3. wire'[i] \in Packet
        BY <1>2, <4>1 DEF StreamTypes
      <4> QED BY <3>1, <4>2, <4>3
    <3>3. ASSUME NEW c \in Callers, Writing(c)
          PROVE  Ahead(Coming(caller[c], w, txPT), rx', got')
      <4>1. Before(p, Coming(caller[c], w, txPT)) /\ Ahead(Coming(caller[c], w, txPT), rx, got)
        BY <1>2, <1>3, <1>9, <3>3 DEF Ordered, Unread, p
      <4>2. Coming(caller[c], w, txPT) \in Packet
        BY <1>2, ComingType DEF StreamTypes
      <4> QED BY <3>1, <4>1, <4>2
    <3> QED BY <1>1, <3>2, <3>3 DEF Unread, Writing
  <2>10. Following' /\ DigitReported'
    <3>1. \A i \in Nat :
             /\ <<i, "end">> \in got' <=> <<i, "end">> \in got \/ (p.end /\ i = p.id)
             /\ <<i, "begin">> \in got'
                   <=> <<i, "begin">> \in got \/ (~p.end /\ (p.marker \/ p.fresh) /\ i = p.id)
             /\ <<i, "heard">> \in got' <=> <<i, "heard">> \in got \/ (rep /\ i = p.id)
      BY <1>3, <2>1, <2>2, AddedFacts, Zenon
    <3>2. \A i \in Nat :
             /\ <<i, "end">> \in got => i <= p.id /\ (~p.end => i < p.id)
             /\ <<i, "begin">> \in got => i < p.id \/ rx.last = i \/ <<i, "heard">> \in got
      BY <1>2, <1>3, <1>9, Zenon DEF Unread, Ahead, p
    <3>3. \A i \in Nat : <<i, "heard">> \in got =>
             <<i, "end">> \in got /\ (rx.last # 0 => i < rx.last)
      BY <1>2 DEF Following
    <3>4. \A i \in 1 .. n :
             <<i, "begin">> \in got /\ <<i, "end">> \in got => <<i, "heard">> \in got
      BY <1>2 DEF DigitReported, n
    <3>5. ASSUME NEW i \in Nat, <<i, "heard">> \in got'
          PROVE  <<i, "end">> \in got' /\ (rx'.last # 0 => i < rx'.last)
      <4>1. CASE <<i, "heard">> \in got
        BY <1>4, <2>3, <2>5, <3>1, <3>2, <3>3, <4>1, Zenon DEF After
      <4>2. CASE rep /\ i = p.id
        BY <2>2, <2>5, <3>1, <4>2, Zenon DEF After
      <4> QED BY <3>1, <3>5, <4>1, <4>2, Zenon
    <3>6. ASSUME NEW i \in 1 .. n, <<i, "begin">> \in got', <<i, "end">> \in got'
          PROVE  <<i, "heard">> \in got'
      <4>1. i \in Nat
        BY <1>4
      <4>2. CASE i = p.id
        BY <1>4, <2>2, <2>3, <3>1, <3>2, <3>4, <3>6, <4>1, <4>2
      <4>3. CASE i # p.id
        BY <3>1, <3>4, <3>6, <4>1, <4>3
      <4> QED BY <4>2, <4>3
    <3> QED BY <1>1, <2>5, <3>5, <3>6 DEF Following, DigitReported, n
  <2> QED BY <1>6, <1>7, <2>7, <2>8, <2>9, <2>10 DEF StreamInv
<1> QED BY <1>8, <1>9

-----------------------------------------------------------------------------
(* the writers *)

\* What is to be written stays after p, and ahead of the reader, as timestamps advance.
LEMMA ComingMoves ==
  ASSUME NEW x \in Writer, NEW u \in PacketWriter, NEW v \in PacketWriter, NEW pt,
         u.evTs <= u.ts, u.ts <= v.ts, v.evTs = u.evTs
  PROVE  /\ \A p \in Packet : p.ts <= u.evTs /\ Before(p, Coming(x, u, pt)) =>
               Before(p, Coming(x, v, pt))
         /\ \A r \in Reader : \A g : r.ts <= u.evTs /\ Ahead(Coming(x, u, pt), r, g) =>
               Ahead(Coming(x, v, pt), r, g)
<1> DEFINE a == Coming(x, u, pt)
           b == Coming(x, v, pt)
<1>1. /\ a.ts = u.ts /\ b.ts = v.ts /\ a.id = b.id /\ a.end = b.end
      /\ b.fresh => a.fresh \/ u.evTs < v.ts
  BY DEF Coming, PacketWriter
<1>2. u.ts \in Nat /\ v.ts \in Nat /\ u.evTs \in Nat
  BY DEF PacketWriter
<1> HIDE DEF a, b
<1>3. ASSUME NEW p \in Packet, p.ts <= u.evTs, Before(p, a) PROVE Before(p, b)
  BY <1>1, <1>2, <1>3 DEF Before, Packet
<1>4. ASSUME NEW r \in Reader, NEW g, r.ts <= u.evTs, Ahead(a, r, g) PROVE Ahead(b, r, g)
  <2>1. r.ts \in Nat
    BY DEF Reader
  <2>2. r.last <= b.id /\ r.ts <= b.ts
    BY <1>1, <1>2, <1>4, <2>1 DEF Ahead
  <2>3. b.fresh /\ ~b.end => r.ts < b.ts \/ r.last = b.id
    BY <1>1, <1>2, <1>4, <2>1 DEF Ahead
  <2> QED BY <1>1, <1>4, <2>2, <2>3, Zenon DEF Ahead
<1> QED BY <1>3, <1>4 DEF a, b

\* The next event of a digit follows the one just written and is where that was.
LEMMA ComingNext ==
  ASSUME NEW x \in Writer, NEW u \in PacketWriter, NEW y \in Writer, NEW v \in PacketWriter,
         NEW pt \in Nat,
         y.ev = x.ev + 1, y.id = x.id, y.fresh = (x.fresh \/ u.ts # u.evTs),
         v.ts = u.ts, v.evTs = u.ts
  PROVE  /\ Before(Coming(x, u, pt), Coming(y, v, pt))
         /\ \A p : Before(p, Coming(x, u, pt)) => Before(p, Coming(y, v, pt))
         /\ \A r, g : Ahead(Coming(x, u, pt), r, g) => Ahead(Coming(y, v, pt), r, g)
<1> DEFINE a == Coming(x, u, pt)
           b == Coming(y, v, pt)
<1>1. a.ts = b.ts /\ a.id = b.id /\ (a.end => b.end) /\ b.fresh = a.fresh
  BY EventsAssumption DEF Coming, Writer, PacketWriter
<1>2. a.ts \in Nat /\ a.id \in Nat
  BY DEF Coming, Writer, PacketWriter
<1> HIDE DEF a, b
<1>3. Before(a, b)
  BY <1>1, <1>2 DEF Before
<1>4. ASSUME NEW p, Before(p, a) PROVE Before(p, b)
  BY <1>1, <1>4 DEF Before
<1>5. ASSUME NEW r, NEW g, Ahead(a, r, g) PROVE Ahead(b, r, g)
  BY <1>1, <1>5, Zenon DEF Ahead
<1> QED BY <1>3, <1>4, <1>5 DEF a, b

\* Steps of the audio goroutine and of the clock write audio at most, and timestamps do
\* not go back.
LEMMA AudioInv ==
  ASSUME StreamInv,
         \/ Audio \/ ClockDisable \/ ClockEnable
         \/ ResetTimestamp
  PROVE  StreamInv'
<1>1. StreamTypes /\ Held /\ Stamps /\ Ordered /\ Unread /\ Following /\ DigitReported
  BY DEF StreamInv
<1>2. UNCHANGED <<scene, caller, txPT, session, rx, got, heard, pressed>>
  BY Zenon DEF Audio, AudioLocks, AudioWrites, AudioPaced,
     ClockDisable, ClockEnable, ResetTimestamp, receiver
<1>3. w' \in PacketWriter /\ w'.ts >= w.ts /\ w'.evTs = w.evTs
  <2>1. w \in PacketWriter /\ w.ts \in Nat
    BY <1>1 DEF StreamTypes, PacketWriter
  <2>2. \/ w' = w \/ w' = [w EXCEPT !.ts = @ + 1] \/ w' = [w EXCEPT !.written = TRUE]
        \/ \E pause \in {0, 1} : w' = [w EXCEPT !.ts = @ + pause, !.init = w.ts + pause]
    BY Zenon DEF Audio, AudioLocks, AudioWrites, AudioPaced,
       ClockDisable, ClockEnable, ResetTimestamp, Advanced
  <2>3. ASSUME NEW pause \in {0, 1}, w' = [w EXCEPT !.ts = @ + pause, !.init = w.ts + pause]
        PROVE  w' \in PacketWriter /\ w'.ts >= w.ts /\ w'.evTs = w.evTs
    <3> DEFINE t == w.ts + pause
    <3>1. t \in Nat /\ t >= w.ts
      BY <2>1
    <3> HIDE DEF t
    <3>2. w' = [w EXCEPT !.ts = t, !.init = t]
      BY <2>3 DEF t
    <3>3. w' \in PacketWriter /\ w'.ts = t /\ w'.evTs = w.evTs
      BY <2>1, <3>1, <3>2, Zenon DEF PacketWriter
    <3> QED BY <3>1, <3>3
  <2>4. ASSUME w' = [w EXCEPT !.ts = @ + 1]
        PROVE  w' \in PacketWriter /\ w'.ts >= w.ts /\ w'.evTs = w.evTs
    <3> DEFINE t == w.ts + 1
    <3>1. t \in Nat /\ t >= w.ts
      BY <2>1
    <3> HIDE DEF t
    <3>2. w' = [w EXCEPT !.ts = t]
      BY <2>4 DEF t
    <3>3. w' \in PacketWriter /\ w'.ts = t /\ w'.evTs = w.evTs
      BY <2>1, <3>1, <3>2, Zenon DEF PacketWriter
    <3> QED BY <3>1, <3>3
  <2>5. CASE w' = w \/ w' = [w EXCEPT !.written = TRUE]
    <3>1. w' \in PacketWriter /\ w'.ts = w.ts /\ w'.evTs = w.evTs
      BY <2>1, <2>5, Zenon DEF PacketWriter
    <3> QED BY <2>1, <3>1
  <2> QED BY <2>2, <2>3, <2>4, <2>5
<1>4. mu' \in BOOLEAN /\ Held'
  <2>1. CASE AudioLocks
    BY <1>1, <1>2, <2>1, Zenon DEF StreamTypes, Held, Writing, AudioLocks
  <2>2. CASE AudioPaced
    <3>1. CASE scene.direct
      BY <1>1, <1>2, <2>2, <3>1 DEF StreamTypes, Held, Writing, AudioPaced
    <3>2. CASE ~scene.direct
      BY <1>1, <1>2, <2>2, <3>2 DEF StreamTypes, Held, Writing, AudioPaced
    <3> QED BY <3>1, <3>2
  <2>3. CASE mu' = mu /\ (audio.pc = "idle" => audio'.pc = "idle")
    BY <1>1, <1>2, <2>3 DEF StreamTypes, Held, Writing
  <2> QED BY <2>1, <2>2, <2>3, Zenon DEF Audio, AudioWrites, ClockDisable,
             ClockEnable, ResetTimestamp
<1>5. /\ wire' \in Seq(Packet)
      /\ \A i \in DOMAIN wire' : wire'[i].id # 0 => i \in DOMAIN wire /\ wire'[i] = wire[i]
  <2>1. CASE wire' = wire
    BY <1>1, <2>1 DEF StreamTypes
  <2>2. CASE AudioWrites /\ wire' # wire
    <3> DEFINE a == Stamped(w.ts = w.init, None, FALSE, None, FALSE)
    <3>1. wire' = Append(wire, a)
      BY <2>2, Zenon DEF AudioWrites, WriteRTP
    <3>2. a \in Packet /\ a.id = 0
      BY <1>1 DEF StreamTypes, PacketWriter, Packet, Stamped, None
    <3> HIDE DEF a
    <3> QED BY <1>1, <3>1, <3>2, AppendFacts DEF StreamTypes
  <2> QED BY <2>1, <2>2, Zenon DEF Audio, AudioLocks, AudioPaced,
             ClockDisable, ClockEnable, ResetTimestamp
<1>6. StreamTypes'
  BY <1>1, <1>2, <1>3, <1>4, <1>5 DEF StreamTypes
<1>7. Stamps'
  BY <1>1, <1>2, <1>3, <1>5 DEF Stamps, StreamTypes, PacketWriter
<1>8. w \in PacketWriter /\ w.evTs <= w.ts /\ rx \in Reader /\ rx.ts <= w.evTs
  BY <1>1 DEF StreamTypes, Stamps
<1>9. ASSUME NEW c \in Callers
      PROVE  /\ \A p \in Packet : p.ts <= w.evTs /\ Before(p, Coming(caller[c], w, txPT)) =>
                   Before(p, Coming(caller[c], w', txPT))
             /\ Ahead(Coming(caller[c], w, txPT), rx, got) =>
                   Ahead(Coming(caller[c], w', txPT), rx, got)
  <2>1. caller[c] \in Writer /\ w.ts <= w'.ts
    BY <1>1, <1>3, <1>8 DEF StreamTypes, PacketWriter
  <2> QED BY <1>3, <1>8, <2>1, ComingMoves
<1>10. Ordered'
  <2>1. ASSUME NEW i \in DOMAIN wire', NEW c \in Callers, wire'[i].id # 0, Writing(c)
        PROVE  Before(wire'[i], Coming(caller[c], w', txPT))
    <3>1. /\ wire'[i] \in Packet /\ wire'[i].ts <= w.evTs
          /\ Before(wire'[i], Coming(caller[c], w, txPT))
      BY <1>1, <1>5, <2>1 DEF StreamTypes, Stamps, Ordered
    <3> QED BY <1>9, <3>1
  <2>2. \A i, j \in DOMAIN wire' :
           i < j /\ wire'[i].id # 0 /\ wire'[j].id # 0 => Before(wire'[i], wire'[j])
    BY <1>1, <1>5 DEF Ordered
  <2> QED BY <1>2, <2>1, <2>2 DEF Ordered, Writing
<1>11. Unread'
  <2>1. \A i \in DOMAIN wire' : wire'[i].id # 0 => Ahead(wire'[i], rx, got)
    BY <1>1, <1>5 DEF Unread
  <2>2. \A c \in Callers : Writing(c) => Ahead(Coming(caller[c], w', txPT), rx, got)
    BY <1>1, <1>9 DEF Unread
  <2> QED BY <1>2, <2>1, <2>2 DEF Unread, Writing
<1>12. Following' /\ DigitReported'
  BY <1>1, <1>2 DEF Following, DigitReported
<1> QED BY <1>4, <1>6, <1>7, <1>10, <1>11, <1>12 DEF StreamInv

\* Steps that write nothing: a goroutine looks up the session and takes its payload
\* type, an end installs a session, a Read begins.
LEMMA FollowInv ==
  ASSUME StreamInv,
         \/ \E c \in Callers : DtmfLooks(c) \/ DtmfFollows(c)
         \/ \E e \in {"tx", "rx"} : MediaUpdate(e)
         \/ ReadBegins
         \/ UNCHANGED vars
  PROVE  StreamInv'
<1>1. StreamTypes /\ Held /\ Stamps /\ Ordered /\ Unread /\ Following /\ DigitReported
  BY DEF StreamInv
<1>2. UNCHANGED <<scene, mu, w, audio, wire, got, heard, pressed>>
  BY Zenon DEF DtmfLooks, DtmfFollows, MediaUpdate, ReadBegins,
     sender,
     receiver, vars
<1>3. /\ caller' \in [Callers -> Writer]
      /\ \A c \in Callers :
            /\ caller'[c].pc = "event" <=> Writing(c)
            /\ Writing(c) => caller'[c] = caller[c]
            /\ caller'[c].fresh = caller[c].fresh
  <2>1. CASE caller' = caller
    BY <1>1, <2>1 DEF StreamTypes, Writing
  <2>2. ASSUME NEW c \in Callers, DtmfLooks(c) \/ DtmfFollows(c) PROVE <1>3
    <3>1. PICK y : /\ caller' = [caller EXCEPT ![c] = y] /\ ~Writing(c) /\ y.pc # "event"
                   /\ y \in Writer /\ y.fresh = caller[c].fresh
      <4>1. caller[c] \in Writer /\ session.tx \in Nat
        BY <1>1 DEF StreamTypes
      <4>2. CASE DtmfLooks(c)
        <5> DEFINE y == [caller[c] EXCEPT !.pc = "follow", !.saw = session.tx]
        <5>1. y \in Writer /\ y.fresh = caller[c].fresh /\ y.pc = "follow"
          BY <4>1, Zenon DEF Writer
        <5>2. caller' = [caller EXCEPT ![c] = y] /\ ~Writing(c)
          BY <1>1, <4>2, Zenon DEF DtmfLooks, Writing, StreamTypes
        <5> HIDE DEF y
        <5> QED BY <5>1, <5>2, Zenon
      <4>3. CASE DtmfFollows(c)
        <5> DEFINE y == [caller[c] EXCEPT !.pc = "lock"]
        <5>1. y \in Writer /\ y.fresh = caller[c].fresh /\ y.pc = "lock"
          BY <4>1, Zenon DEF Writer
        <5>2. caller' = [caller EXCEPT ![c] = y] /\ ~Writing(c)
          BY <1>1, <4>3 DEF DtmfFollows, Writing, StreamTypes
        <5> HIDE DEF y
        <5> QED BY <5>1, <5>2, Zenon
      <4> QED BY <2>2, <4>2, <4>3
    <3> QED BY <1>1, <3>1 DEF StreamTypes, Writing
  <2> QED BY <2>1, <2>2 DEF MediaUpdate, ReadBegins, sender, vars
<1>4. txPT' \in Nat /\ \A c \in Callers : Writing(c) => txPT' = txPT
  <2>1. CASE txPT' = txPT
    BY <1>1, <2>1 DEF StreamTypes
  <2>2. ASSUME NEW c \in Callers, DtmfFollows(c) PROVE <1>4
    <3>1. caller[c].saw \in Nat
      BY <1>1 DEF StreamTypes, Writer
    <3> QED BY <1>1, <2>2, <3>1 DEF DtmfFollows, Held
  <2> QED BY <2>1, <2>2, Zenon DEF DtmfLooks, MediaUpdate, ReadBegins,
             sender,
             vars
<1>5. session' \in [{"tx", "rx"} -> Nat]
  <2>1. CASE session' = session
    BY <1>1, <2>1 DEF StreamTypes
  <2>2. ASSUME NEW e \in {"tx", "rx"}, MediaUpdate(e) PROVE <1>5
    BY <1>1, <2>2 DEF StreamTypes, MediaUpdate
  <2> QED BY <2>1, <2>2, Zenon DEF DtmfLooks, DtmfFollows, ReadBegins,
             vars
<1>6. /\ rx' \in Reader /\ rx'.ts = rx.ts /\ rx'.last = rx.last
      /\ rx'.began # 0 => rx'.pt = rx'.began
  <2>1. rx \in Reader /\ session.rx \in Nat
    BY <1>1 DEF StreamTypes
  <2>2. CASE rx' = rx
    BY <1>1, <2>1, <2>2 DEF Following
  <2>3. CASE rx' = [rx EXCEPT !.pt = session.rx, !.began = session.rx]
    BY <2>1, <2>3, Zenon DEF Reader
  <2> QED BY <2>2, <2>3, Zenon DEF DtmfLooks, DtmfFollows, MediaUpdate,
             ReadBegins, followMedia, receiver, vars
<1>7. StreamTypes'
  BY <1>1, <1>2, <1>3, <1>4, <1>5, <1>6 DEF StreamTypes
<1>8. Held' /\ Stamps'
  BY <1>1, <1>2, <1>3, <1>6 DEF Held, Stamps, Writing
<1>9. \A c \in Callers : caller'[c].pc = "event" =>
         Writing(c) /\ Coming(caller'[c], w', txPT') = Coming(caller[c], w, txPT)
  BY <1>2, <1>3, <1>4
<1>10. Ordered'
  BY <1>1, <1>2, <1>9, Zenon DEF Ordered, Writing
<1>11. Unread'
  <2>1. \A p : Ahead(p, rx, got) => Ahead(p, rx', got)
    BY <1>6 DEF Ahead
  <2> QED BY <1>1, <1>2, <1>9, <2>1, Zenon DEF Unread, Writing
<1>12. Following' /\ DigitReported'
  BY <1>1, <1>2, <1>6, Zenon DEF Following, DigitReported
<1> QED BY <1>7, <1>8, <1>10, <1>11, <1>12 DEF StreamInv

\* A goroutine gets the lock for its digit, which comes after all others.
LEMMA LocksInv ==
  ASSUME StreamInv, NEW c \in Callers, DtmfLocks(c)
  PROVE  StreamInv'
<1> DEFINE n == Len(pressed)
           y == [caller[c] EXCEPT !.pc = "event", !.ev = 1, !.id = n + 1]
<1>1. StreamTypes /\ Held /\ Stamps /\ Ordered /\ Unread /\ Following /\ DigitReported
  BY DEF StreamInv
<1>2. /\ ~mu /\ mu' /\ caller[c].pc = "lock"
      /\ UNCHANGED <<scene, w, audio, txPT, session, wire, losses, rx, got, heard>>
  BY DEF DtmfLocks, Holds, receiver
<1>3. PICK d \in Digits : pressed' = Append(pressed, d)
  BY DEF DtmfLocks, NewDigits
<1>4. n \in Nat /\ n' = n + 1 /\ pressed' \in Seq(Digits)
  BY <1>1, <1>3 DEF StreamTypes
<1>5. \A d0 \in Callers : ~Writing(d0)
  BY <1>1, <1>2 DEF Held
<1>6. n + 1 \in Nat /\ caller[c] \in Writer
  BY <1>1, <1>4 DEF StreamTypes
<1>7. /\ y \in Writer /\ y.pc = "event" /\ y.ev = 1 /\ y.id = n + 1 /\ ~y.fresh
      /\ caller' = [caller EXCEPT ![c] = y]
  <2>1. y \in Writer /\ y.pc = "event" /\ y.ev = 1 /\ y.id = n + 1 /\ y.fresh = caller[c].fresh
    BY <1>6, Zenon DEF Writer
  <2>2. caller' = [caller EXCEPT ![c] = y]
    BY <1>1, Zenon DEF DtmfLocks, StreamTypes
  <2>3. ~caller[c].fresh
    BY <1>1, <1>5 DEF Held
  <2> HIDE DEF y
  <2> QED BY <2>1, <2>2, <2>3
<1> HIDE DEF y, n
<1>8. /\ caller' \in [Callers -> Writer] /\ caller'[c] = y
      /\ \A e \in Callers : e # c => caller'[e] = caller[e] /\ caller'[e].pc # "event"
  BY <1>1, <1>5, <1>7 DEF StreamTypes, Writing
<1>9. got \subseteq (1 .. n) \X Parts
  BY <1>1 DEF StreamTypes, n
<1>10. StreamTypes'
  <2>1. got' \subseteq (1 .. n') \X Parts
    <3>1. \A i \in 1 .. n : i \in 1 .. n'
      BY <1>4
    <3> QED BY <1>2, <1>9, <3>1
  <2> QED BY <1>1, <1>2, <1>4, <1>8, <2>1 DEF StreamTypes, n
<1>11. Held'
  <2>1. audio.pc # "idle" => scene.direct
    BY <1>1, <1>2, Zenon DEF Held
  <2>2. \A e \in Callers : e # c => ~caller'[e].fresh
    BY <1>1, <1>5, <1>8 DEF Held
  <2> QED BY <1>2, <1>4, <1>7, <1>8, <2>1, <2>2 DEF Held, Writing, n
<1>12. Stamps'
  <2>1. rx.last \in Nat /\ rx.last <= n
    BY <1>1 DEF Stamps, StreamTypes, Reader, n
  <2>2. ASSUME NEW i \in DOMAIN wire, wire[i].id # 0
        PROVE  wire[i].id <= n + 1 /\ wire[i].ts <= w.evTs
    <3>1. wire[i].id <= n /\ wire[i].ts <= w.evTs
      BY <1>1, <2>2 DEF Stamps, n
    <3>2. wire[i] \in Packet
      BY <1>1 DEF StreamTypes
    <3> QED BY <1>4, <3>1, <3>2 DEF Packet
  <2>3. rx.last <= n + 1
    BY <1>4, <2>1
  <2> QED BY <1>1, <1>2, <1>4, <2>2, <2>3, Zenon DEF Stamps, n
<1> DEFINE a == Coming(y, w, txPT)
<1>13. a.id = n + 1 /\ a.ts = w.ts /\ (a.fresh => w.evTs < w.ts)
  <2>1. w.evTs \in Nat /\ w.ts \in Nat /\ w.evTs <= w.ts
    BY <1>1 DEF Stamps, StreamTypes, PacketWriter
  <2>2. a.id = n + 1 /\ a.ts = w.ts /\ (a.fresh => w.ts # w.evTs)
    BY <1>7, Zenon DEF Coming
  <2> QED BY <2>1, <2>2
<1>14. Ordered'
  <2>1. ASSUME NEW i \in DOMAIN wire, wire[i].id # 0 PROVE Before(wire[i], a)
    <3>1. wire[i].id <= n /\ wire[i].ts <= w.evTs /\ w.evTs <= w.ts
      BY <1>1, <2>1 DEF Stamps, n
    <3>2. wire[i] \in Packet /\ w \in PacketWriter
      BY <1>1 DEF StreamTypes
    <3>3. wire[i].id \in Nat /\ wire[i].ts \in Nat /\ w.evTs \in Nat /\ w.ts \in Nat
      BY <3>2 DEF Packet, PacketWriter
    <3> HIDE DEF a
    <3> QED BY SMTT(30), <1>4, <1>13, <3>1, <3>3 DEF Before
  <2> QED BY <1>1, <1>2, <1>8, <2>1, Zenon DEF Ordered, Writing
<1>15. Unread'
  <2>1. Ahead(a, rx, got)
    <3>1. rx.last <= n /\ rx.ts <= w.evTs /\ w.evTs <= w.ts
      BY <1>1 DEF Stamps, n
    <3>2. rx.last \in Nat /\ rx.ts \in Nat /\ w.evTs \in Nat /\ w.ts \in Nat
      BY <1>1 DEF StreamTypes, Reader, PacketWriter
    <3>3. \A i, k : <<i, k>> \in got => i \in 1 .. n
      BY <1>9
    <3> HIDE DEF a
    <3>4. rx.last <= a.id /\ rx.ts <= a.ts /\ (a.fresh => rx.ts < a.ts)
      BY <1>4, <1>13, <3>1, <3>2
    <3>5. \A i \in Nat : <<i, "end">> \in got \/ <<i, "begin">> \in got => i < a.id /\ i <= a.id
      BY <1>4, <1>13, <3>3
    <3> QED BY <3>4, <3>5, Zenon DEF Ahead
  <2> QED BY <1>1, <1>2, <1>8, <2>1, Zenon DEF Unread, Writing
<1>16. Following'
  BY <1>1, <1>2 DEF Following
<1>17. DigitReported'
  <2>1. ASSUME NEW i \in 1 .. n', {<<i, "begin">>, <<i, "end">>} \subseteq got
        PROVE  <<i, "heard">> \in got
    <3>1. i \in 1 .. n
      BY <1>9, <2>1
    <3> QED BY <1>1, <2>1, <3>1 DEF DigitReported, n
  <2> QED BY <1>2, <2>1 DEF DigitReported, n
<1> QED BY <1>10, <1>11, <1>12, <1>14, <1>15, <1>16, <1>17 DEF StreamInv

\* An event is written, and arrives or is lost, or its write fails, which ends the digit.
LEMMA WritesInv ==
  ASSUME StreamInv, NEW c \in Callers, DtmfWrites(c) \/ DtmfFails(c)
  PROVE  StreamInv'
<1> DEFINE x == caller[c]
           a == Coming(x, w, txPT)
           fr == x.fresh \/ w.ts # w.evTs
           y == [x EXCEPT !.ev = @ + 1, !.fresh = fr]
           n == Len(pressed)
<1>1. StreamTypes /\ Held /\ Stamps /\ Ordered /\ Unread /\ Following /\ DigitReported
  BY DEF StreamInv
<1>2. /\ Writing(c) /\ UNCHANGED <<scene, audio, txPT, session, rx, got, heard, pressed>>
  BY Zenon DEF DtmfWrites, DtmfFails, Writing, receiver
<1>3. x \in Writer /\ w \in PacketWriter /\ txPT \in Nat /\ n \in Nat
  BY <1>1 DEF StreamTypes
<1>4. /\ x.pc = "event" /\ mu /\ x.id = n /\ n > 0 /\ x.ev > 0
      /\ \A d \in Callers : Writing(d) => d = c
  BY <1>1, <1>2 DEF Held, Writing
<1>5. w' \in PacketWriter /\ w'.ts = w.ts /\ w'.evTs = w.ts
  <2>1. w.ts \in Nat /\ w.ts + 0 = w.ts
    BY <1>3 DEF PacketWriter
  <2>2. w' = [[w EXCEPT !.ts = @ + 0] EXCEPT !.evTs = w.ts]
    BY Zenon DEF DtmfWrites, DtmfFails, Advanced
  <2>3. w' = [w EXCEPT !.evTs = w.ts]
    BY <1>3, <2>1, <2>2, Zenon DEF PacketWriter
  <2> QED BY <1>3, <2>1, <2>3, Zenon DEF PacketWriter
<1>6. wire' = wire \/ wire' = Append(wire, a)
  <2>1. Stamped(x.ev = 1, txPT, x.ev > StartEvents, x.id, Fresh(c)) = a
    BY Zenon DEF Stamped, Fresh, Coming
  <2> HIDE DEF a
  <2> QED BY <2>1, Zenon DEF DtmfWrites, DtmfFails, WriteRTP
<1>7. /\ y \in Writer /\ y.pc = "event" /\ y.ev = x.ev + 1 /\ y.id = x.id /\ y.fresh = fr
      /\ NotWriting \in Writer /\ NotWriting.pc = "idle"
      /\ ~NotWriting.fresh
  <2>1. x.ev + 1 \in Nat /\ fr \in BOOLEAN
    BY <1>3 DEF Writer
  <2>2. NotWriting \in Writer /\ NotWriting.pc = "idle" /\ ~NotWriting.fresh
    BY DEF NotWriting, None, Writer
  <2> HIDE DEF fr, x
  <2>3. y \in Writer /\ y.pc = x.pc /\ y.ev = x.ev + 1 /\ y.id = x.id /\ y.fresh = fr
    BY <1>3, <2>1, Zenon DEF Writer
  <2> QED BY <1>4, <2>2, <2>3
<1>8. \/ caller' = [caller EXCEPT ![c] = y] /\ mu' = mu
      \/ caller' = [caller EXCEPT ![c] = NotWriting] /\ mu' = FALSE
  <2>1. Fresh(c) = fr
    BY DEF Fresh
  <2>2. CASE DtmfFails(c)
    BY <2>2 DEF DtmfFails
  <2>3. CASE DtmfWrites(c)
    <3> DEFINE more == x.ev < Events
    <3>1. /\ caller' = [caller EXCEPT ![c] =
                IF more THEN [x EXCEPT !.ev = x.ev + 1, !.fresh = Fresh(c)]
                ELSE NotWriting]
          /\ mu' = IF more THEN mu ELSE FALSE
      BY <2>3, Zenon DEF DtmfWrites
    <3> HIDE DEF more, fr
    <3>2. caller' = [caller EXCEPT ![c] = IF more THEN y ELSE NotWriting]
      BY <2>1, <3>1, Zenon
    <3> HIDE DEF y
    <3> QED BY <3>1, <3>2, Zenon
  <2> QED BY <2>2, <2>3, Zenon
<1>9. /\ Before(a, Coming(y, w', txPT))
      /\ \A p : Before(p, a) => Before(p, Coming(y, w', txPT))
      /\ \A r, g : Ahead(a, r, g) => Ahead(Coming(y, w', txPT), r, g)
  <2>1. y.fresh = (x.fresh \/ w.ts # w.evTs)
    BY <1>7
  <2> HIDE DEF x, y, fr
  <2> QED BY <1>3, <1>5, <1>7, <2>1, ComingNext, Zenon
<1>10. a \in Packet /\ a.id = n /\ a.ts = w.ts
  <2>1. a \in Packet
    BY <1>3, ComingType
  <2> QED BY <1>4, <2>1, Zenon DEF Coming
<1> HIDE DEF x, y, fr, a, n
<1>11. /\ caller' \in [Callers -> Writer]
       /\ \A d \in Callers : d # c =>
             caller'[d] = caller[d] /\ caller'[d].pc # "event" /\ ~caller'[d].fresh
       /\ \/ caller'[c] = y /\ mu' = mu
          \/ caller'[c] = NotWriting /\ mu' = FALSE
  <2>1. \A d \in Callers : d # c => ~Writing(d) /\ ~caller[d].fresh
    BY <1>1, <1>4 DEF Held
  <2> QED BY <1>1, <1>7, <1>8, <2>1, Zenon DEF StreamTypes, Writing
<1>12. mu' \in BOOLEAN /\ Held'
  <2>1. audio.pc # "idle" => scene.direct
    BY <1>1, <1>2 DEF Held
  <2>2. CASE caller'[c] = y /\ mu' = mu
    <3>1. y.ev > 0 /\ y.id = n
      BY <1>3, <1>4, <1>7 DEF Writer
    <3> QED BY <1>2, <1>4, <1>7, <1>11, <2>1, <2>2, <3>1 DEF Held, Writing, n
  <2>3. CASE caller'[c] = NotWriting /\ mu' = FALSE
    BY <1>2, <1>7, <1>11, <2>1, <2>3, Zenon DEF Held, Writing
  <2> QED BY <1>11, <2>2, <2>3, Zenon
<1>13. /\ wire' \in Seq(Packet)
       /\ \A i \in DOMAIN wire' :
             \/ i \in DOMAIN wire /\ wire'[i] = wire[i]
             \/ wire'[i] = a /\ \A j \in DOMAIN wire' : i < j => FALSE
  <2>1. CASE wire' = wire
    BY <1>1, <2>1 DEF StreamTypes
  <2>2. CASE wire' = Append(wire, a)
    <3>1. /\ wire' \in Seq(Packet) /\ Len(wire) \in Nat
          /\ \A i \in DOMAIN wire' :
                \/ i \in DOMAIN wire /\ wire'[i] = wire[i]
                \/ i = Len(wire) + 1 /\ wire'[i] = a
      BY <1>1, <1>10, <2>2, AppendFacts DEF StreamTypes
    <3>2. \A j \in DOMAIN wire' : ~(Len(wire) + 1 < j)
      BY <1>1, <1>10, <2>2 DEF StreamTypes
    <3> QED BY <3>1, <3>2
  <2> QED BY <1>6, <2>1, <2>2
<1>14. StreamTypes'
  BY <1>1, <1>2, <1>5, <1>11, <1>12, <1>13 DEF StreamTypes
<1>15. Stamps'
  <2>1. rx.ts \in Nat /\ w.evTs \in Nat /\ w.ts \in Nat /\ rx.ts <= w.evTs /\ w.evTs <= w.ts
    BY <1>1 DEF StreamTypes, Stamps, PacketWriter, Reader
  <2>2. ASSUME NEW i \in DOMAIN wire', wire'[i].id # 0
        PROVE  wire'[i].id <= n /\ wire'[i].ts <= w.ts
    <3>1. CASE i \in DOMAIN wire /\ wire'[i] = wire[i]
      <4>1. wire[i].id <= n /\ wire[i].ts <= w.evTs
        BY <1>1, <2>2, <3>1 DEF Stamps, n
      <4>2. wire[i] \in Packet
        BY <1>1, <3>1 DEF StreamTypes
      <4> QED BY <2>1, <3>1, <4>1, <4>2 DEF Packet
    <3>2. CASE wire'[i] = a
      BY <1>3, <1>10, <2>1, <3>2
    <3> QED BY <1>13, <3>1, <3>2
  <2> QED BY <1>1, <1>2, <1>5, <2>1, <2>2 DEF Stamps, n
<1>16. \A i \in DOMAIN wire : wire[i].id # 0 => Before(wire[i], a)
  BY <1>1, <1>2, Zenon DEF Ordered, a, x
<1>17. Ahead(a, rx, got)
  BY <1>1, <1>2, Zenon DEF Unread, a, x
<1>18. Ordered'
  <2>1. \A i, j \in DOMAIN wire' :
           i < j /\ wire'[i].id # 0 /\ wire'[j].id # 0 => Before(wire'[i], wire'[j])
    BY <1>1, <1>13, <1>16, Zenon DEF Ordered
  <2>2. ASSUME NEW i \in DOMAIN wire', NEW d \in Callers, wire'[i].id # 0,
               caller'[d].pc = "event"
        PROVE  Before(wire'[i], Coming(caller'[d], w', txPT'))
    <3>1. d = c /\ caller'[d] = y /\ txPT' = txPT
      BY <1>2, <1>7, <1>11, <2>2
    <3>2. Before(wire'[i], a) \/ wire'[i] = a
      BY <1>13, <1>16, <2>2
    <3> QED BY <1>9, <3>1, <3>2
  <2> QED BY <2>1, <2>2, Zenon DEF Ordered, Writing
<1>19. Unread'
  <2>1. \A i \in DOMAIN wire' : wire'[i].id # 0 => Ahead(wire'[i], rx', got')
    BY <1>1, <1>2, <1>13, <1>17 DEF Unread
  <2>2. ASSUME NEW d \in Callers, caller'[d].pc = "event"
        PROVE  Ahead(Coming(caller'[d], w', txPT'), rx', got')
    <3>1. d = c /\ caller'[d] = y /\ txPT' = txPT
      BY <1>2, <1>7, <1>11, <2>2
    <3> QED BY <1>2, <1>9, <1>17, <3>1
  <2> QED BY <2>1, <2>2, ZenonT(60) DEF Unread, Writing
<1>20. Following' /\ DigitReported'
  BY <1>1, <1>2 DEF Following, DigitReported
<1> QED BY <1>12, <1>14, <1>15, <1>18, <1>19, <1>20 DEF StreamInv

\* Nothing is written, read or pressed.
LEMMA StreamInitInv == Init => StreamInv
<1> SUFFICES ASSUME Init PROVE StreamInv
  OBVIOUS
<1>1. /\ pressed = <<>> /\ wire = <<>> /\ got = {} /\ mu = FALSE /\ txPT = 1
      /\ w = [ts |-> 0, init |-> 0, written |-> FALSE, evTs |-> 0]
      /\ caller = [c \in Callers |-> NotWriting]
      /\ session = [tx |-> 1, rx |-> 1] /\ audio.pc = "idle"
      /\ rx = [pt |-> 1, began |-> 1, ts |-> 0, last |-> 0]
  BY DEF Init, None
<1>2. pressed \in Seq(Digits) /\ wire \in Seq(Packet) /\ Len(pressed) = 0 /\ DOMAIN wire = {}
  BY <1>1
<1>3. /\ NotWriting \in Writer /\ NotWriting.pc = "idle"
      /\ ~NotWriting.fresh
  BY DEF NotWriting, None, Writer
<1>4. \A c \in Callers : ~Writing(c) /\ ~caller[c].fresh
  BY <1>1, <1>3 DEF Writing
<1>5. StreamTypes
  <2>1. w \in PacketWriter /\ rx \in Reader /\ session \in [{"tx", "rx"} -> Nat]
    BY <1>1 DEF PacketWriter, Reader
  <2>2. caller \in [Callers -> Writer]
    BY <1>1, <1>3
  <2> QED BY <1>1, <1>2, <2>1, <2>2, Zenon DEF StreamTypes
<1>6. Held /\ Stamps /\ Ordered /\ Unread
  BY <1>1, <1>2, <1>4 DEF Held, Stamps, Ordered, Unread
<1>7. Following /\ DigitReported
  BY <1>1, <1>2 DEF Following, DigitReported
<1> QED BY <1>5, <1>6, <1>7 DEF StreamInv

\* Every step keeps the invariant.
LEMMA StreamStepInv == StreamInv /\ [Next]_vars => StreamInv'
<1> SUFFICES ASSUME StreamInv, [Next]_vars PROVE StreamInv'
  OBVIOUS
<1>1. CASE Next
  BY <1>1, AudioInv, FollowInv, LocksInv, WritesInv, ReadReturnsInv DEF Next, Dtmf
<1>2. CASE UNCHANGED vars
  BY <1>2, FollowInv
<1> QED BY <1>1, <1>2

\* The inductive invariant of the stream.
THEOREM StreamInvariant == Spec => []StreamInv
<1> QED BY StreamInitInv, StreamStepInv, PTL DEF Spec

\* However many digits, callers, audio packets, losses and renegotiations there are, a
\* digit of which enough has been read is reported (WriteDTMF, RTPDtmfReader,
\* followMedia).
THEOREM DigitAlwaysReported == Spec => []DigitReported
<1>1. StreamInv => DigitReported
  BY DEF StreamInv
<1> QED BY <1>1, StreamInvariant, PTL

-----------------------------------------------------------------------------
(* RTPStream implements DigitChannel *)

\* What is left of a sequence after k elements, and then after m.
LEMMA SuffixFacts ==
  ASSUME NEW S, NEW s \in Seq(S), NEW k \in Nat, NEW m \in Nat, k < m, m <= Len(s)
  PROVE  LET t == SubSeq(s, k + 1, Len(s))
             i == m - k
         IN  /\ i \in 1 .. Len(t) /\ t[i] = s[m]
             /\ SubSeq(t, i + 1, Len(t)) = SubSeq(s, m + 1, Len(s))
<1> DEFINE t == SubSeq(s, k + 1, Len(s))
           i == m - k
           l == SubSeq(t, i + 1, Len(t))
           r == SubSeq(s, m + 1, Len(s))
<1>1. t \in Seq(S) /\ Len(t) = Len(s) - k
  OBVIOUS
<1>2. ASSUME NEW j \in 1 .. Len(s) - k PROVE t[j] = s[k + j]
  OBVIOUS
<1>3. r \in Seq(S) /\ Len(r) = Len(s) - m
  OBVIOUS
<1>4. ASSUME NEW j \in 1 .. Len(s) - m PROVE r[j] = s[m + j]
  OBVIOUS
<1> HIDE DEF t, r
<1>5. i \in 1 .. Len(t) /\ t[i] = s[m]
  <2>1. i \in 1 .. Len(s) - k /\ k + i = m
    OBVIOUS
  <2> QED BY <1>1, <1>2, <2>1
<1>6. l \in Seq(S) /\ Len(l) = Len(s) - m
  BY <1>1
<1>7. ASSUME NEW j \in 1 .. Len(s) - m PROVE l[j] = r[j]
  <2>1. l[j] = t[i + j]
    BY <1>1
  <2>2. i + j \in 1 .. Len(s) - k /\ k + (i + j) = m + j
    OBVIOUS
  <2>3. t[i + j] = s[m + j]
    BY <1>2, <2>2
  <2> QED BY <1>4, <2>1, <2>3, ZenonT(60)
<1>8. Len(s) - m \in Nat
  OBVIOUS
<1> HIDE DEF i, l
<1>9. l = r
  BY <1>3, <1>6, <1>7, <1>8, SMTT(30)
<1> QED BY <1>5, <1>9, Zenon DEF t, i, l, r

\* An element at the end is at the end of what is left.
LEMMA SuffixAppend ==
  ASSUME NEW S, NEW s \in Seq(S), NEW k \in Nat, k <= Len(s), NEW d \in S
  PROVE  SubSeq(Append(s, d), k + 1, Len(s) + 1) = Append(SubSeq(s, k + 1, Len(s)), d)
<1> DEFINE l == SubSeq(Append(s, d), k + 1, Len(s) + 1)
           r == Append(SubSeq(s, k + 1, Len(s)), d)
<1>1. SubSeq(s, k + 1, Len(s)) \in Seq(S) /\ Len(SubSeq(s, k + 1, Len(s))) = Len(s) - k
  OBVIOUS
<1>2. l \in Seq(S) /\ Len(l) = (Len(s) + 1) - k
  OBVIOUS
<1>3. r \in Seq(S) /\ Len(r) = (Len(s) - k) + 1
  BY <1>1
<1>4. ASSUME NEW i \in 1 .. (Len(s) + 1) - k PROVE l[i] = r[i]
  <2>1. l[i] = Append(s, d)[k + i]
    OBVIOUS
  <2>2. CASE i = (Len(s) + 1) - k
    <3>1. k + i = Len(s) + 1 /\ i = (Len(s) - k) + 1
      BY <2>2
    <3>2. Append(s, d)[Len(s) + 1] = d
      OBVIOUS
    <3>3. r[(Len(s) - k) + 1] = d
      BY <1>1
    <3> HIDE DEF l, r
    <3> QED BY <2>1, <3>1, <3>2, <3>3
  <2>3. CASE i # (Len(s) + 1) - k
    <3>1. r[i] = SubSeq(s, k + 1, Len(s))[i]
      BY <1>1, <2>3
    <3> QED BY <2>1, <2>3, <3>1
  <2> QED BY <2>2, <2>3
<1>5. (Len(s) + 1) - k \in Nat /\ (Len(s) - k) + 1 = (Len(s) + 1) - k
  OBVIOUS
<1> HIDE DEF l, r
<1>6. l = r
  BY <1>2, <1>3, <1>4, <1>5, SMTT(30)
<1> QED BY <1>6, Zenon DEF l, r

\* k is the last of the n digits pressed that g says is reported, 0 if there is none.
Latest(k, n, g) ==
    /\ k \in 0 .. n
    /\ k = 0 \/ <<k, "heard">> \in g
    /\ \A j \in k + 1 .. n : <<j, "heard">> \notin g

\* There is only one such digit.
LEMMA LatestUnique ==
  ASSUME NEW n \in Nat, NEW g, NEW k, Latest(k, n, g), NEW m, Latest(m, n, g)
  PROVE  k = m
BY DEF Latest

\* So that it is the one LastHeard chooses.
LEMMA LastHeardIs ==
  ASSUME Len(pressed) \in Nat, NEW k, Latest(k, Len(pressed), got)
  PROVE  LastHeard = k
<1>1. LastHeard = CHOOSE i \in 0 .. Len(pressed) : Latest(i, Len(pressed), got)
  BY Zenon DEF LastHeard, Latest
<1>2. Latest(LastHeard, Len(pressed), got)
  BY <1>1, Zenon DEF Latest
<1> QED BY <1>2, LatestUnique

\* After a step too.
LEMMA LastHeardWillBe ==
  ASSUME Len(pressed)' \in Nat, NEW k, Latest(k, Len(pressed)', got')
  PROVE  LastHeard' = k
<1>1. LastHeard' = CHOOSE i \in 0 .. Len(pressed)' : Latest(i, Len(pressed)', got')
  BY Zenon DEF LastHeard, Latest
<1>2. Latest(LastHeard', Len(pressed)', got')
  BY <1>1, SMTT(30) DEF Latest
<1> QED BY <1>2, LatestUnique

HeardLatest == Latest(LastHeard, Len(pressed), got)

\* A step that leaves the digits alone, and what is said of their reports, is no step of
\* the channel.
LEMMA ChannelStutters ==
  ASSUME StreamTypes, HeardLatest, pressed' = pressed, heard' = heard,
         \A j \in Nat : <<j, "heard">> \in got' <=> <<j, "heard">> \in got
  PROVE  HeardLatest' /\ UNCHANGED Channel!chan
<1> DEFINE k == LastHeard
           n == Len(pressed)
<1>1. n \in Nat /\ n' = n
  BY DEF StreamTypes
<1>2. Latest(k, n, got')
  BY <1>1 DEF HeardLatest, Latest
<1> HIDE DEF k, n
<1>3. k' = k
  BY <1>1, <1>2, LastHeardWillBe DEF k, n
<1> QED BY <1>1, <1>2, <1>3 DEF HeardLatest, Channel!chan, k, n

\* A digit pressed can be heard.
LEMMA ChannelPresses ==
  ASSUME StreamInv, HeardLatest, NEW c \in Callers, DtmfLocks(c)
  PROVE  HeardLatest' /\ Channel!Press
<1> DEFINE k == LastHeard
           n == Len(pressed)
<1>1. PICK d \in Digits : pressed' = Append(pressed, d)
  BY DEF DtmfLocks, NewDigits
<1>2. got' = got /\ heard' = heard
  BY DEF DtmfLocks, receiver
<1>3. pressed \in Seq(Digits) /\ n \in Nat /\ n' = n + 1 /\ got \subseteq (1 .. n) \X Parts
  BY <1>1 DEF StreamInv, StreamTypes
<1>4. Latest(k, n, got)
  BY DEF HeardLatest
<1> HIDE DEF k, n
<1>5. Latest(k, n', got') /\ k \in Nat /\ k <= n
  BY <1>2, <1>3, <1>4 DEF Latest
<1>6. k' = k
  BY <1>3, <1>5, LastHeardWillBe DEF k, n
<1>7. SubSeq(Append(pressed, d), k + 1, n + 1) = Append(SubSeq(pressed, k + 1, n), d)
  BY <1>3, <1>5, SuffixAppend, Zenon DEF n
<1>8. SubSeq(pressed, k + 1, n)' = Append(SubSeq(pressed, k + 1, n), d)
  BY <1>1, <1>3, <1>6, <1>7, Zenon
<1> QED BY <1>2, <1>3, <1>5, <1>6, <1>8, Zenon DEF HeardLatest, Channel!Press, k, n

\* A digit reported comes after the ones reported before it.
LEMMA ChannelHears ==
  ASSUME StreamInv, HeardLatest, ReadReturns
  PROVE  HeardLatest' /\ (Channel!Hear \/ UNCHANGED Channel!chan)
<1> DEFINE p == wire[1]
           n == Len(pressed)
           k == LastHeard
<1>1. StreamTypes /\ Stamps /\ Unread /\ Following
  BY DEF StreamInv
<1>2. wire # <<>> /\ pressed' = pressed
  BY DEF ReadReturns
<1>3. Head(wire) = p /\ p \in Packet /\ 1 \in DOMAIN wire
  BY <1>1, <1>2, TailFacts DEF StreamTypes
<1>4. n \in Nat /\ p.id \in Nat /\ rx.last \in Nat
  BY <1>1, <1>3, SMTT(30) DEF StreamTypes, Packet, Reader
<1>5. \A j : <<j, "heard">> \notin Pieces(p)
  BY DEF Pieces
<1> HIDE DEF p, n, k
<1>6. CASE ~(p.id # 0 /\ p.pt = rx.pt /\ Reports(p))
  <2>1. heard' = heard /\ (got' = got \/ got' = got \cup Pieces(p))
    BY <1>3, <1>6 DEF ReadReturns, None
  <2>2. \A j \in Nat : <<j, "heard">> \in got' <=> <<j, "heard">> \in got
    BY <1>5, <2>1, Zenon
  <2> QED BY <1>1, <1>2, <2>1, <2>2, ChannelStutters
<1>7. CASE p.id # 0 /\ p.pt = rx.pt /\ Reports(p)
  <2>1. /\ heard' = Append(heard, pressed[p.id])
        /\ got' = got \cup Pieces(p) \cup {<<p.id, "heard">>}
    BY <1>3, <1>7 DEF ReadReturns, None
  <2>2. rx.last # 0 /\ rx.last <= p.id /\ p.id <= n
    BY <1>1, <1>3, <1>7, Zenon DEF Reports, None, Unread, Ahead, Stamps, p, n
  <2>3. \A j \in Nat : <<j, "heard">> \in got => j < rx.last
    BY <1>1, <2>2, Zenon DEF Following
  <2>4. k \in Nat /\ k < p.id
    BY <1>4, <2>2, <2>3 DEF HeardLatest, Latest, k, n
  <2>5. Latest(p.id, n, got')
    BY <1>4, <1>5, <2>1, <2>2, <2>3 DEF Latest
  <2>6. n' = n
    BY <1>2 DEF n
  <2>7. k' = p.id
    BY <1>4, <2>5, <2>6, LastHeardWillBe DEF k, n
  <2>8. HeardLatest'
    BY <2>5, <2>6, <2>7 DEF HeardLatest, k, n
  <2> DEFINE t == SubSeq(pressed, k + 1, n)
             i == p.id - k
  <2>9. pressed \in Seq(Digits)
    BY <1>1 DEF StreamTypes
  <2>10. /\ i \in 1 .. Len(t) /\ t[i] = pressed[p.id]
         /\ SubSeq(t, i + 1, Len(t)) = SubSeq(pressed, p.id + 1, n)
    <3>1. p.id <= Len(pressed)
      BY <2>2 DEF n
    <3> QED BY <1>4, <2>4, <2>9, <3>1, SuffixFacts, ZenonT(60) DEF n
  <2>11. t' = SubSeq(pressed, p.id + 1, n)
    BY <1>2, <2>6, <2>7
  <2> HIDE DEF i, t
  <2>12. \E m \in 1 .. Len(t) : heard' = Append(heard, t[m]) /\ t' = SubSeq(t, m + 1, Len(t))
    BY <2>1, <2>10, <2>11, Zenon
  <2>13. Channel!Hear
    BY <2>12, Zenon DEF Channel!Hear, t, k, n
  <2> QED BY <2>8, <2>13
<1> QED BY <1>6, <1>7

\* A step presses a digit, reports one, or is none of the channel's.
LEMMA ChannelStep ==
  ASSUME StreamInv, HeardLatest, [Next]_vars
  PROVE  /\ HeardLatest'
         /\ [Channel!Press \/ Channel!Hear]_Channel!chan
<1>1. CASE ReadReturns
  BY <1>1, ChannelHears
<1>2. CASE \E c \in Callers : DtmfLocks(c)
  BY <1>2, ChannelPresses
<1>3. CASE ~ReadReturns /\ ~\E c \in Callers : DtmfLocks(c)
  <2>1. UNCHANGED <<pressed, heard, got>>
    BY <1>3, Zenon DEF Next, Audio, Dtmf, AudioLocks,
       AudioWrites,
       AudioPaced, ClockDisable, ClockEnable, ResetTimestamp,
       DtmfLooks, DtmfFollows, DtmfWrites, DtmfFails,
       MediaUpdate, ReadBegins, receiver, vars
  <2> QED BY <2>1, ChannelStutters DEF StreamInv
<1> QED BY <1>1, <1>2, <1>3

\* Nothing is pressed or heard.
LEMMA ChannelInit == Init => HeardLatest /\ Channel!Init
<1> SUFFICES ASSUME Init PROVE HeardLatest /\ Channel!Init
  OBVIOUS
<1>1. pressed = <<>> /\ heard = <<>> /\ got = {} /\ Len(pressed) = 0
  BY Zenon DEF Init
<1>2. Latest(0, Len(pressed), got)
  BY <1>1 DEF Latest
<1>3. LastHeard = 0
  BY <1>1, <1>2, LastHeardIs
<1>4. SubSeq(pressed, 0 + 1, Len(pressed)) = <<>>
  BY <1>1
<1> QED BY <1>1, <1>2, <1>3, <1>4 DEF HeardLatest, Channel!Init

\* What a reader reports was pressed, once and in order, whatever is lost, however many
\* goroutines press digits beside audio, and whichever end renegotiates: the stream
\* implements the digit channel.
THEOREM DigitsAlwaysKept == Spec => DigitsKept
<1>1. Init => HeardLatest /\ Channel!Init
  BY ChannelInit
<1>2. StreamInv /\ HeardLatest /\ [Next]_vars
         => HeardLatest' /\ [Channel!Press \/ Channel!Hear]_Channel!chan
  BY ChannelStep
<1>3. Spec => Channel!Spec
  BY <1>1, <1>2, StreamInvariant, PTL DEF Spec, Channel!Spec
<1> QED BY <1>3 DEF DigitsKept
=============================================================================
