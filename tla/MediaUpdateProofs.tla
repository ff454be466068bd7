------------------------- MODULE MediaUpdateProofs --------------------------
(***************************************************************************)
(* Theorems about MediaUpdate, for any number of re-INVITEs of either side, *)
(* ACKs and retransmissions: one re-INVITE at a time, one final response   *)
(* each, no 2xx after a BYE, and no socket, agent or port left behind.     *)
(* The steps that change the media or are not a handler's come first:      *)
(* offers applied, new associations, ACKs, our re-INVITEs, Close and BYE.  *)
(* Each keeps the invariant of MediaUpdateInv.                             *)
(***************************************************************************)
EXTENDS MediaUpdateInv

-----------------------------------------------------------------------------
(* The handlers of re-INVITEs, where they change the media.                *)

\* Media that is not closed is not being closed.
LEMMA OpenFacts ==
  ASSUME IInv
  PROVE  /\ med \in Media /\ MediaDown \in BOOLEAN /\ (~med.closed => ~MediaDown)
         /\ Early \in SUBSET Peers /\ Forked \in SUBSET Peers
         /\ SocketsOK(med, Early, Forked, MediaDown)
         /\ med.iceOwner \in {Setup, Nobody} /\ med.released \in Nat
BY DEF IInv, TypeOK, Media, Closing, MediaDown, Early, Forked, Sockets

\* What installing a fork does to the media.
LEMMA InstallFacts ==
  ASSUME IInv, ~MediaDown, NEW m \in Media, SocketsOK(m, Early, Forked, MediaDown),
         m.iceOwner \in {Setup, Nobody},
         NEW f \in Peers \cup Owns, NEW n, n = replaceRTPSessionUnsafe(m, f)
  PROVE  /\ n \in Media /\ n.closed = m.closed
         /\ n.released = m.released /\ n.agent = m.agent /\ n.iceOwner \in {Setup, Nobody}
         /\ m.agent = "open" /\ Setup \in {m.installed, m.iceOwner} => n.iceOwner = Setup
         /\ SocketsOK(n, Early \ {f}, Forked \ {f}, MediaDown)
<1>1. Early \in SUBSET Peers
  BY OpenFacts
<1>2. Forked \in SUBSET Peers
  BY OpenFacts
<1>3. MediaDown \in BOOLEAN
  BY OpenFacts
<1>4. LET d == replaceRTPSessionUnsafe(m, f) IN
      /\ d \in Media
      /\ d.closed = m.closed /\ d.installed = f
      /\ d.released = m.released /\ d.agent = m.agent
      /\ d.iceOwner \in {Setup, Nobody}
      /\ m.agent = "open" /\ Setup \in {m.installed, m.iceOwner} =>
           d.iceOwner = Setup
      /\ SocketsOK(d, Early \ {f}, Forked \ {f}, MediaDown)
  BY <1>1, <1>2, <1>3, ReplaceSockets, Zenon
<1> QED BY <1>4

\* What discarding one does.
LEMMA DiscardFacts ==
  ASSUME IInv, NEW m \in Media, SocketsOK(m, Early, Forked, MediaDown),
         NEW f \in Peers \cup Owns, NEW n, n = discardForkUnsafe(m, f)
  PROVE  /\ n \in Media /\ n.closed = m.closed /\ n.installed = m.installed
         /\ n.iceOwner = m.iceOwner /\ n.released = m.released /\ n.agent = m.agent
         /\ SocketsOK(n, Early, Forked \ {f}, MediaDown)
<1>1. Early \in SUBSET Peers
  BY OpenFacts
<1>2. Forked \in SUBSET Peers
  BY OpenFacts
<1>3. MediaDown \in BOOLEAN
  BY OpenFacts
<1>4. LET d == discardForkUnsafe(m, f) IN
      /\ d \in Media /\ d.closed = m.closed /\ d.installed = m.installed
      /\ d.iceOwner = m.iceOwner /\ d.released = m.released /\ d.agent = m.agent
      /\ SocketsOK(d, Early, Forked \ {f}, MediaDown)
  BY <1>1, <1>2, <1>3, DiscardSockets, SMTT(30)
<1> QED BY <1>4

\* An installed session is replaced only before Close, and the agent's owner kept.
LEMMA ClosingKept ==
  ASSUME IInv, med' \in Media, closer' = closer,
         med'.closed = med.closed, med'.released = med.released, med'.agent = med.agent,
         med'.iceOwner \in {Setup, Nobody},
         \/ med'.installed = med.installed /\ med'.iceOwner = med.iceOwner
         \/ /\ ~med.closed
            /\ med.agent = "open" /\ Setup \in {med.installed, med.iceOwner} =>
                 med'.iceOwner = Setup
  PROVE  Closing' /\ MediaDown' = MediaDown
<1>1. MediaDown' = MediaDown
  BY DEF MediaDown
<1>2. CASE med'.installed = med.installed /\ med'.iceOwner = med.iceOwner
  BY <1>1, <1>2 DEF IInv, Closing
<1>3. CASE /\ ~med.closed
           /\ med.agent = "open" /\ Setup \in {med.installed, med.iceOwner} =>
                med'.iceOwner = Setup
  <2>1. /\ med.released = 0 /\ \A c \in Closers : closer[c].pc = "idle"
        /\ med.agent = "open" => med'.iceOwner = Setup
    BY <1>3 DEF IInv, Closing
  <2> QED BY <1>1, <2>1 DEF Closing, Active
<1> QED BY <1>2, <1>3

\* A step of a handler that changes the media keeps the invariant.
LEMMA PeerMedia ==
  ASSUME IInv, NEW p \in Peers, NEW r \in Peer, SetPeer(p, r), StepOK(p, r),
         UNCHANGED <<dialog, answerMu, own, acks, bye, closer>>,
         mediaUpdating' \in BOOLEAN, med' \in Media,
         SocketsOK(med', Early', Forked', MediaDown'), Closing'
  PROVE  IInv'
<1>1. peer' \in [Peers -> Peer] /\ Serial' /\ Marked' /\ Responses' /\ Offering'
  BY PeerControl
<1>2. TypeOK'
  BY <1>1 DEF IInv, TypeOK, StepOK, dialog
<1>3. Sockets' /\ Acking' /\ ByeEnds'
  BY Zenon DEF Sockets, dialog, IInv, Acking, ByeEnds, ByeTaken
<1> QED BY <1>1, <1>2, <1>3 DEF IInv

\* The offer is refused.
LEMMA RefusedInv ==
  ASSUME IInv, NEW p \in Peers, peer[p].pc = "updating",
         NEW code \in Codes, Answers(p, code, "end"),
         UNCHANGED <<dialog, locks, updates, own, acks, bye, closer, med>>
  PROVE  IInv'
<1> DEFINE s == peer[p]
           r == [s EXCEPT !.pc = "answering", !.res = code, !.then = "end"]
<1>1. /\ s \in Peer
      /\ s.pc = "updating"
      /\ UNCHANGED <<own, acks, bye, closer, med>>
      /\ UNCHANGED <<dialog, locks, updates>>
  BY PeerFacts DEF Answers
<1>2. /\ r \in Peer
      /\ r.pc = "answering" /\ r.then = "end"
      /\ r.answered = s.answered /\ r.finals = s.finals /\ r.sent2xx = s.sent2xx
      /\ r.rtx = s.rtx
  BY <1>1, Zenon DEF Peer, PeerPcs, Runs, Thens
<1> HIDE DEF r
<1>3. StepOK(p, r)
  <2>1. ResponseOK(s)
    BY PeerFacts
  <2>2. ResponseOK(r)
    BY <1>1, <1>2, <2>1 DEF Before, Answered, ResponseOK
  <2>3. (r.pc \in Inside <=> s.pc \in Inside) /\ (r.pc \in Pending <=> s.pc \in Pending)
    BY <1>1, <1>2 DEF Inside, Pending
  <2>4. (Updates(r) => Updates(s)) /\ (IsOffering(s) => IsOffering(r))
    BY <1>1, <1>2, <2>1 DEF ResponseOK, Updates, IsOffering
  <2> QED BY <1>1, <1>2, <2>2, <2>3, <2>4, StepKept DEF locks, updates
<1>4. (IsEarly(r) => IsEarly(s)) /\ (IsForked(r) <=> IsForked(s))
  BY <1>1, <1>2 DEF IsEarly, IsForked, Before
<1>5. SetPeer(p, r)
  BY DEF Answers, r
<1> QED BY <1>1, <1>2, <1>3, <1>4, <1>5, PeerFacts, PeerOnly
     DEF dialog, locks, updates

\* An offer is applied to a fork on the same sockets, which is installed.
LEMMA OfferInv ==
  ASSUME IInv, NEW p \in Peers, peer[p].pc = "updating", ~med.closed,
         med' = replaceRTPSessionUnsafe(Fork(med, p), p),
         SetPeer(p, [peer[p] EXCEPT !.pc = "updated"]),
         UNCHANGED <<dialog, locks, updates, own, acks, bye, closer>>
  PROVE  IInv'
<1> DEFINE s == peer[p]
           r == [s EXCEPT !.pc = "updated"]
           m == Fork(med, p)
           n == replaceRTPSessionUnsafe(m, p)
<1>1. s \in Peer /\ ~MediaDown /\ p \notin Forked /\ p \in Sessions
  BY PeerFacts, OpenFacts, SessionFacts DEF Forked, IsForked
<1>2. /\ r \in Peer /\ r.pc = "updated"
      /\ r.then = s.then /\ r.res = s.res /\ r.answered = s.answered
      /\ r.finals = s.finals /\ r.sent2xx = s.sent2xx /\ r.rtx = s.rtx
  BY <1>1 DEF Peer, PeerPcs, Runs, Thens
<1> HIDE DEF r
<1>3. StepOK(p, r)
  <2>1. ResponseOK(s)
    BY PeerFacts
  <2>2. ResponseOK(r)
    BY <1>1, <1>2, <2>1 DEF Before, Answered, ResponseOK
  <2>3. (r.pc \in Inside <=> s.pc \in Inside) /\ (r.pc \in Pending <=> s.pc \in Pending)
    BY <1>1, <1>2 DEF Inside, Pending
  <2>4. (Updates(r) => Updates(s)) /\ (IsOffering(s) => IsOffering(r))
    BY <1>1, <1>2, <2>1 DEF ResponseOK, Updates, IsOffering
  <2> QED BY <1>1, <1>2, <2>2, <2>3, <2>4, StepKept DEF locks, updates
<1>4. SetPeer(p, r)
  BY DEF r
<1>5. Early' = Early \ {p} /\ Forked' = Forked \ {p}
  BY <1>2, <1>3, <1>4, PeerControl DEF IsEarly, IsForked, Before
<1>6. /\ m \in Media
      /\ m.closed = med.closed /\ m.installed = med.installed
      /\ m.iceOwner = med.iceOwner /\ m.released = med.released /\ m.agent = med.agent
  BY <1>1, OpenFacts, ForkFacts
<1>7. SocketsOK(m, Early, Forked, MediaDown)
  BY <1>1, OpenFacts, ForkSockets
<1> HIDE DEF m
<1>8. /\ n \in Media /\ n.closed = m.closed
      /\ n.released = m.released /\ n.agent = m.agent /\ n.iceOwner \in {Setup, Nobody}
      /\ m.agent = "open" /\ Setup \in {m.installed, m.iceOwner} => n.iceOwner = Setup
      /\ SocketsOK(n, Early \ {p}, Forked \ {p}, MediaDown)
  <2>1. m \in Media /\ m.iceOwner \in {Setup, Nobody}
    BY <1>6, OpenFacts
  <2> QED BY <2>1, <1>1, <1>7, InstallFacts
<1>9. med' = n
  BY DEF m
<1> HIDE DEF n
<1>10. Closing' /\ MediaDown' = MediaDown
  <2>1. /\ med' \in Media /\ closer' = closer
        /\ med'.closed = med.closed /\ med'.released = med.released
        /\ med'.agent = med.agent /\ med'.iceOwner \in {Setup, Nobody}
        /\ med.agent = "open" /\ Setup \in {med.installed, med.iceOwner} =>
             med'.iceOwner = Setup
    BY <1>6, <1>8, <1>9
  <2> QED BY <2>1, ClosingKept
<1>11. SocketsOK(med', Early', Forked', MediaDown')
  BY <1>5, <1>8, <1>9, <1>10
<1> QED BY <1>2, <1>3, <1>4, <1>8, <1>9, <1>10, <1>11, PeerFacts, PeerMedia DEF locks, updates

\* An offer of a new association is answered before its handshake.
LEMMA AssociationInv ==
  ASSUME IInv, NEW p \in Peers, peer[p].pc = "updating", ~med.closed,
         med.agent = "none", med' = Rebind(med, p),
         mediaUpdating' = TRUE, Answers(p, 200, "assoc"),
         UNCHANGED <<dialog, locks, updateDone, ackOffer, own, acks, bye, closer>>
  PROVE  IInv'
<1> DEFINE s == peer[p]
           c == 200
           r == [s EXCEPT !.pc = "answering", !.res = c, !.then = "assoc"]
           n == Rebind(med, p)
<1>1. s \in Peer /\ p \notin Forked /\ p \in Sessions /\ p \in Early
  BY PeerFacts, SessionFacts, Zenon DEF Forked, IsForked, Early, IsEarly
<1>2. c \in Codes
  BY CodeFacts
<1> HIDE DEF c
<1>3. /\ r \in Peer /\ r.pc = "answering" /\ r.res = c /\ r.then = "assoc"
      /\ r.answered = s.answered
      /\ r.finals = s.finals /\ r.sent2xx = s.sent2xx /\ r.rtx = s.rtx
  BY <1>1, <1>2, Zenon DEF Peer, PeerPcs, Runs, Thens
<1> HIDE DEF r
<1>4. StepOK(p, r)
  <2>1. ResponseOK(s)
    BY PeerFacts
  <2>2. ResponseOK(r)
    BY <1>1, <1>3, <2>1 DEF Before, Answered, ResponseOK, c
  <2> QED BY <1>1, <1>3, PeerFacts, SessionFacts, <2>2 DEF StepOK, locks, Inside,
     Pending, Before, Updates, IsOffering, c
<1>5. SetPeer(p, r)
  BY DEF r, c, Answers
<1>6. Early' = Early \ {p} /\ Forked' = Forked \cup {p}
  BY <1>3, <1>4, <1>5, PeerControl DEF IsEarly, IsForked, Before
<1>7. /\ n \in Media
      /\ n.closed = med.closed /\ n.installed = med.installed
      /\ n.iceOwner = med.iceOwner /\ n.released = med.released /\ n.agent = med.agent
  BY <1>1, OpenFacts, RebindFacts
<1>8. SocketsOK(n, Early \ {p}, Forked \cup {p}, MediaDown)
  BY <1>1, OpenFacts, RebindSockets
<1>9. med' = n
  OBVIOUS
<1> HIDE DEF n
<1>10. Closing' /\ MediaDown' = MediaDown
  BY <1>7, <1>9, OpenFacts, ClosingKept
<1>11. SocketsOK(med', Early', Forked', MediaDown')
  BY <1>6, <1>8, <1>9, <1>10
<1> QED BY <1>3, <1>4, <1>5, <1>7, <1>9, <1>10, <1>11, PeerFacts, PeerMedia,
     ZenonT(40) DEF locks

\* A re-INVITE without an offer is answered with one, made by a fork.
LEMMA NoOfferInv ==
  ASSUME IInv, NEW p \in Peers, peer[p].pc = "updating", ~med.closed,
         med' = Fork(med, p), ackOffer' = p, Answers(p, 200, "offer"),
         UNCHANGED <<dialog, locks, updateDone, mediaUpdating, own, acks, bye, closer>>
  PROVE  IInv'
<1> DEFINE s == peer[p]
           c == 200
           r == [s EXCEPT !.pc = "answering", !.res = c, !.then = "offer"]
           n == Fork(med, p)
<1>1. s \in Peer /\ p \notin Forked /\ p \in Sessions
  BY PeerFacts, SessionFacts DEF Forked, IsForked
<1>2. c \in Codes
  BY CodeFacts
<1> HIDE DEF c
<1>3. /\ r \in Peer /\ r.pc = "answering" /\ r.res = c /\ r.then = "offer"
      /\ r.answered = s.answered
      /\ r.finals = s.finals /\ r.sent2xx = s.sent2xx /\ r.rtx = s.rtx
  BY <1>1, <1>2, Zenon DEF Peer, PeerPcs, Runs, Thens
<1> HIDE DEF r
<1>4. StepOK(p, r)
  <2>1. ResponseOK(s)
    BY PeerFacts
  <2>2. ResponseOK(r)
    BY <1>1, <1>3, <2>1 DEF Before, Answered, ResponseOK, c
  <2> QED BY <1>1, <1>3, PeerFacts, SessionFacts, <2>2 DEF StepOK, locks, Inside,
     Pending, Before, Updates, IsOffering, c
<1>5. SetPeer(p, r)
  BY DEF r, c, Answers
<1>6. Early' = Early \ {p} /\ Forked' = Forked
  BY <1>1, <1>3, <1>4, <1>5, PeerControl, ZenonT(60) DEF IsEarly, IsForked, Before
<1>7. /\ n \in Media
      /\ n.closed = med.closed /\ n.installed = med.installed
      /\ n.iceOwner = med.iceOwner /\ n.released = med.released /\ n.agent = med.agent
  BY <1>1, OpenFacts, ForkFacts
<1>8. SocketsOK(n, Early, Forked, MediaDown)
  BY <1>1, OpenFacts, ForkSockets
<1>9. med' = n
  OBVIOUS
<1> HIDE DEF n
<1>10. Closing' /\ MediaDown' = MediaDown
  BY <1>7, <1>9, OpenFacts, ClosingKept
<1>11. SocketsOK(med', Early', Forked', MediaDown')
  <2>1. SocketsOK(n, Early \ {p}, Forked, MediaDown)
    BY <1>8 DEF SocketsOK
  <2> QED BY <1>6, <2>1, <1>9, <1>10
<1> QED BY <1>3, <1>4, <1>5, <1>7, <1>9, <1>10, <1>11, PeerFacts, PeerMedia,
     ZenonT(40) DEF locks

\* The media update of a re-INVITE (handleMediaUpdate).
LEMMA UpdateInv ==
  ASSUME IInv, NEW p \in Peers, handleMediaUpdate(p)
  PROVE  IInv'
<1> DEFINE kind == peer[p].kind
           restart == kind = "newassoc" /\ med.agent # "none"
           open == ~med.closed /\ ~mediaUpdating
<1>1. /\ peer[p].pc = "updating"
      /\ UNCHANGED <<dialog, locks, updateDone, own, acks, bye, closer>>
  BY DEF handleMediaUpdate
<1>2. ASSUME NEW code \in Codes, Answers(p, code, "end"),
             UNCHANGED <<mediaUpdating, ackOffer, med>>
      PROVE  IInv'
  BY <1>1, <1>2, RefusedInv DEF updates
<1>3. ASSUME open, kind = "newassoc", ~restart, med' = Rebind(med, p),
             mediaUpdating' = TRUE, Answers(p, 200, "assoc"), UNCHANGED ackOffer
      PROVE  IInv'
  BY <1>1, <1>3, AssociationInv
<1>4. ASSUME open, med' = replaceRTPSessionUnsafe(Fork(med, p), p),
             SetPeer(p, [peer[p] EXCEPT !.pc = "updated"]),
             UNCHANGED <<mediaUpdating, ackOffer>>
      PROVE  IInv'
  BY <1>1, <1>4, OfferInv DEF updates
<1>5. ASSUME open, med' = Fork(med, p), ackOffer' = p, Answers(p, 200, "offer"),
             UNCHANGED mediaUpdating
      PROVE  IInv'
  BY <1>1, <1>5, NoOfferInv
<1>6. /\ (IF med.closed THEN 487 ELSE 491) \in Codes
      /\ (IF restart THEN 488 ELSE 487) \in Codes
  BY CodeFacts
<1> QED BY <1>2, <1>3, <1>4, <1>5, <1>6, ZenonT(40) DEF handleMediaUpdate

\* The handler of a new association installs its fork or discards it.
LEMMA SettledInv ==
  ASSUME IInv, NEW p \in Peers, peer[p].pc \in {"handshake", "dropping"},
         NEW pc \in {"ending", "hangup"}, SetPeer(p, [peer[p] EXCEPT !.pc = pc]),
         mediaUpdating' = FALSE,
         \/ ~med.closed /\ med' = replaceRTPSessionUnsafe(med, p)
         \/ med' = discardForkUnsafe(med, p),
         UNCHANGED <<dialog, locks, updateDone, ackOffer, own, acks, bye, closer>>
  PROVE  IInv'
<1> DEFINE s == peer[p]
           r == [s EXCEPT !.pc = pc]
<1>1. s \in Peer /\ p \in Forked /\ p \notin Early
  BY PeerFacts DEF Forked, IsForked, Early, IsEarly, Before
<1>2. /\ r \in Peer /\ r.pc = pc
      /\ r.then = s.then /\ r.res = s.res /\ r.answered = s.answered
      /\ r.finals = s.finals /\ r.sent2xx = s.sent2xx /\ r.rtx = s.rtx
  BY <1>1 DEF Peer, PeerPcs, Runs, Thens
<1> HIDE DEF r
<1>3. StepOK(p, r)
  <2>1. ResponseOK(s)
    BY PeerFacts
  <2>2. ResponseOK(r)
    BY <1>1, <1>2, <2>1 DEF Before, Answered, ResponseOK
  <2> QED BY <1>1, <1>2, PeerFacts, <2>2 DEF StepOK, locks, Inside, Pending, Before,
     Updates, IsOffering
<1>4. SetPeer(p, r)
  BY DEF r
<1>5. Early' = Early \ {p} /\ Early \ {p} = Early /\ Forked' = Forked \ {p}
  BY <1>1, <1>2, <1>3, <1>4, PeerControl DEF IsEarly, IsForked, Before
<1>6. ASSUME ~med.closed, med' = replaceRTPSessionUnsafe(med, p)
      PROVE  med' \in Media /\ Closing' /\ SocketsOK(med', Early', Forked', MediaDown')
  <2>1. /\ med \in Media /\ SocketsOK(med, Early, Forked, MediaDown)
        /\ med.iceOwner \in {Setup, Nobody} /\ ~MediaDown
    BY <1>6, OpenFacts
  <2>2. /\ med' \in Media /\ med'.closed = med.closed
        /\ med'.released = med.released /\ med'.agent = med.agent
        /\ med'.iceOwner \in {Setup, Nobody}
        /\ med.agent = "open" /\ Setup \in {med.installed, med.iceOwner} =>
             med'.iceOwner = Setup
        /\ SocketsOK(med', Early \ {p}, Forked \ {p}, MediaDown)
    BY <1>6, <2>1, InstallFacts
  <2>3. Closing' /\ MediaDown' = MediaDown
    BY <1>6, <2>2, ClosingKept
  <2> QED BY <1>5, <2>2, <2>3
<1>7. ASSUME med' = discardForkUnsafe(med, p)
      PROVE  med' \in Media /\ Closing' /\ SocketsOK(med', Early', Forked', MediaDown')
  <2>1. /\ med' \in Media /\ med'.closed = med.closed /\ med'.installed = med.installed
        /\ med'.iceOwner = med.iceOwner /\ med'.released = med.released
        /\ med'.agent = med.agent
        /\ SocketsOK(med', Early, Forked \ {p}, MediaDown)
    BY <1>7, OpenFacts, DiscardFacts
  <2>2. Closing' /\ MediaDown' = MediaDown
    BY <2>1, OpenFacts, ClosingKept
  <2> QED BY <1>5, <2>1, <2>2
<1>8. med' \in Media /\ Closing' /\ SocketsOK(med', Early', Forked', MediaDown')
  BY <1>6, <1>7
<1> QED BY <1>2, <1>3, <1>4, <1>8, PeerFacts, PeerMedia, Zenon DEF locks

\* The handshake has ended, or the 2xx was not sent.
LEMMA AssociationEndInv ==
  ASSUME IInv, NEW p \in Peers, answerNewAssociation(p) \/ AssociationDropped(p)
  PROVE  IInv'
<1>1. ASSUME answerNewAssociation(p) PROVE IInv'
  <2>1. PICK ok \in BOOLEAN :
          /\ \/ ok /\ ~ended /\ ~med.closed /\ med' = replaceRTPSessionUnsafe(med, p)
             \/ med' = discardForkUnsafe(med, p)
          /\ SetPeer(p, [peer[p] EXCEPT !.pc = AfterHandshake(ok)])
    BY <1>1 DEF answerNewAssociation
  <2>2. AfterHandshake(ok) \in {"ending", "hangup"}
    BY DEF AfterHandshake
  <2> QED BY <1>1, <2>1, <2>2, SettledInv, Zenon DEF answerNewAssociation
<1>2. ASSUME AssociationDropped(p) PROVE IInv'
  BY <1>2, SettledInv, Zenon DEF AssociationDropped
<1> QED BY <1>1, <1>2

-----------------------------------------------------------------------------
(* The ACKs, our re-INVITEs, and the end of the call.                      *)

\* A step that leaves the handlers of re-INVITEs alone.
LEMMA OtherInv ==
  ASSUME IInv, UNCHANGED <<peer, requestMu, current>>, TypeOK', Marked', Offering', Acking',
         ByeEnds', Closing', SocketsOK(med', Early, Forked, MediaDown')
  PROVE  IInv'
<1>1. Serial' /\ Responses'
  BY DEF IInv, Serial, Responses
<1>2. Early' = Early /\ Forked' = Forked
  BY DEF Early, Forked
<1>3. Sockets'
  BY <1>2 DEF Sockets
<1> QED BY <1>1, <1>3 DEF IInv

\* An update that is not a re-INVITE's on its own sockets installs its fork, discards
\* it, or leaves the media alone.
LEMMA SettleFacts ==
  ASSUME IInv, NEW f \in Peers \cup Owns, f \notin Early, f \notin Forked,
         closer' = closer,
         \/ ~med.closed /\ med' = replaceRTPSessionUnsafe(med, f)
         \/ med' = discardForkUnsafe(med, f)
         \/ med' = med
  PROVE  med' \in Media /\ Closing' /\ SocketsOK(med', Early, Forked, MediaDown')
<1>1. Early \ {f} = Early /\ Forked \ {f} = Forked
  OBVIOUS
<1>2. /\ med \in Media /\ SocketsOK(med, Early, Forked, MediaDown)
      /\ med.iceOwner \in {Setup, Nobody} /\ (~med.closed => ~MediaDown)
  BY OpenFacts
<1>3. ASSUME ~med.closed, med' = replaceRTPSessionUnsafe(med, f)
      PROVE  med' \in Media /\ Closing' /\ SocketsOK(med', Early, Forked, MediaDown')
  <2>1. /\ med' \in Media /\ med'.closed = med.closed
        /\ med'.released = med.released /\ med'.agent = med.agent
        /\ med'.iceOwner \in {Setup, Nobody}
        /\ med.agent = "open" /\ Setup \in {med.installed, med.iceOwner} =>
             med'.iceOwner = Setup
        /\ SocketsOK(med', Early \ {f}, Forked \ {f}, MediaDown)
    BY <1>2, <1>3, InstallFacts, SMTT(20)
  <2>2. Closing' /\ MediaDown' = MediaDown
    BY <1>3, <2>1, ClosingKept
  <2> QED BY <1>1, <2>1, <2>2
<1>4. ASSUME med' = discardForkUnsafe(med, f)
      PROVE  med' \in Media /\ Closing' /\ SocketsOK(med', Early, Forked, MediaDown')
  <2>1. /\ med' \in Media /\ med'.closed = med.closed /\ med'.installed = med.installed
        /\ med'.iceOwner = med.iceOwner /\ med'.released = med.released
        /\ med'.agent = med.agent
        /\ SocketsOK(med', Early, Forked \ {f}, MediaDown)
    BY <1>2, <1>4, DiscardFacts
  <2>2. Closing' /\ MediaDown' = MediaDown
    BY <1>2, <2>1, ClosingKept
  <2> QED BY <1>1, <2>1, <2>2
<1>5. ASSUME med' = med
      PROVE  med' \in Media /\ Closing' /\ SocketsOK(med', Early, Forked, MediaDown')
  BY <1>2, <1>5, ClosingKept
<1> QED BY <1>3, <1>4, <1>5

\* An ACK arrives, for a re-INVITE that got its 2xx.
LEMMA AckArrivesInv ==
  ASSUME IInv, NEW k \in Acks, AckArrives(k)
  PROVE  IInv'
<1>1. PICK p \in Peers, b \in Bodies :
        SetAck(k, [acks[k] EXCEPT !.pc = "applying", !.of = p, !.body = b])
  BY Zenon DEF AckArrives
<1>2. UNCHANGED <<dialog, locks, updates, peer, own, bye, closer, med>>
  BY DEF AckArrives
<1>3. acks' \in [Acks -> Ack] /\ Acking'
  <2>1. acks \in [Acks -> Ack]
    BY DEF IInv, TypeOK
  <2>2. [acks[k] EXCEPT !.pc = "applying", !.of = p, !.body = b] \in Ack
    BY <2>1, Zenon DEF Ack, AckPcs
  <2> QED BY <1>1, <2>1, <2>2 DEF SetAck, IInv, Acking, Ack
<1>4. TypeOK' /\ Marked' /\ Offering' /\ ByeEnds'
  BY <1>2, <1>3 DEF dialog, locks, updates, IInv, TypeOK, Marked, OwnOut, Offering,
     ByeEnds, ByeTaken
<1>5. Closing' /\ SocketsOK(med', Early, Forked, MediaDown')
  BY <1>2, OpenFacts, ClosingKept
<1> QED BY <1>2, <1>3, <1>4, <1>5, OtherInv DEF locks

\* The answer to our offer is applied, once.
LEMMA ApplyInv ==
  ASSUME IInv, NEW k \in Acks, applyAckAnswer(k)
  PROVE  IInv'
<1> DEFINE p == acks[k].of
<1>1. /\ UNCHANGED <<dialog, locks, updateDone, mediaUpdating, peer, own, bye, closer>>
      /\ acks[k].pc = "applying" /\ p \in Peers
  BY DEF applyAckAnswer, IInv, Acking
<1>2. acks' \in [Acks -> Ack] /\ Acking'
  <2>1. acks \in [Acks -> Ack]
    BY DEF IInv, TypeOK
  <2>2. /\ [acks[k] EXCEPT !.pc = "acking"] \in Ack
        /\ [acks[k] EXCEPT !.pc = "acking", !.failed = TRUE] \in Ack
        /\ [acks[k] EXCEPT !.pc = "acking"].of = p
        /\ [acks[k] EXCEPT !.pc = "acking", !.failed = TRUE].of = p
    BY <2>1, Zenon DEF Ack, AckPcs
  <2>3. PICK r \in Ack : r.of = p /\ SetAck(k, r)
    BY <2>2, Zenon DEF applyAckAnswer
  <2> QED BY <1>1, <2>1, <2>3 DEF SetAck, IInv, Acking
<1>3. ackOffer' \in {ackOffer, Nobody}
  BY DEF applyAckAnswer
<1>4. med' \in Media /\ Closing' /\ SocketsOK(med', Early, Forked, MediaDown')
  <2>1. CASE med' = med
    BY <1>1, <2>1, OpenFacts, ClosingKept
  <2>2. CASE med' # med
    <3>1. /\ ackOffer = p
          /\ \/ ~med.closed /\ med' = replaceRTPSessionUnsafe(med, p)
             \/ med' = discardForkUnsafe(med, p)
      BY <2>2 DEF applyAckAnswer, AnswersOffer
    <3>2. p \notin Early /\ p \notin Forked
      BY <1>1, <3>1, PeerFacts DEF IsOffering, Early, Forked, IsEarly, IsForked, Before
    <3> QED BY <1>1, <3>1, <3>2, SettleFacts
  <2> QED BY <2>1, <2>2
<1>5. TypeOK' /\ Marked' /\ Offering' /\ ByeEnds'
  BY <1>1, <1>2, <1>3, <1>4, PeerFacts DEF dialog, locks, IInv, TypeOK, Marked,
     OwnOut, Offering, ByeEnds, ByeTaken
<1> QED BY <1>1, <1>2, <1>4, <1>5, OtherInv DEF locks

\* The ACK ends the retransmission, and a call whose answer did not apply.
LEMMA AckedInv ==
  ASSUME IInv, NEW k \in Acks, ackPeerReInvite(k) \/ AckHangup(k)
  PROVE  IInv'
<1>1. acks \in [Acks -> Ack] /\ \A pc \in AckPcs : [acks[k] EXCEPT !.pc = pc] \in Ack
  BY DEF IInv, TypeOK, Ack
<1>2. \A pc \in AckPcs : [acks[k] EXCEPT !.pc = pc].of = acks[k].of
  BY <1>1 DEF Ack
<1>3. acks[k].of \in Peers
  BY DEF IInv, Acking, ackPeerReInvite, AckHangup
<1>4. acks' \in [Acks -> Ack] /\ Acking'
  <2>1. PICK pc \in AckPcs : SetAck(k, [acks[k] EXCEPT !.pc = pc])
    BY DEF ackPeerReInvite, AckHangup, AckPcs
  <2> QED BY <1>1, <1>2, <1>3, <2>1 DEF SetAck, IInv, Acking
<1>5. ASSUME ackPeerReInvite(k) PROVE IInv'
  <2> DEFINE p == acks[k].of
             s == peer[p]
             a == s.acked \/ AckMatches(p)
             r == [s EXCEPT !.acked = a]
  <2>1. s \in Peer /\ UNCHANGED <<dialog, locks, updates, own, bye, closer, med>>
    BY <1>3, <1>5, PeerFacts DEF ackPeerReInvite
  <2>2. a \in BOOLEAN
    BY <2>1, Zenon DEF Peer, AckMatches
  <2>3. SetPeer(p, r)
    BY <1>5 DEF ackPeerReInvite
  <2> HIDE DEF a
  <2>4. /\ r \in Peer /\ r.pc = s.pc
        /\ r.then = s.then /\ r.res = s.res /\ r.answered = s.answered
        /\ r.finals = s.finals /\ r.sent2xx = s.sent2xx /\ r.rtx = s.rtx
    BY <2>1, <2>2, SMTT(20) DEF Peer
  <2> HIDE DEF r
  <2>5. StepOK(p, r)
    <3>1. ResponseOK(s)
      BY <1>3, PeerFacts
    <3>2. ResponseOK(r) /\ (Updates(r) <=> Updates(s)) /\ (IsOffering(r) <=> IsOffering(s))
      BY <2>4, <3>1, ResponseKept
    <3> QED BY <1>3, <2>1, <2>4, <3>2, StepKept DEF locks, updates
  <2>6. /\ peer' \in [Peers -> Peer]
        /\ Serial' /\ Marked' /\ Responses' /\ Offering'
        /\ ~IsEarly(r) => Early' = Early \ {p}
        /\ IsEarly(r) /\ IsEarly(s) => Early' = Early
        /\ ~IsForked(r) => Forked' = Forked \ {p}
        /\ IsForked(r) => Forked' = Forked \cup {p}
    BY <1>3, <2>1, <2>3, <2>4, <2>5, PeerControl, ZenonT(60)
  <2>7. Early' = Early /\ Forked' = Forked
    <3>1. (IsEarly(r) <=> IsEarly(s)) /\ (IsForked(r) <=> IsForked(s))
      BY <2>4 DEF IsEarly, IsForked
    <3>2. (p \in Early <=> IsEarly(s)) /\ (p \in Forked <=> IsForked(s))
      BY <1>3 DEF Early, Forked
    <3> QED BY <2>6, <3>1, <3>2
  <2>8. Sockets' /\ Closing' /\ ByeEnds'
    BY <2>1, <2>7 DEF dialog, IInv, Sockets, MediaDown, Closing, ByeEnds, ByeTaken
  <2>9. TypeOK'
    BY <1>4, <2>1, <2>6 DEF dialog, locks, updates, IInv, TypeOK
  <2> QED BY <1>4, <2>6, <2>8, <2>9, ZenonT(40) DEF IInv
<1>6. ASSUME AckHangup(k) PROVE IInv'
  <2>1. /\ UNCHANGED <<remoteCSeq, target, locks, updates, peer, own, bye, closer, med>>
        /\ ended' = TRUE
    BY <1>6 DEF AckHangup
  <2>2. TypeOK' /\ Marked' /\ Offering' /\ ByeEnds'
    BY <1>4, <2>1 DEF locks, updates, IInv, TypeOK, Marked, OwnOut, Offering, ByeEnds
  <2>3. Closing' /\ SocketsOK(med', Early, Forked, MediaDown')
    BY <2>1, OpenFacts, ClosingKept
  <2> QED BY <1>4, <2>1, <2>2, <2>3, OtherInv DEF locks
<1> QED BY <1>5, <1>6

\* One of our re-INVITEs takes a step: it takes the mark only when nobody has it, is
\* out only with the mark, and gives up only its own.
LEMMA OwnInv ==
  ASSUME IInv, NEW o \in Owns, ReInvite(o) \/ OwnStep(o) \/ CtxEnds(o)
  PROVE  IInv'
<1>1. /\ UNCHANGED <<ended, remoteCSeq, locks, mediaUpdating, ackOffer>>
      /\ UNCHANGED <<peer, acks, bye, closer>>
      /\ target' \in {target, o}
  BY DEF ReInvite, OwnStep, CtxEnds, beginOwnMediaUpdate, reInviteSend, reInviteMediaOnce,
     endMediaUpdate, reInviteRetryWait, dialog, updates
<1>2. own \in [Owns -> Own] /\ updateDone \in Peers \cup Owns \cup {Nobody} /\ o # Nobody
  BY SessionFacts, Zenon DEF IInv, TypeOK
<1>3. \A pc \in OwnPcs : [own EXCEPT ![o].pc = pc] \in [Owns -> Own]
  BY <1>2 DEF Own
<1>4. own' \in [Owns -> Own]
  <2>1. CASE \E pc \in OwnPcs : SetOwn(o, pc)
    BY <1>3, <2>1 DEF SetOwn
  <2>2. CASE own' = [own EXCEPT ![o] = [pc |-> "sent", tries |-> @.tries + 1]]
    BY <1>2, <2>2 DEF Own, OwnPcs
  <2> QED BY <2>1, <2>2 DEF ReInvite, OwnStep, CtxEnds, beginOwnMediaUpdate, reInviteSend,
        reInviteMediaOnce, endMediaUpdate, reInviteRetryWait, OwnPcs
<1>5. /\ updateDone' \in Peers \cup Owns \cup {Nobody}
      /\ \A q \in Owns \ {o} : own'[q] = own[q]
      /\ own'[o].pc \in {"sent", "answered"} => updateDone' = o
      /\ \A x \in (Peers \cup Owns) \ {o} : updateDone = x => updateDone' = x
  BY <1>2, SessionFacts DEF ReInvite, OwnStep, CtxEnds, beginOwnMediaUpdate, reInviteSend,
     reInviteMediaOnce, endMediaUpdate, reInviteRetryWait, updates, SetOwn, Unmark, MayBegin,
     IInv, Marked, OwnOut, Own
<1>6. Marked'
  <2>1. \A q \in Owns : OwnOut(q)' => updateDone' = q
    BY <1>5 DEF IInv, Marked, OwnOut
  <2>2. \A p \in Peers : Updates(peer'[p]) => updateDone' = p
    BY <1>1, <1>5, SessionFacts DEF IInv, Marked
  <2> QED BY <2>1, <2>2 DEF Marked, Updates
<1>7. o \notin Early /\ o \notin Forked
  BY SessionFacts DEF Early, Forked
<1>8. med' \in Media /\ Closing' /\ SocketsOK(med', Early, Forked, MediaDown')
  <2>1. CASE med' = Fork(med, o)
    <3>1. /\ med' \in Media /\ med'.closed = med.closed /\ med'.installed = med.installed
          /\ med'.iceOwner = med.iceOwner /\ med'.released = med.released
          /\ med'.agent = med.agent
      BY <2>1, OpenFacts, SessionFacts, ForkFacts
    <3>2. SocketsOK(med', Early, Forked, MediaDown)
      BY <1>7, <2>1, OpenFacts, ForkSockets
    <3>3. Closing' /\ MediaDown' = MediaDown
      BY <1>1, <3>1, OpenFacts, ClosingKept
    <3> QED BY <3>1, <3>2, <3>3
  <2>2. CASE \/ ~med.closed /\ med' = replaceRTPSessionUnsafe(med, o)
             \/ med' = discardForkUnsafe(med, o)
             \/ med' = med
    BY <1>1, <1>7, <2>2, SettleFacts
  <2> QED BY <2>1, <2>2 DEF ReInvite, OwnStep, CtxEnds, beginOwnMediaUpdate, reInviteSend,
        reInviteMediaOnce, endMediaUpdate, reInviteRetryWait, MayInstall
<1>9. TypeOK' /\ Offering' /\ Acking' /\ ByeEnds'
  BY <1>1, <1>4, <1>5, <1>8 DEF locks, IInv, TypeOK, Offering, Acking, ByeEnds, ByeTaken
<1> QED BY <1>1, <1>6, <1>8, <1>9, OtherInv DEF locks

\* Close takes what it closes, once; a call that follows has nothing to do.
LEMMA CloseInv ==
  ASSUME IInv, NEW c \in Closers, Close(c)
  PROVE  IInv'
<1>1. UNCHANGED <<dialog, locks, updates, peer, own, acks, bye>> /\ closer[c].pc = "idle"
  BY DEF Close
<1>2. closer \in [Closers -> Closer] /\ med \in Media
  BY DEF IInv, TypeOK
<1>3. ASSUME med.closed, SetCloser(c, [closer[c] EXCEPT !.pc = "done"]), UNCHANGED med
      PROVE  /\ closer' \in [Closers -> Closer] /\ med' \in Media
             /\ Closing' /\ SocketsOK(med', Early, Forked, MediaDown')
  <2>1. [closer[c] EXCEPT !.pc = "done"] \in Closer
    BY <1>2 DEF Closer, CloserPcs
  <2>2. /\ closer' \in [Closers -> Closer] /\ closer'[c].pc = "done"
        /\ \A d \in Closers \ {c} : closer'[d] = closer[d]
    BY <1>2, <1>3, <2>1 DEF SetCloser, Closer
  <2>3. MediaDown' = MediaDown
    BY <1>1, <1>3, <2>2 DEF MediaDown
  <2>4. Closing'
    BY <1>1, <1>3, <2>2 DEF IInv, Closing, Active
  <2> QED BY <1>2, <1>3, <2>2, <2>3, <2>4, OpenFacts
<1>4. ASSUME ~med.closed, med' = Latch(med),
             SetCloser(c, [pc |-> "closing", media |-> med.installed, owner |-> med.iceOwner])
      PROVE  /\ closer' \in [Closers -> Closer] /\ med' \in Media
             /\ Closing' /\ SocketsOK(med', Early, Forked, MediaDown')
  <2>1. /\ med' \in Media /\ med'.closed /\ med'.iceOwner = Nobody
        /\ med'.installed = med.installed /\ med'.on = med.on /\ med'.sock = med.sock
        /\ med'.agent = med.agent /\ med'.released = med.released
    BY <1>2, <1>4, ZenonT(40) DEF Latch, Media
  <2>2. [pc |-> "closing", media |-> med.installed, owner |-> med.iceOwner] \in Closer
    BY <1>2 DEF Closer, CloserPcs, Media
  <2>3. /\ closer' \in [Closers -> Closer]
        /\ closer'[c] = [pc |-> "closing", media |-> med.installed, owner |-> med.iceOwner]
        /\ \A d \in Closers \ {c} : closer'[d] = closer[d]
    BY <1>2, <1>4, <2>2, ZenonT(60) DEF SetCloser
  <2>4. /\ med.released = 0 /\ \A d \in Closers : closer[d].pc = "idle"
        /\ med.agent = "open" => Setup \in {med.installed, med.iceOwner}
    BY <1>4 DEF IInv, Closing
  <2>5. ~MediaDown /\ ~MediaDown'
    BY <2>1, <2>3, <2>4 DEF MediaDown
  <2>6. Closing'
    BY <2>1, <2>3, <2>4 DEF Closing, Active
  <2>7. SocketsOK(med', Early, Forked, MediaDown')
    BY <2>1, <2>5, OpenFacts DEF SocketsOK
  <2> QED BY <2>1, <2>3, <2>6, <2>7
<1>5. /\ closer' \in [Closers -> Closer] /\ med' \in Media
      /\ Closing' /\ SocketsOK(med', Early, Forked, MediaDown')
  BY <1>3, <1>4 DEF Close
<1>6. TypeOK' /\ Marked' /\ Offering' /\ Acking' /\ ByeEnds'
  BY <1>1, <1>5 DEF dialog, locks, updates, IInv, TypeOK, Marked, OwnOut, Offering, Acking,
     ByeEnds, ByeTaken
<1> QED BY <1>1, <1>5, <1>6, OtherInv, Zenon DEF locks

\* It closes the sockets, then the agent, then gives the port back.
LEMMA CloseStepInv ==
  ASSUME IInv, NEW c \in Closers, CloseStep(c)
  PROVE  IInv'
<1> DEFINE s == closer[c]
<1>1. /\ UNCHANGED <<dialog, locks, updates, peer, own, acks, bye>>
      /\ s \in Closer /\ s.pc \in Active /\ closer \in [Closers -> Closer] /\ med \in Media
  BY DEF CloseStep, IInv, TypeOK, Active
<1>2. /\ s.media = med.installed /\ s.media \in Sessions /\ med.released = 0 /\ med.closed
      /\ \A d \in Closers \ {c} : closer[d].pc \notin Active
  BY <1>1 DEF IInv, Closing, Media, Active
<1>3. ASSUME NEW pc \in CloserPcs, SetCloser(c, [s EXCEPT !.pc = pc])
      PROVE  /\ closer' \in [Closers -> Closer] /\ closer'[c].pc = pc
             /\ closer'[c].media = s.media /\ closer'[c].owner = s.owner
             /\ \A d \in Closers \ {c} : closer'[d] = closer[d]
  <2>1. /\ [s EXCEPT !.pc = pc] \in Closer /\ [s EXCEPT !.pc = pc].pc = pc
        /\ [s EXCEPT !.pc = pc].media = s.media /\ [s EXCEPT !.pc = pc].owner = s.owner
    BY <1>1 DEF Closer
  <2> QED BY <1>1, <1>3, <2>1 DEF SetCloser
<1>4. ASSUME s.pc = "closing", med' = CloseSession(med, s.media),
             SetCloser(c, [s EXCEPT
               !.pc = IF s.owner \in {Nobody, s.media} THEN "releasing" ELSE "owner"])
      PROVE  /\ closer' \in [Closers -> Closer] /\ med' \in Media
             /\ Closing' /\ SocketsOK(med', Early, Forked, MediaDown')
  <2> DEFINE pc == IF s.owner \in {Nobody, s.media} THEN "releasing" ELSE "owner"
  <2>1. pc \in CloserPcs
    BY DEF CloserPcs
  <2>2. /\ closer' \in [Closers -> Closer] /\ closer'[c].pc = pc
        /\ closer'[c].media = s.media /\ closer'[c].owner = s.owner
        /\ \A d \in Closers \ {c} : closer'[d] = closer[d]
    BY <1>3, <1>4, <2>1
  <2>3. /\ med' \in Media
        /\ med'.closed = med.closed /\ med'.installed = med.installed
        /\ med'.iceOwner = med.iceOwner /\ med'.released = med.released
        /\ med'.agent = "open" <=> med.agent = "open" /\ s.media # Setup
    <3>1. med \in Media
      BY <1>1
    <3>2. s.media \in Sessions
      BY <1>2
    <3> QED BY <1>4, <3>1, <3>2, CloseFacts
  <2>4. MediaDown'
    BY <2>2 DEF MediaDown
  <2>5. SocketsOK(med', Early, Forked, MediaDown')
    BY <1>2, <1>4, <2>4, OpenFacts, CloseSockets, Zenon
  <2>6. s.owner \in Sessions \cup {Nobody}
    BY <1>1 DEF Closer
  <2>7. med'.agent = "open" => s.owner = Setup
    BY <1>4, <2>3 DEF IInv, Closing
  <2>8. Closing'
    BY <1>2, <2>2, <2>3, <2>6, <2>7, SessionFacts, ZenonT(40) DEF IInv, Closing, Active
  <2> QED BY <2>2, <2>3, <2>5, <2>8
<1>5. ASSUME s.pc = "owner", med' = CloseSession(med, s.owner),
             SetCloser(c, [s EXCEPT !.pc = "releasing"])
      PROVE  /\ closer' \in [Closers -> Closer] /\ med' \in Media
             /\ Closing' /\ SocketsOK(med', Early, Forked, MediaDown')
  <2>1. "releasing" \in CloserPcs
    BY DEF CloserPcs
  <2>2. /\ closer' \in [Closers -> Closer] /\ closer'[c].pc = "releasing"
        /\ closer'[c].media = s.media /\ closer'[c].owner = s.owner
        /\ \A d \in Closers \ {c} : closer'[d] = closer[d]
    BY <1>3, <1>5, <2>1
  <2>3. s.owner \in Sessions /\ (med.agent = "open" => s.owner = Setup)
    BY <1>5 DEF IInv, Closing
  <2>4. /\ med' \in Media
        /\ med'.closed = med.closed /\ med'.installed = med.installed
        /\ med'.iceOwner = med.iceOwner /\ med'.released = med.released
        /\ med'.agent = "open" <=> med.agent = "open" /\ s.owner # Setup
    BY <1>1, <1>5, <2>3, CloseFacts
  <2>5. MediaDown /\ MediaDown'
    BY <1>5, <2>2 DEF MediaDown
  <2>6. SocketsOK(med', Early, Forked, MediaDown')
    BY <1>5, <2>3, <2>5, OpenFacts, CloseSockets, ZenonT(40)
  <2>7. Closing'
    BY <1>2, <2>2, <2>3, <2>4, ZenonT(60) DEF IInv, Closing, Active
  <2> QED BY <2>2, <2>4, <2>6, <2>7, Zenon
<1>6. ASSUME s.pc = "releasing", med' = ReleasePort(med),
             SetCloser(c, [s EXCEPT !.pc = "done"])
      PROVE  /\ closer' \in [Closers -> Closer] /\ med' \in Media
             /\ Closing' /\ SocketsOK(med', Early, Forked, MediaDown')
  <2>1. "done" \in CloserPcs
    BY DEF CloserPcs
  <2>2. /\ closer' \in [Closers -> Closer] /\ closer'[c].pc = "done"
        /\ \A d \in Closers \ {c} : closer'[d] = closer[d]
    BY <1>3, <1>6, <2>1
  <2>3. /\ med' \in Media /\ med'.released = 1
        /\ med'.closed = med.closed /\ med'.installed = med.installed
        /\ med'.on = med.on /\ med'.sock = med.sock
        /\ med'.iceOwner = med.iceOwner /\ med'.agent = med.agent
    <3> DEFINE n == med.released + 1
    <3>1. n \in Nat /\ n = 1
      BY <1>2
    <3>2. med' = [med EXCEPT !.released = n]
      BY <1>6 DEF ReleasePort
    <3> HIDE DEF n
    <3> QED BY <1>1, <3>1, <3>2 DEF Media
  <2>4. MediaDown /\ MediaDown' /\ med.agent # "open"
    BY <1>6, <2>3 DEF MediaDown, IInv, Closing
  <2>5. SocketsOK(med', Early, Forked, MediaDown')
    BY <2>3, <2>4, OpenFacts, SMTT(20) DEF SocketsOK
  <2>6. Closing'
    BY <1>2, <2>2, <2>3, <2>4 DEF IInv, Closing, Active
  <2> QED BY <2>2, <2>3, <2>5, <2>6
<1>7. /\ closer' \in [Closers -> Closer] /\ med' \in Media
      /\ Closing' /\ SocketsOK(med', Early, Forked, MediaDown')
  BY <1>4, <1>5, <1>6, ZenonT(60) DEF CloseStep
<1>8. TypeOK' /\ Marked' /\ Offering' /\ Acking' /\ ByeEnds'
  BY <1>1, <1>7 DEF dialog, locks, updates, IInv, TypeOK, Marked, OwnOut, Offering, Acking,
     ByeEnds, ByeTaken
<1> QED BY <1>1, <1>7, <1>8, OtherInv DEF locks

\* The BYE of the peer's is taken, or the application hangs up.
LEMMA EndedInv ==
  ASSUME IInv, ReadBye \/ Hangup
  PROVE  IInv'
<1>1. /\ UNCHANGED <<remoteCSeq, target, requestMu, current, updates>>
      /\ UNCHANGED <<peer, own, acks, closer, med>>
      /\ ended' \in BOOLEAN /\ answerMu' \in BOOLEAN
      /\ bye' \in {"none", "refused", "answering", "answered"}
      /\ ByeEnds'
  BY Zenon DEF ReadBye, Hangup, locks, IInv, TypeOK, ByeEnds, ByeTaken
<1>2. TypeOK' /\ Marked' /\ Offering' /\ Acking'
  BY <1>1, ZenonT(60) DEF updates, IInv, TypeOK, Marked, OwnOut, Offering, Acking
<1>3. Closing' /\ SocketsOK(med', Early, Forked, MediaDown')
  BY <1>1, OpenFacts, ClosingKept
<1> QED BY <1>1, <1>2, <1>3, OtherInv

\* The BYE's handler answers the one re-INVITE that is pending.
LEMMA TerminateInv ==
  ASSUME IInv, terminatePeerReInviteLocked
  PROVE  IInv'
<1>1. /\ UNCHANGED <<dialog, requestMu, current, updates, own, acks, closer, med>>
      /\ bye = "answering" /\ answerMu' = FALSE /\ bye' = "answered" /\ ended' = ended
  BY Zenon DEF terminatePeerReInviteLocked, dialog
<1>2. ByeEnds'
  BY <1>1 DEF IInv, ByeEnds, ByeTaken
<1>3. ASSUME UNCHANGED peer PROVE IInv'
  <2>1. TypeOK' /\ Marked' /\ Offering' /\ Acking'
    BY <1>1, <1>3, ZenonT(60) DEF dialog, updates, IInv, TypeOK, Marked, OwnOut, Offering, Acking
  <2>2. Closing' /\ SocketsOK(med', Early, Forked, MediaDown')
    BY <1>1, OpenFacts, ClosingKept
  <2> QED BY <1>1, <1>2, <1>3, <2>1, <2>2, OtherInv
<1>4. peer \in [Peers -> Peer]
  BY DEF IInv, TypeOK
<1>5. ASSUME NEW p \in Peers, p \in PendingReInvite,
             SetPeer(p, [peer[p] EXCEPT !.answered = TRUE, !.finals = Append(@, 487)])
      PROVE  IInv'
  <2> DEFINE s == peer[p]
             f == Append(s.finals, 487)
             r == [s EXCEPT !.answered = TRUE, !.finals = f]
  <2>1. s \in Peer /\ ~s.answered /\ s.pc \in Pending
    BY <1>5, PeerFacts DEF PendingReInvite
  <2>2. f \in Seq(Codes) /\ Len(f) = Len(s.finals) + 1
    BY <2>1, CodeFacts, FinalFacts DEF Peer
  <2>3. SetPeer(p, r)
    BY <1>5
  <2> HIDE DEF f
  <2>4. /\ r \in Peer /\ r.pc = s.pc /\ r.answered /\ Len(r.finals) = Len(s.finals) + 1
        /\ r.then = s.then /\ r.res = s.res /\ r.sent2xx = s.sent2xx /\ r.rtx = s.rtx
    BY <2>1, <2>2, Zenon DEF Peer
  <2> HIDE DEF r
  <2>5. StepOK(p, r)
    <3>1. ResponseOK(s)
      BY PeerFacts
    <3>2. /\ ~s.sent2xx /\ s.rtx = "none" /\ Len(s.finals) = 0
          /\ s.pc \notin Before /\ s.pc # "done"
      BY <2>1, <3>1 DEF ResponseOK, Before, Answered, Pending
    <3>3. Len(r.finals) = 1
      BY <2>4, <3>2, SMTT(30)
    <3>4. ResponseOK(r)
      BY <2>4, <3>1, <3>2, <3>3 DEF ResponseOK
    <3>5. (Updates(r) => Updates(s)) /\ (IsOffering(s) => IsOffering(r))
      BY <2>4 DEF Updates, IsOffering
    <3> QED BY <1>1, <2>4, <3>4, <3>5, StepKept DEF updates
  <2>6. /\ peer' \in [Peers -> Peer]
        /\ Serial' /\ Marked' /\ Responses' /\ Offering'
        /\ ~IsEarly(r) => Early' = Early \ {p}
        /\ IsEarly(r) /\ IsEarly(s) => Early' = Early
        /\ ~IsForked(r) => Forked' = Forked \ {p}
        /\ IsForked(r) => Forked' = Forked \cup {p}
    BY <1>1, <2>3, <2>4, <2>5, PeerControl, SMTT(30)
  <2>7. Early' = Early /\ Forked' = Forked
    <3>1. (IsEarly(r) <=> IsEarly(s)) /\ (IsForked(r) <=> IsForked(s))
      BY <2>4 DEF IsEarly, IsForked
    <3>2. (p \in Early <=> IsEarly(s)) /\ (p \in Forked <=> IsForked(s))
      BY Zenon DEF Early, Forked
    <3> QED BY <2>6, <3>1, <3>2
  <2>8. Sockets' /\ Closing' /\ Acking'
    BY <1>1, <2>7, ZenonT(40) DEF IInv, Sockets, MediaDown, Closing, Acking
  <2>9. TypeOK'
    BY <1>1, <2>6, Zenon DEF dialog, updates, IInv, TypeOK
  <2> QED BY <1>2, <2>6, <2>8, <2>9 DEF IInv
<1>6. CASE PendingReInvite = {}
  BY <1>3, <1>4, <1>6 DEF terminatePeerReInviteLocked
<1>7. CASE PendingReInvite # {}
  <2>1. PICK p \in Peers : PendingReInvite = {p}
    BY <1>7 DEF PendingReInvite
  <2>2. (peer' = [q \in Peers |-> IF q \in PendingReInvite
                   THEN [peer[q] EXCEPT !.answered = TRUE, !.finals = Append(@, 487)]
                   ELSE peer[q]])
        => SetPeer(p, [peer[p] EXCEPT !.answered = TRUE, !.finals = Append(@, 487)])
    BY <1>4, <2>1, ZenonT(40) DEF SetPeer
  <2> QED BY <1>3, <1>5, <2>1, <2>2, ZenonT(40) DEF terminatePeerReInviteLocked
<1> QED BY <1>6, <1>7

-----------------------------------------------------------------------------
(* The theorems *)

\* A confirmed call, with the session of its setup and no update.
LEMMA InitInv == Init => IInv
<1> SUFFICES ASSUME Init PROVE IInv
  OBVIOUS
<1>1. PICK scene \in Scenes :
        /\ peer = [p \in Peers |-> [NewPeer EXCEPT
              !.pc = IF p \in scene.absent THEN "absent" ELSE "idle", !.copies = scene.copies]]
        /\ own = [o \in Owns |->
              [pc |-> IF o \in scene.absent THEN "absent" ELSE "idle", tries |-> 0]]
        /\ acks = [k \in Acks |-> [NewAck EXCEPT
              !.pc = IF k \in scene.absent THEN "absent" ELSE "idle"]]
  BY ZenonT(40) DEF Init
<1>2. PICK a \in {"none", "open"} :
        med = [closed |-> FALSE, installed |-> Setup,
               on |-> [s \in Sessions |-> Setup],
               sock |-> [s \in Sessions |-> IF s = Setup THEN "open" ELSE "unbound"],
               agent |-> a, iceOwner |-> Nobody, released |-> 0]
  BY ZenonT(40) DEF Init
<1>3. /\ ended = FALSE /\ requestMu = Nobody /\ answerMu = FALSE /\ current = Nobody
      /\ remoteCSeq = 0 /\ updateDone = Nobody /\ mediaUpdating = FALSE
      /\ ackOffer = Nobody /\ target = Setup /\ bye = "none"
      /\ closer = [c \in Closers |-> NewCloser]
  BY Zenon DEF Init
<1>4. scene.copies \in Nat
  BY ScenesAssumption
<1>5. <<>> \in Seq(Codes) /\ Len(<<>>) = 0 /\ 200 \in Codes
  BY CodeFacts
<1>6. /\ peer \in [Peers -> Peer]
      /\ \A p \in Peers :
           /\ peer[p].pc \in {"absent", "idle"} /\ peer[p].then = "end"
           /\ ~peer[p].answered /\ ~peer[p].sent2xx /\ peer[p].rtx = "none"
           /\ Len(peer[p].finals) = 0
  <2> DEFINE e == <<>>
             c == 200
  <2>1. e \in Seq(Codes) /\ Len(e) = 0 /\ c \in Codes
    BY <1>5
  <2>2. NewPeer = [pc |-> "idle", kind |-> "offer", res |-> c, then |-> "end",
                   answered |-> FALSE, finals |-> e, sent2xx |-> FALSE,
                   acked |-> FALSE, rtx |-> "none", copies |-> 0, ackErr |-> FALSE]
    BY DEF NewPeer
  <2> HIDE DEF e, c
  <2> QED BY <1>1, <1>4, <2>1, <2>2, Zenon DEF Peer, PeerPcs, Kinds, Thens, Runs
<1>7. own \in [Owns -> Own] /\ \A o \in Owns : own[o].pc \in {"absent", "idle"}
  BY <1>1, ZenonT(40) DEF Own, OwnPcs
<1>8. acks \in [Acks -> Ack] /\ \A k \in Acks : acks[k].pc \in {"absent", "idle"}
  BY <1>1, ZenonT(40) DEF Ack, AckPcs, NewAck, Bodies
<1>9. closer \in [Closers -> Closer] /\ \A c \in Closers : closer[c].pc = "idle"
  BY <1>3 DEF NewCloser, Closer, CloserPcs
<1>10. /\ med \in Media
       /\ med.closed = FALSE /\ med.installed = Setup /\ med.agent \in {"none", "open"}
       /\ med.iceOwner = Nobody /\ med.released = 0
       /\ \A s \in Sessions : /\ med.on[s] = Setup
                              /\ med.sock[s] = "open" => s = Setup
  BY <1>2, SessionFacts DEF Media, Socks, Agents
<1>11. TypeOK
  BY <1>3, <1>6, <1>7, <1>8, <1>9, <1>10, ZenonT(40) DEF TypeOK
<1>12. Serial /\ Marked /\ Responses /\ Offering
  BY <1>3, <1>6, <1>7, SessionFacts DEF Serial, Marked, OwnOut, Responses, Offering, Inside,
     Pending, Before, Answered, Updates, ResponseOK
<1>13. Sockets
  <2>1. Forked = {} /\ Early \subseteq Peers /\ ~MediaDown
    BY <1>6, <1>9, <1>10, SMTT(30) DEF Forked, IsForked, Early, MediaDown
  <2> QED BY <1>10, <2>1, SessionFacts DEF Sockets, SocketsOK
<1>14. Closing /\ Acking /\ ByeEnds
  BY <1>3, <1>8, <1>9, <1>10 DEF Closing, Active, Acking, ByeEnds, ByeTaken
<1> QED BY <1>11, <1>12, <1>13, <1>14 DEF IInv

\* Every step keeps the invariant.
LEMMA NextInv == IInv /\ [Next]_vars => IInv'
<1> SUFFICES ASSUME IInv, [Next]_vars PROVE IInv'
  OBVIOUS
<1>1. CASE UNCHANGED vars
  <2>1. UNCHANGED <<dialog, locks, updates, peer, own, acks, bye, closer, med>>
    BY <1>1, ZenonT(60) DEF vars
  <2>2. TypeOK' /\ Marked' /\ Offering' /\ Acking' /\ ByeEnds'
    BY <2>1 DEF dialog, locks, updates, IInv, TypeOK, Marked, OwnOut, Offering, Acking,
       ByeEnds, ByeTaken
  <2>3. Closing' /\ SocketsOK(med', Early, Forked, MediaDown')
    BY <2>1, OpenFacts, ClosingKept, ZenonT(40)
  <2> QED BY <2>1, <2>2, <2>3, OtherInv DEF locks
<1>2. ASSUME NEW p \in Peers, ReInviteArrives(p) \/ PeerStep(p) \/ Retransmit(p)
      PROVE  IInv'
  BY <1>2, ArrivesInv, BeginInv, ReadInv, UpdateInv, UpdatedInv, RespondInv,
     AssociationEndInv, HangupInv, EndInv, HandledInv, StopInv, RetransmitInv DEF PeerStep
<1>3. ASSUME NEW k \in Acks, AckArrives(k) \/ AckStep(k) PROVE IInv'
  BY <1>3, AckArrivesInv, ApplyInv, AckedInv DEF AckStep
<1>4. ASSUME NEW o \in Owns, ReInvite(o) \/ OwnStep(o) \/ CtxEnds(o) PROVE IInv'
  BY <1>4, OwnInv
<1>5. ASSUME NEW c \in Closers, Close(c) \/ CloseStep(c) PROVE IInv'
  BY <1>5, CloseInv, CloseStepInv
<1>6. ASSUME ReadBye \/ terminatePeerReInviteLocked \/ Hangup PROVE IInv'
  BY <1>6, EndedInv, TerminateInv
<1> QED BY <1>1, <1>2, <1>3, <1>4, <1>5, <1>6 DEF Next

\* The invariant holds, however many re-INVITEs, ACKs and copies there are.
THEOREM UpdateInvariant == Spec => []IInv
BY InitInv, NextInv, PTL DEF Spec

\* One re-INVITE is out at a time, in either direction, however many each side sends
\* and whenever they cross (beginPeerMediaUpdate, beginOwnMediaUpdate).
THEOREM AlwaysExclusive == Spec => []ReInvitesExclusive
<1>1. IInv => ReInvitesExclusive
  <2> SUFFICES ASSUME IInv PROVE ReInvitesExclusive
    OBVIOUS
  <2>1. \A p \in Peers : PeerUpdates(p) => updateDone = p
    BY DEF IInv, Marked, PeerUpdates, Updates
  <2>2. \A o \in Owns : OwnOut(o) => updateDone = o
    BY DEF IInv, Marked
  <2> QED BY <2>1, <2>2, SessionFacts DEF ReInvitesExclusive
<1> QED BY <1>1, UpdateInvariant, PTL

\* Every re-INVITE of the peer's gets one final response, whoever gives it
\* (respondPeerReInvite, terminatePeerReInviteLocked).
THEOREM AlwaysOneResponse == Spec => []OneFinalResponse
<1>1. IInv => OneFinalResponse
  <2> SUFFICES ASSUME IInv, NEW p \in Peers
               PROVE  /\ Len(peer[p].finals) <= 1
                      /\ peer[p].pc = "done" =>
                           \/ Len(peer[p].finals) = 1
                           \/ peer[p].sent2xx /\ peer[p].rtx = "none"
    BY DEF OneFinalResponse
  <2>1. peer[p] \in Peer /\ ResponseOK(peer[p])
    BY PeerFacts
  <2>2. peer[p].answered \in BOOLEAN
    BY <2>1 DEF Peer
  <2>3. Len(peer[p].finals) = 0 \/ Len(peer[p].finals) = 1
    BY <2>1, <2>2, Zenon DEF ResponseOK
  <2>4. peer[p].pc = "done" =>
          \/ Len(peer[p].finals) = 1
          \/ peer[p].sent2xx /\ peer[p].rtx = "none"
    BY <2>1, Zenon DEF ResponseOK
  <2>5. Len(peer[p].finals) <= 1
    <3> DEFINE n == Len(peer[p].finals)
    <3>1. n = 0 \/ n = 1
      BY <2>3
    <3> HIDE DEF n
    <3>2. n <= 1
      BY <3>1
    <3> QED BY <3>2 DEF n
  <2> QED BY <2>4, <2>5, Zenon
<1> QED BY <1>1, UpdateInvariant, PTL

\* No socket, ICE agent or port is left behind or given back twice, whatever update is
\* in progress when the media is closed (DialogMedia.Close, replaceRTPSessionUnsafe,
\* discardForkUnsafe).
THEOREM AlwaysReturned == Spec => []NothingLeaks
<1>1. IInv => NothingLeaks
  <2> SUFFICES ASSUME IInv PROVE NothingLeaks
    OBVIOUS
  <2>1. SocketsOK(med, Early, Forked, MediaDown) /\ med.released \in Nat
    BY OpenFacts
  <2>2. \A s \in Forked : s \in Peers /\ peer[s].pc \in {"answering", "handshake", "dropping"}
    BY ZenonT(60) DEF Forked, IsForked
  <2>3. \A s \in Sessions : med.sock[s] = "open" =>
          (s = med.on[med.installed] /\ ~MediaDown) \/ s \in Forked
    BY <2>1, SMTT(30) DEF SocketsOK
  <2>4. med.released <= 1 /\ (med.released = 1 => med.agent # "open" /\ MediaDown)
    <3>1. med.released <= 1 /\ (med.released > 0 => med.agent # "open")
      BY Zenon DEF IInv, Closing
    <3>2. med.released > 0 => MediaDown
      BY Zenon DEF MediaDown
    <3>3. med.released = 1 => med.released > 0
      OBVIOUS
    <3> QED BY <3>1, <3>2, <3>3, Zenon
  <2>5. Setup \in Sessions /\ Setup \notin Forked
    BY <2>2, SessionFacts
  <2> QED BY <2>2, <2>3, <2>4, <2>5, Zenon DEF NothingLeaks
<1> QED BY <1>1, UpdateInvariant, PTL

\* In a dialog that has ended the handler of a re-INVITE sends no copy of its 2xx and no
\* final response but 481 or 487.
Quiet(p) ==
  /\ \A q \in Peers \ {p} : peer'[q] = peer[q]
  /\ peer'[p].copies = peer[p].copies
  /\ peer'[p].finals \in {peer[p].finals, Append(peer[p].finals, 481),
                          Append(peer[p].finals, 487)}

\* A response other than 200 appended to the responses of a handler adds no 200.
LEMMA AppendedNot200 ==
  ASSUME NEW S, NEW f \in Seq(S), NEW c \in S, c # 200,
         NEW i \in DOMAIN Append(f, c), Append(f, c)[i] = 200
  PROVE  i \in DOMAIN f /\ f[i] = 200
OBVIOUS

\* So no 2xx is new.
LEMMA QuietFacts ==
  ASSUME IInv, NEW p \in Peers, Quiet(p)
  PROVE  \A q \in Peers : peer'[q].copies = peer[q].copies /\ (Has2xx(q)' => Has2xx(q))
<1>1. peer[p].finals \in Seq(Codes)
  BY PeerFacts DEF Peer
<1> DEFINE f == peer[p].finals
<1>2. ASSUME NEW c \in Codes, c # 200,
             NEW i \in DOMAIN Append(f, c), Append(f, c)[i] = 200
      PROVE  i \in DOMAIN f /\ f[i] = 200
  BY <1>1, <1>2, AppendedNot200
<1>3. \A c \in {481, 487} : c \in Codes /\ c # 200
  BY CodeFacts, SMTT(30)
<1>4. Has2xx(p)' => Has2xx(p)
  <2> SUFFICES ASSUME NEW i \in DOMAIN peer'[p].finals, peer'[p].finals[i] = 200
               PROVE  \E j \in DOMAIN f : f[j] = 200
    BY DEF Has2xx
  <2>1. CASE peer'[p].finals = f
    BY <2>1
  <2>2. CASE \E c \in {481, 487} : peer'[p].finals = Append(f, c)
    BY <1>2, <1>3, <2>2
  <2> QED BY <2>1, <2>2 DEF Quiet
<1> QED BY <1>4 DEF Has2xx, Quiet

\* The handlers are quiet once the dialog has ended.
LEMMA EndedQuiet ==
  ASSUME IInv, ended, NEW p \in Peers, ReInviteArrives(p) \/ PeerStep(p) \/ Retransmit(p)
  PROVE  Quiet(p)
<1>1. peer \in [Peers -> Peer]
  BY DEF IInv, TypeOK
<1> DEFINE s == peer[p]
<1>2. ASSUME NEW r, SetPeer(p, r), r.copies = s.copies,
             r.finals \in {s.finals, Append(s.finals, 481), Append(s.finals, 487)}
      PROVE  Quiet(p)
  BY <1>1, <1>2 DEF SetPeer, Quiet
<1>3. s \in Peer
  BY <1>1
<1> HIDE DEF s
<1>4. ASSUME \/ \E k \in Kinds : SetPeer(p, [s EXCEPT !.pc = "waiting", !.kind = k])
             \/ \E pc : SetPeer(p, [s EXCEPT !.pc = pc])
             \/ \E code, then :
                  SetPeer(p, [s EXCEPT !.pc = "answering", !.res = code, !.then = then])
             \/ SetPeer(p, [s EXCEPT !.rtx = "done"])
             \/ SetPeer(p, [s EXCEPT !.rtx = "done", !.ackErr = TRUE])
      PROVE  Quiet(p)
  BY <1>2, <1>3, <1>4, ZenonT(40) DEF Peer
<1>5. ASSUME SetPeer(p, [s EXCEPT !.pc = "done", !.finals = Append(@, 481)])
      PROVE  Quiet(p)
  BY <1>2, <1>3, <1>5, ZenonT(40) DEF Peer
<1>6. ASSUME AnswerNotSent(p) PROVE Quiet(p)
  <2> DEFINE f == IF s.answered THEN s.finals ELSE Append(s.finals, 487)
             pc == IF s.then = "assoc" THEN "dropping" ELSE "ending"
             r == [s EXCEPT !.answered = TRUE, !.finals = f, !.pc = pc]
  <2>1. SetPeer(p, r)
    BY <1>6 DEF AnswerNotSent, s
  <2>2. f \in {s.finals, Append(s.finals, 481), Append(s.finals, 487)}
    OBVIOUS
  <2> HIDE DEF f, pc
  <2>3. r.copies = s.copies /\ r.finals = f
    BY <1>3 DEF Peer
  <2> HIDE DEF r
  <2> QED BY <1>2, <2>1, <2>2, <2>3
<1>7. CASE ReInviteArrives(p)
  BY <1>4, <1>7, Zenon DEF ReInviteArrives, s
<1>8. CASE beginPeerReInvite(p)
  BY <1>5, <1>8 DEF beginPeerReInvite, s
<1>9. CASE ReadReInvite(p) \/ handleMediaUpdate(p) \/ mediaUpdatedUnsafe(p)
  <2>1. \/ \E code, then : Answers(p, code, then)
        \/ \E pc : SetPeer(p, [peer[p] EXCEPT !.pc = pc])
    BY <1>9, ZenonT(40) DEF ReadReInvite, beginPeerMediaUpdate,
       handleMediaUpdate, mediaUpdatedUnsafe
  <2> QED BY <1>4, <2>1, Zenon DEF Answers, s
<1>10. CASE respondPeerReInvite(p)
  BY <1>6, <1>10 DEF respondPeerReInvite, MaySend
<1>11. CASE \/ answerNewAssociation(p) \/ AssociationDropped(p) \/ hangupNoMedia(p)
            \/ endPeerReInvite(p) \/ ReInviteHandled(p)
  BY <1>4, <1>11, Zenon DEF answerNewAssociation, AssociationDropped, hangupNoMedia,
     endPeerReInvite, ReInviteHandled, s
<1>12. CASE StopRetransmit(p) \/ Retransmit(p)
  BY <1>4, <1>12, Zenon DEF StopRetransmit, Retransmit, MayRetransmit, s
<1> QED BY <1>7, <1>8, <1>9, <1>10, <1>11, <1>12 DEF PeerStep

\* No 2xx to a re-INVITE, and no copy of one, follows a BYE that was taken, whatever
\* was being negotiated or retransmitted (ReadBye, retransmitReInvite2xx).
THEOREM NoneAfterBye == Spec => NoSuccessAfterBye
<1> DEFINE A == ByeTaken => \A p \in Peers : /\ peer'[p].copies = peer[p].copies
                                             /\ (Has2xx(p)' => Has2xx(p))
<1>1. IInv /\ [Next]_vars => [A]_vars
  <2> SUFFICES ASSUME IInv, Next, ByeTaken
               PROVE  \A p \in Peers : /\ peer'[p].copies = peer[p].copies
                                       /\ (Has2xx(p)' => Has2xx(p))
    OBVIOUS
  <2>1. ended
    BY DEF IInv, ByeEnds
  <2>2. ASSUME UNCHANGED peer
        PROVE  \A p \in Peers : /\ peer'[p].copies = peer[p].copies
                                /\ (Has2xx(p)' => Has2xx(p))
    BY <2>2 DEF Has2xx
  <2>3. ASSUME NEW p \in Peers, ReInviteArrives(p) \/ PeerStep(p) \/ Retransmit(p)
        PROVE  \A q \in Peers : /\ peer'[q].copies = peer[q].copies
                                /\ (Has2xx(q)' => Has2xx(q))
    BY <2>1, <2>3, EndedQuiet, QuietFacts
  <2>4. ASSUME NEW k \in Acks, AckArrives(k) \/ AckStep(k)
        PROVE  \A q \in Peers : /\ peer'[q].copies = peer[q].copies
                                /\ (Has2xx(q)' => Has2xx(q))
    <3>1. CASE ackPeerReInvite(k)
      <4>1. acks[k].of \in Peers /\ peer \in [Peers -> Peer]
        BY <3>1 DEF ackPeerReInvite, IInv, Acking, TypeOK
      <4>2. Quiet(acks[k].of)
        BY <3>1, <4>1 DEF ackPeerReInvite, SetPeer, Quiet, Peer
      <4> QED BY <4>1, <4>2, QuietFacts
    <3>2. CASE AckArrives(k) \/ applyAckAnswer(k) \/ AckHangup(k)
      BY <2>2, <3>2, ZenonT(40) DEF AckArrives, applyAckAnswer, AckHangup
    <3> QED BY <2>4, <3>1, <3>2, ZenonT(40) DEF AckStep
  <2>5. CASE terminatePeerReInviteLocked
    <3>1. peer \in [Peers -> Peer]
      BY DEF IInv, TypeOK
    <3>2. CASE PendingReInvite = {}
      BY <2>2, <2>5, <3>1, <3>2 DEF terminatePeerReInviteLocked
    <3>3. CASE PendingReInvite # {}
      <4>1. PICK p \in Peers : PendingReInvite = {p}
        BY <3>3, SMTT(30) DEF PendingReInvite
      <4>2. Quiet(p) \/ UNCHANGED peer
        <5> DEFINE f == Append(peer[p].finals, 487)
        <5>1. \/ UNCHANGED peer
              \/ /\ \A q \in Peers \ {p} : peer'[q] = peer[q]
                 /\ peer'[p] = [peer[p] EXCEPT !.answered = TRUE, !.finals = f]
          BY <2>5, <4>1, Zenon DEF terminatePeerReInviteLocked
        <5> HIDE DEF f
        <5>2. \/ UNCHANGED peer
              \/ /\ \A q \in Peers \ {p} : peer'[q] = peer[q]
                 /\ peer'[p].copies = peer[p].copies /\ peer'[p].finals = f
          BY <3>1, <5>1, ZenonT(60) DEF Peer
        <5> QED BY <5>2 DEF Quiet, f
      <4> QED BY <2>2, <4>2, QuietFacts
    <3> QED BY <3>2, <3>3
  <2>6. ASSUME NEW o \in Owns, ReInvite(o) \/ OwnStep(o) \/ CtxEnds(o) PROVE UNCHANGED peer
    BY <2>6 DEF ReInvite, OwnStep, CtxEnds, beginOwnMediaUpdate, reInviteSend,
       reInviteMediaOnce, endMediaUpdate, reInviteRetryWait
  <2>7. ASSUME \/ \E c \in Closers : Close(c) \/ CloseStep(c)
               \/ ReadBye \/ Hangup
        PROVE  UNCHANGED peer
    BY <2>7, Zenon DEF Close, CloseStep, ReadBye, Hangup
  <2> QED BY <2>2, <2>3, <2>4, <2>5, <2>6, <2>7 DEF Next
<1> QED BY <1>1, UpdateInvariant, PTL DEF Spec, NoSuccessAfterBye

=============================================================================
