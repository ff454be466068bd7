--------------------------- MODULE MediaUpdateInv ---------------------------
(***************************************************************************)
(* The inductive invariant of MediaUpdate, and the steps that keep it and  *)
(* leave the media alone: what a handler does under requestMu before and   *)
(* after its update, the final responses and the retransmission.           *)
(***************************************************************************)
EXTENDS MediaUpdate, TLAPS

-----------------------------------------------------------------------------
(* The inductive invariant *)

Before == {"absent", "idle", "waiting"}
\* The handler holds requestMu; until endPeerReInvite it is peerReInvite.
Pending == {"reading", "updating", "updated", "answering", "handshake",
            "dropping", "hangup", "ending"}
Inside == Pending \cup {"ackhangup", "unmarking"}
Answered == {"handshake", "dropping", "hangup", "ending", "ackhangup", "unmarking"}

Serial ==
  \A p \in Peers : /\ peer[p].pc \in Inside <=> requestMu = p
                   /\ peer[p].pc \in Pending <=> current = p

\* A re-INVITE that has begun its update is the one that is marked.
Updates(r) ==
  \/ r.pc \in {"updating", "updated", "handshake", "dropping", "hangup"}
  \/ r.pc = "answering" /\ (r.res = 200 \/ r.then # "end")
  \/ r.rtx = "running"

Marked ==
  /\ \A p \in Peers : Updates(peer[p]) => updateDone = p
  /\ \A o \in Owns : OwnOut(o) => updateDone = o

\* What a handler has sent, by where it is.
ResponseOK(r) ==
  /\ r.pc \in Before => ~r.answered
  /\ r.pc \in Answered => r.answered
  /\ r.pc = "answering" /\ r.then # "end" => r.res = 200
  /\ r.sent2xx => r.pc \in Answered \cup {"done"}
  /\ r.rtx = "running" => r.pc \in {"handshake", "hangup", "ending"}
  /\ r.rtx # "none" => r.sent2xx /\ Len(r.finals) = 1
  /\ ~r.answered /\ r.pc # "done" => Len(r.finals) = 0
  /\ r.answered \/ r.pc = "done" =>
       Len(r.finals) = 1 \/ (Len(r.finals) = 0 /\ r.sent2xx /\ r.rtx = "none")

Responses == \A p \in Peers : ResponseOK(peer[p])

\* An offer in a 2xx is of a re-INVITE that had none.
IsOffering(r) ==
  /\ r.then = "offer"
  /\ r.pc \in {"answering", "ending", "ackhangup", "unmarking", "done"}
Offering == \A p \in Peers : ackOffer = p => IsOffering(peer[p])

\* The re-INVITEs that have made no session yet, and those whose fork on sockets of
\* its own is to be installed or discarded.
IsEarly(r) == r.pc \in Before \cup {"reading", "updating"}
IsForked(r) ==
  r.pc \in {"handshake", "dropping"} \/ (r.pc = "answering" /\ r.then = "assoc")
Early == {p \in Peers : IsEarly(peer[p])}
Forked == {p \in Peers : IsForked(peer[p])}

\* The media sessions m, given those re-INVITEs and whether the media is down.
SocketsOK(m, early, forked, down) ==
  /\ m.on[Setup] = Setup
  /\ \A p \in early : m.installed # p /\ \A s \in Sessions : m.on[s] # p
  /\ \A p \in forked : /\ m.agent = "none" /\ m.installed # p /\ m.on[p] = p
                       /\ \A s \in Sessions \ {p} : m.on[s] # p
  /\ m.agent # "none" => \A s \in Sessions : m.on[s] = Setup
  /\ m.agent = "none" => m.iceOwner = Nobody
  /\ \A s \in Sessions : m.sock[s] = "open" =>
       (s = m.on[m.installed] /\ ~down) \/ s \in forked

Sockets == SocketsOK(med, Early, Forked, MediaDown)

\* One call of Close closes, and it closes what was installed and the agent.
Active == {"closing", "owner", "releasing"}
Closing ==
  /\ med.iceOwner \in {Setup, Nobody} /\ med.released <= 1
  /\ ~med.closed =>
       /\ med.released = 0 /\ \A c \in Closers : closer[c].pc = "idle"
       /\ med.agent = "open" => med.installed = Setup \/ med.iceOwner = Setup
  /\ \A c \in Closers : closer[c].pc \in Active =>
       /\ closer[c].media = med.installed /\ med.released = 0
       /\ \A d \in Closers \ {c} : closer[d].pc \notin Active
  /\ \A c \in Closers :
       /\ closer[c].pc = "closing" /\ med.agent = "open" =>
            Setup \in {closer[c].media, closer[c].owner}
       /\ closer[c].pc = "owner" => closer[c].owner \in Sessions
       /\ closer[c].pc = "owner" /\ med.agent = "open" => closer[c].owner = Setup
       /\ closer[c].pc = "releasing" => med.agent # "open"
  /\ med.released > 0 => med.agent # "open"

\* The ACK being handled is of a re-INVITE, and a BYE that was taken ends the dialog.
Acking == \A k \in Acks : acks[k].pc \notin {"absent", "idle"} => acks[k].of \in Peers
ByeEnds == ByeTaken => ended

IInv == /\ TypeOK /\ Serial /\ Marked /\ Responses /\ Offering
        /\ Sockets /\ Closing /\ Acking /\ ByeEnds
-----------------------------------------------------------------------------
(* The media sessions.  The sockets stay sound under each function of med. *)

\* Setup and Nobody are no re-INVITEs, and only the peer's rebind.
LEMMA SessionFacts ==
  /\ Setup \in Sessions /\ Peers \subseteq Sessions /\ Owns \subseteq Sessions
  /\ Setup \notin Peers /\ Setup \notin Owns /\ Nobody \notin Sessions
  /\ \A p \in Peers : p \notin Owns /\ p # Nobody
BY RequestsAssumption DEF Sessions

\* MediaSession.Close closes the sockets it runs on, and the agent if it made it.
LEMMA CloseFacts ==
  ASSUME NEW m \in Media, NEW s \in Sessions
  PROVE  LET n == CloseSession(m, s) IN
         /\ n \in Media
         /\ n.closed = m.closed /\ n.installed = m.installed /\ n.on = m.on
         /\ n.iceOwner = m.iceOwner /\ n.released = m.released
         /\ n.agent = "none" <=> m.agent = "none"
         /\ n.agent = "open" <=> m.agent = "open" /\ s # Setup
         /\ \A t \in Sessions : n.sock[t] = "open" <=> m.sock[t] = "open" /\ t # m.on[s]
<1> USE DEF Media, CloseSession, Socks, Agents
<1>1. m.on[s] \in Sessions /\ m.agent \in Agents
  OBVIOUS
<1>2. CloseSession(m, s).sock = [m.sock EXCEPT ![m.on[s]] = "closed"]
  OBVIOUS
<1>3. CloseSession(m, s) \in Media
  BY <1>1, Zenon
<1> QED BY <1>1, <1>2, <1>3

\* A fork runs on the sockets of the installed session.
LEMMA ForkFacts ==
  ASSUME NEW m \in Media, NEW f \in Sessions
  PROVE  LET n == Fork(m, f) IN
         /\ n \in Media
         /\ n.closed = m.closed /\ n.installed = m.installed /\ n.sock = m.sock
         /\ n.iceOwner = m.iceOwner /\ n.released = m.released /\ n.agent = m.agent
         /\ n.on[f] = m.on[m.installed]
         /\ \A t \in Sessions \ {f} : n.on[t] = m.on[t]
BY DEF Media, Fork

\* A fork for a new association binds sockets of its own.
LEMMA RebindFacts ==
  ASSUME NEW m \in Media, NEW f \in Sessions
  PROVE  LET n == Rebind(m, f) IN
         /\ n \in Media
         /\ n.closed = m.closed /\ n.installed = m.installed
         /\ n.iceOwner = m.iceOwner /\ n.released = m.released /\ n.agent = m.agent
         /\ n.on[f] = f /\ n.sock[f] = "open"
         /\ \A t \in Sessions \ {f} : n.on[t] = m.on[t] /\ n.sock[t] = m.sock[t]
BY Zenon DEF Media, Rebind, Socks

\* Forking leaves the sockets sound (MediaSession.Fork).
LEMMA ForkSockets ==
  ASSUME NEW m \in Media, NEW early \in SUBSET Peers, NEW forked \in SUBSET Peers,
         NEW down \in BOOLEAN, SocketsOK(m, early, forked, down),
         NEW f \in Peers \cup Owns, f \notin forked
  PROVE  SocketsOK(Fork(m, f), early, forked, down)
<1>1. m.installed \in Sessions /\ f \in Sessions /\ f # Setup
  BY SessionFacts DEF Media
<1> DEFINE n == Fork(m, f)
<1>2. /\ n.installed = m.installed /\ n.sock = m.sock
      /\ n.iceOwner = m.iceOwner /\ n.agent = m.agent
      /\ n.on[f] = m.on[m.installed]
      /\ \A t \in Sessions \ {f} : n.on[t] = m.on[t]
  BY <1>1, ForkFacts
<1>3. n.on[m.installed] = m.on[m.installed]
  BY <1>1, <1>2
<1> HIDE DEF n
<1>4. SocketsOK(n, early, forked, down)
  BY <1>1, <1>2, <1>3, SessionFacts DEF SocketsOK
<1> QED BY <1>4 DEF n

\* A new association's fork is the only session on its sockets
\* (MediaSession.rebindFork).
LEMMA RebindSockets ==
  ASSUME NEW m \in Media, NEW early \in SUBSET Peers, NEW forked \in SUBSET Peers,
         NEW down \in BOOLEAN, SocketsOK(m, early, forked, down),
         NEW f \in early, f \notin forked, m.agent = "none"
  PROVE  SocketsOK(Rebind(m, f), early \ {f}, forked \cup {f}, down)
<1>1. m.installed \in Sessions /\ f \in Sessions /\ f # Setup
  BY SessionFacts DEF Media
<1> DEFINE n == Rebind(m, f)
<1>2. /\ n.installed = m.installed /\ n.iceOwner = m.iceOwner /\ n.agent = m.agent
      /\ n.on[f] = f
      /\ \A t \in Sessions \ {f} : n.on[t] = m.on[t] /\ n.sock[t] = m.sock[t]
  BY <1>1, RebindFacts
<1> HIDE DEF n
<1>3. SocketsOK(n, early \ {f}, forked \cup {f}, down)
  BY <1>1, <1>2, SessionFacts DEF SocketsOK
<1> QED BY <1>3 DEF n

\* What an update that ends closes was its own (discardForkUnsafe).
LEMMA DiscardSockets ==
  ASSUME NEW m \in Media, NEW early \in SUBSET Peers, NEW forked \in SUBSET Peers,
         NEW down \in BOOLEAN, SocketsOK(m, early, forked, down),
         NEW f \in Peers \cup Owns
  PROVE  LET n == discardForkUnsafe(m, f) IN
         /\ n \in Media
         /\ n.closed = m.closed /\ n.installed = m.installed
         /\ n.iceOwner = m.iceOwner /\ n.released = m.released /\ n.agent = m.agent
         /\ SocketsOK(n, early, forked \ {f}, down)
<1> DEFINE n == discardForkUnsafe(m, f)
<1>1. m.installed \in Sessions /\ f \in Sessions /\ f # Setup /\ m.agent \in Agents
  BY SessionFacts DEF Media
<1>2. CASE m.on[m.installed] = m.on[f]
  <2>1. n = m
    BY <1>2 DEF discardForkUnsafe, SameSockets
  <2>2. f \notin forked
    BY <1>1, <1>2, SessionFacts DEF SocketsOK
  <2> QED BY <2>1, <2>2, forked \ {f} = forked
<1>3. CASE m.on[m.installed] # m.on[f]
  <2>1. n = CloseSession(m, f)
    BY <1>3 DEF discardForkUnsafe, SameSockets
  <2>2. /\ n \in Media
        /\ n.closed = m.closed /\ n.installed = m.installed /\ n.on = m.on
        /\ n.iceOwner = m.iceOwner /\ n.released = m.released
        /\ n.agent = "none" <=> m.agent = "none"
        /\ n.agent = "open" <=> m.agent = "open"
        /\ \A t \in Sessions : n.sock[t] = "open" <=> m.sock[t] = "open" /\ t # m.on[f]
    BY <1>1, <2>1, CloseFacts
  <2>3. n.agent = m.agent
    BY <1>1, <2>2 DEF Media, Agents
  <2> HIDE DEF n
  <2>4. SocketsOK(n, early, forked \ {f}, down)
    BY <1>1, <2>2, <2>3, SessionFacts DEF SocketsOK
  <2> QED BY <2>2, <2>3, <2>4 DEF n
<1> QED BY <1>2, <1>3

\* A fork is installed, and the sockets it leaves are closed, while the agent goes on
\* (replaceRTPSessionUnsafe).
LEMMA ReplaceSockets ==
  ASSUME NEW m \in Media, NEW early \in SUBSET Peers, NEW forked \in SUBSET Peers,
         NEW down \in BOOLEAN, ~down, SocketsOK(m, early, forked, down),
         m.iceOwner \in {Setup, Nobody},
         NEW f \in Peers \cup Owns
  PROVE  LET n == replaceRTPSessionUnsafe(m, f) IN
         /\ n \in Media
         /\ n.closed = m.closed /\ n.installed = f
         /\ n.released = m.released /\ n.agent = m.agent
         /\ n.iceOwner \in {Setup, Nobody}
         /\ m.agent = "open" /\ Setup \in {m.installed, m.iceOwner} =>
              n.iceOwner = Setup
         /\ SocketsOK(n, early \ {f}, forked \ {f}, down)
<1> DEFINE n == replaceRTPSessionUnsafe(m, f)
           kept == KeptOwner(m, f)
           w == [m EXCEPT !.iceOwner = kept, !.installed = f]
<1>1. m.installed \in Sessions /\ f \in Sessions /\ f # Setup /\ m.agent \in Agents
  BY SessionFacts DEF Media
<1>2. /\ kept \in {Setup, Nobody} /\ (m.agent = "none" => kept = Nobody)
      /\ m.agent = "open" /\ Setup \in {m.installed, m.iceOwner} => kept = Setup
  BY <1>1, SessionFacts DEF KeptOwner, SocketsOK
<1>3. /\ w \in Media
      /\ w.closed = m.closed /\ w.installed = f /\ w.on = m.on /\ w.sock = m.sock
      /\ w.iceOwner = kept /\ w.released = m.released /\ w.agent = m.agent
  BY <1>1, <1>2, SessionFacts, Zenon DEF Media
<1> HIDE DEF kept
<1>4. CASE m.on[m.installed] = m.on[f]
  <2>1. n = w
    BY <1>4 DEF replaceRTPSessionUnsafe, ReplacesSockets, SameSockets, kept
  <2>2. f \notin forked
    BY <1>1, <1>4, SessionFacts DEF SocketsOK
  <2> HIDE DEF w
  <2>3. SocketsOK(w, early \ {f}, forked \ {f}, down)
    BY <1>1, <1>2, <1>3, <1>4, <2>2, SessionFacts DEF SocketsOK
  <2> QED BY <1>2, <1>3, <2>1, <2>3
<1>5. CASE m.on[m.installed] # m.on[f]
  <2>1. m.agent = "none"
    BY <1>1, <1>5 DEF SocketsOK
  <2>2. m.installed # kept
    BY <1>1, <1>2, <2>1, SessionFacts
  <2>3. n = CloseSession(w, m.installed)
    BY <1>5, <2>2 DEF replaceRTPSessionUnsafe, ReplacesSockets, SameSockets, kept
  <2> HIDE DEF w, n
  <2>4. /\ n \in Media
        /\ n.closed = w.closed /\ n.installed = w.installed /\ n.on = w.on
        /\ n.iceOwner = w.iceOwner /\ n.released = w.released /\ n.agent = "none"
        /\ \A t \in Sessions : n.sock[t] = "open" <=>
             w.sock[t] = "open" /\ t # w.on[m.installed]
    <3>1. ASSUME NEW u \in Media, NEW o \in Sessions, NEW c, c = CloseSession(u, o)
          PROVE  /\ c \in Media
                 /\ c.closed = u.closed /\ c.installed = u.installed /\ c.on = u.on
                 /\ c.iceOwner = u.iceOwner /\ c.released = u.released
                 /\ c.agent = "none" <=> u.agent = "none"
                 /\ \A t \in Sessions : c.sock[t] = "open" <=>
                      u.sock[t] = "open" /\ t # u.on[o]
      BY <3>1, CloseFacts
    <3>2. w \in Media
      BY <1>3
    <3>3. m.installed \in Sessions
      BY <1>1
    <3>4. n = CloseSession(w, m.installed)
      BY <2>3
    <3>5. w.agent = "none"
      BY <1>3, <2>1
    <3> QED BY <3>1, <3>2, <3>3, <3>4, <3>5
  <2>5. /\ n.installed = f /\ n.on = m.on /\ n.iceOwner = Nobody
        /\ \A t \in Sessions : n.sock[t] = "open" =>
             m.sock[t] = "open" /\ t # m.on[m.installed]
    BY <1>2, <1>3, <2>1, <2>4
  <2>6. \A t \in Sessions : n.sock[t] = "open" => t = n.on[f] \/ t \in forked \ {f}
    BY <1>1, <2>5 DEF SocketsOK
  <2>7. \A p \in forked \ {f} : f # p /\ m.on[p] = p /\ \A t \in Sessions \ {p} : m.on[t] # p
    BY DEF SocketsOK
  <2>8. SocketsOK(n, early \ {f}, forked \ {f}, down)
    BY <1>1, <2>1, <2>4, <2>5, <2>6, <2>7 DEF SocketsOK
  <2> QED BY <1>2, <1>3, <2>1, <2>4, <2>8 DEF n
<1> QED BY <1>4, <1>5

\* DialogMedia.Close closes the installed session, which takes the media down, or the
\* session that made the agent.
LEMMA CloseSockets ==
  ASSUME NEW m \in Media, NEW early \in SUBSET Peers, NEW forked \in SUBSET Peers,
         NEW down \in BOOLEAN, NEW after \in BOOLEAN,
         SocketsOK(m, early, forked, down),
         NEW s \in Sessions, after => down \/ s = m.installed
  PROVE  SocketsOK(CloseSession(m, s), early, forked, after)
<1> DEFINE n == CloseSession(m, s)
<1>1. /\ n.installed = m.installed /\ n.on = m.on /\ n.iceOwner = m.iceOwner
      /\ n.agent = "none" <=> m.agent = "none"
      /\ \A t \in Sessions : n.sock[t] = "open" <=> m.sock[t] = "open" /\ t # m.on[s]
  BY CloseFacts
<1> HIDE DEF n
<1>2. SocketsOK(n, early, forked, after)
  BY <1>1 DEF SocketsOK
<1> QED BY <1>2 DEF n

-----------------------------------------------------------------------------
(* A step of the handler of one re-INVITE, which leaves it as r.           *)

\* The handler takes and gives up only its own locks, mark and offer.
StepOK(p, r) ==
  /\ requestMu' \in Peers \cup {Nobody} /\ current' \in Peers \cup {Nobody}
  /\ updateDone' \in Peers \cup Owns \cup {Nobody} /\ ackOffer' \in Peers \cup {Nobody}
  /\ r.pc \in Inside <=> requestMu' = p
  /\ r.pc \in Pending <=> current' = p
  /\ \A q \in Peers \ {p} : /\ requestMu' = q <=> requestMu = q
                            /\ current' = q <=> current = q
  /\ Updates(r) => updateDone' = p
  /\ \A x \in (Peers \cup Owns) \ {p} : updateDone = x => updateDone' = x
  /\ \A q \in Peers \ {p} : ackOffer' = q => ackOffer = q
  /\ ackOffer' = p => IsOffering(r)
  /\ ResponseOK(r)

\* Such a step keeps what relates the handlers, the locks and the responses.
LEMMA PeerControl ==
  ASSUME IInv, NEW p \in Peers, NEW r \in Peer, SetPeer(p, r), StepOK(p, r), own' = own
  PROVE  /\ peer' \in [Peers -> Peer]
         /\ Serial' /\ Marked' /\ Responses' /\ Offering'
         /\ ~IsEarly(r) => Early' = Early \ {p}
         /\ IsEarly(r) /\ IsEarly(peer[p]) => Early' = Early
         /\ ~IsForked(r) => Forked' = Forked \ {p}
         /\ IsForked(r) => Forked' = Forked \cup {p}
<1>1. peer \in [Peers -> Peer] /\ peer' = [peer EXCEPT ![p] = r]
  BY DEF IInv, TypeOK, SetPeer
<1>2. peer' \in [Peers -> Peer] /\ peer'[p] = r /\ \A q \in Peers \ {p} : peer'[q] = peer[q]
  BY <1>1
<1>3. Serial'
  BY <1>2 DEF IInv, Serial, StepOK
<1>4. Marked'
  <2>1. \A q \in Peers : Updates(peer'[q]) => updateDone' = q
    BY <1>2 DEF IInv, Marked, StepOK
  <2>2. \A o \in Owns : OwnOut(o)' => updateDone' = o
    BY SessionFacts DEF IInv, Marked, StepOK, OwnOut
  <2> QED BY <2>1, <2>2 DEF Marked, Updates
<1>5. Responses'
  BY <1>2 DEF IInv, Responses, StepOK, ResponseOK
<1>6. Offering'
  BY <1>2 DEF IInv, Offering, StepOK, IsOffering
<1>7. /\ ~IsEarly(r) => Early' = Early \ {p}
      /\ IsEarly(r) /\ IsEarly(peer[p]) => Early' = Early
  BY <1>2 DEF Early, IsEarly
<1>8. /\ ~IsForked(r) => Forked' = Forked \ {p}
      /\ IsForked(r) => Forked' = Forked \cup {p}
  BY <1>2 DEF Forked, IsForked
<1> QED BY <1>2, <1>3, <1>4, <1>5, <1>6, <1>7, <1>8

\* And one that leaves the media alone keeps the invariant.
LEMMA PeerOnly ==
  ASSUME IInv, NEW p \in Peers, NEW r \in Peer, SetPeer(p, r), StepOK(p, r),
         UNCHANGED <<own, acks, bye, closer, med>>,
         ended' \in BOOLEAN, answerMu' \in BOOLEAN, mediaUpdating' \in BOOLEAN,
         remoteCSeq' \in Peers \cup {0}, target' \in {Setup} \cup Peers \cup Owns,
         ended => ended', IsEarly(r) => IsEarly(peer[p]),
         IsForked(r) <=> IsForked(peer[p])
  PROVE  IInv'
<1>1. /\ peer' \in [Peers -> Peer]
      /\ Serial' /\ Marked' /\ Responses' /\ Offering'
      /\ ~IsEarly(r) => Early' = Early \ {p}
      /\ IsEarly(r) /\ IsEarly(peer[p]) => Early' = Early
      /\ ~IsForked(r) => Forked' = Forked \ {p}
      /\ IsForked(r) => Forked' = Forked \cup {p}
  BY PeerControl
<1>2. TypeOK'
  BY <1>1 DEF IInv, TypeOK, StepOK
<1>3. Sockets'
  <2>1. Early' \subseteq Early /\ Forked' = Forked /\ MediaDown' = MediaDown
    BY <1>1 DEF Forked, MediaDown
  <2> QED BY <2>1 DEF IInv, Sockets, SocketsOK
<1>4. Closing' /\ Acking' /\ ByeEnds'
  BY DEF IInv, Closing, Acking, ByeEnds, ByeTaken
<1> QED BY <1>1, <1>2, <1>3, <1>4 DEF IInv

-----------------------------------------------------------------------------
(* The handlers of re-INVITEs, where they leave the media alone.           *)

\* What the invariant says of one handler.
LEMMA PeerFacts ==
  ASSUME IInv, NEW p \in Peers
  PROVE  /\ peer[p] \in Peer /\ ResponseOK(peer[p])
         /\ peer[p].pc \in Inside <=> requestMu = p
         /\ peer[p].pc \in Pending <=> current = p
         /\ Updates(peer[p]) => updateDone = p
         /\ ackOffer = p => IsOffering(peer[p])
         /\ requestMu \in Peers \cup {Nobody} /\ current \in Peers \cup {Nobody}
         /\ updateDone \in Peers \cup Owns \cup {Nobody}
         /\ ackOffer \in Peers \cup {Nobody}
         /\ ended \in BOOLEAN /\ answerMu \in BOOLEAN /\ mediaUpdating \in BOOLEAN
         /\ remoteCSeq \in Peers \cup {0} /\ target \in {Setup} \cup Peers \cup Owns
         /\ p # Nobody /\ p \notin Owns
BY SessionFacts DEF IInv, TypeOK, Serial, Marked, Responses, Offering

\* A step that leaves the locks and the mark alone, with the handler where it was.
LEMMA StepKept ==
  ASSUME IInv, NEW p \in Peers, NEW r, ResponseOK(r), UNCHANGED <<requestMu, current>>,
         UNCHANGED updateDone, UNCHANGED ackOffer,
         r.pc \in Inside <=> peer[p].pc \in Inside,
         r.pc \in Pending <=> peer[p].pc \in Pending,
         Updates(r) => Updates(peer[p]), IsOffering(peer[p]) => IsOffering(r)
  PROVE  StepOK(p, r)
BY PeerFacts DEF StepOK

\* A handler that is where it was has sent what it had.
LEMMA ResponseKept ==
  ASSUME NEW s, NEW r, ResponseOK(s), r.pc = s.pc, r.then = s.then, r.res = s.res,
         r.answered = s.answered, r.finals = s.finals, r.sent2xx = s.sent2xx, r.rtx = s.rtx
  PROVE  /\ ResponseOK(r) /\ (Updates(r) <=> Updates(s))
         /\ (IsOffering(r) <=> IsOffering(s)) /\ (IsEarly(r) <=> IsEarly(s))
         /\ (IsForked(r) <=> IsForked(s))
BY DEF ResponseOK, Updates, IsOffering, IsEarly, IsForked

\* The codes sent, and whether they are a success.
LEMMA CodeFacts ==
  /\ {200, 481, 487, 488, 491} \subseteq Codes
  /\ Refusal \in Codes /\ Refusal # 200
BY DEF Codes, Refusal

\* A final response is one more.
LEMMA FinalFacts ==
  ASSUME NEW f \in Seq(Codes), NEW c \in Codes
  PROVE  /\ Append(f, c) \in Seq(Codes) /\ Len(Append(f, c)) = Len(f) + 1
         /\ Len(f) \in Nat
OBVIOUS

\* A re-INVITE arrives.
LEMMA ArrivesInv ==
  ASSUME IInv, NEW p \in Peers, ReInviteArrives(p)
  PROVE  IInv'
<1>1. PICK k \in Kinds : SetPeer(p, [peer[p] EXCEPT !.pc = "waiting", !.kind = k])
  BY Zenon DEF ReInviteArrives
<1> DEFINE s == peer[p]
           r == [s EXCEPT !.pc = "waiting", !.kind = k]
<1>2. /\ s \in Peer /\ s.pc = "idle"
      /\ UNCHANGED <<dialog, locks, updates, own, acks, bye, closer, med>>
  BY PeerFacts DEF ReInviteArrives
<1>3. /\ r \in Peer /\ r.pc = "waiting" /\ r.then = s.then /\ r.res = s.res
      /\ r.answered = s.answered /\ r.finals = s.finals /\ r.sent2xx = s.sent2xx
      /\ r.rtx = s.rtx
  BY <1>2, Zenon DEF Peer, PeerPcs
<1> HIDE DEF r
<1>4. StepOK(p, r)
  <2>1. ResponseOK(s)
    BY PeerFacts
  <2>2. ResponseOK(r)
    BY <1>2, <1>3, <2>1 DEF Before, Answered, ResponseOK
  <2>3. (r.pc \in Inside <=> s.pc \in Inside) /\ (r.pc \in Pending <=> s.pc \in Pending)
    BY <1>2, <1>3 DEF Inside, Pending
  <2>4. (Updates(r) => Updates(s)) /\ (IsOffering(s) => IsOffering(r))
    BY <1>2, <1>3, <2>1 DEF ResponseOK, Updates, IsOffering
  <2> QED BY <1>2, <1>3, <2>2, <2>3, <2>4, StepKept DEF locks, updates
<1>5. (IsEarly(r) => IsEarly(s)) /\ (IsForked(r) <=> IsForked(s))
  BY <1>2, <1>3 DEF IsEarly, IsForked, Before
<1>6. SetPeer(p, r)
  BY <1>1 DEF r
<1> QED BY <1>2, <1>3, <1>4, <1>5, <1>6, PeerFacts, PeerOnly DEF dialog, locks, updates

\* requestMu is taken, or the ended dialog answers 481.
LEMMA BeginInv ==
  ASSUME IInv, NEW p \in Peers, beginPeerReInvite(p)
  PROVE  IInv'
<1>1. ASSUME ended PROVE IInv'
  <2> DEFINE s == peer[p]
             f == Append(s.finals, 481)
             r == [s EXCEPT !.pc = "done", !.finals = f]
  <2>1. /\ s \in Peer
        /\ s.pc = "waiting" /\ requestMu = Nobody
        /\ UNCHANGED <<own, acks, bye, closer, med>>
        /\ UNCHANGED <<dialog, answerMu, updates, requestMu, current>>
    BY <1>1, PeerFacts DEF beginPeerReInvite
  <2>2. f \in Seq(Codes) /\ Len(f) = Len(s.finals) + 1
    BY <2>1, CodeFacts, FinalFacts DEF Peer
  <2> HIDE DEF f
  <2>3. /\ r \in Peer
        /\ r.pc = "done"
        /\ Len(r.finals) = Len(s.finals) + 1
        /\ r.then = s.then /\ r.res = s.res /\ r.answered = s.answered
        /\ r.sent2xx = s.sent2xx /\ r.rtx = s.rtx
    BY <2>1, <2>2, ZenonT(60) DEF Peer, PeerPcs, Runs, Thens
  <2> HIDE DEF r
  <2>4. StepOK(p, r)
    <3>1. ResponseOK(s)
      BY PeerFacts
    <3>2. ResponseOK(r)
      BY <2>1, <2>3, <3>1 DEF Before, Answered, ResponseOK
    <3> QED BY <2>1, <2>3, PeerFacts, <3>2 DEF StepOK, dialog, locks, updates, Inside,
       Pending, Before, Updates, IsOffering
  <2>5. (IsEarly(r) => IsEarly(s)) /\ (IsForked(r) <=> IsForked(s))
    BY <2>1, <2>3 DEF IsEarly, IsForked, Before
  <2>6. SetPeer(p, r)
    BY <1>1 DEF beginPeerReInvite, r, f
  <2> QED BY <2>1, <2>3, <2>4, <2>5, <2>6, PeerFacts, PeerOnly
       DEF dialog, locks, updates
<1>2. ASSUME ~ended PROVE IInv'
  <2> DEFINE s == peer[p]
             r == [s EXCEPT !.pc = "reading"]
  <2>1. /\ s \in Peer
        /\ s.pc = "waiting" /\ requestMu = Nobody
        /\ UNCHANGED <<own, acks, bye, closer, med>>
        /\ UNCHANGED <<dialog, answerMu, updates>> /\ requestMu' = p /\ current' = p
    BY <1>2, PeerFacts DEF beginPeerReInvite
  <2>2. /\ r \in Peer
        /\ r.pc = "reading"
        /\ r.then = s.then /\ r.res = s.res /\ r.answered = s.answered
        /\ r.finals = s.finals /\ r.sent2xx = s.sent2xx /\ r.rtx = s.rtx
    BY <2>1 DEF Peer, PeerPcs, Runs, Thens
  <2> HIDE DEF r
  <2>3. StepOK(p, r)
    <3>1. ResponseOK(s)
      BY PeerFacts
    <3>2. ResponseOK(r)
      BY <2>1, <2>2, <3>1 DEF Before, Answered, ResponseOK
    <3> QED BY <2>1, <2>2, PeerFacts, <3>2 DEF StepOK, dialog, locks, updates, Inside,
       Pending, Before, Updates, IsOffering
  <2>4. (IsEarly(r) => IsEarly(s)) /\ (IsForked(r) <=> IsForked(s))
    BY <2>1, <2>2 DEF IsEarly, IsForked, Before
  <2>5. SetPeer(p, r)
    BY <1>2 DEF beginPeerReInvite, r
  <2> QED BY <2>1, <2>2, <2>3, <2>4, <2>5, PeerFacts, PeerOnly
       DEF dialog, locks, updates
<1> QED BY <1>1, <1>2 DEF beginPeerReInvite

\* The CSeq is read, and the update marked, unless one of ours is in progress.
LEMMA ReadInv ==
  ASSUME IInv, NEW p \in Peers, ReadReInvite(p)
  PROVE  IInv'
<1>1. ASSUME ~InOrder(p) PROVE IInv'
  <2> DEFINE s == peer[p]
             c == Refusal
             r == [s EXCEPT !.pc = "answering", !.res = c, !.then = "end"]
  <2>1. /\ s \in Peer
        /\ s.pc = "reading"
        /\ UNCHANGED <<own, acks, bye, closer, med>>
        /\ UNCHANGED <<ended, target, locks, mediaUpdating, ackOffer>>
        /\ UNCHANGED <<remoteCSeq, updateDone>>
    BY <1>1, PeerFacts DEF ReadReInvite, Answers
  <2>2. c \in Codes /\ c # 200
    BY <2>1, CodeFacts
  <2> HIDE DEF c
  <2>3. /\ r \in Peer
        /\ r.pc = "answering" /\ r.res # 200 /\ r.then = "end"
        /\ r.answered = s.answered /\ r.finals = s.finals /\ r.sent2xx = s.sent2xx
        /\ r.rtx = s.rtx
    BY <2>1, <2>2, Zenon DEF Peer, PeerPcs, Runs, Thens
  <2> HIDE DEF r
  <2>4. StepOK(p, r)
    <3>1. ResponseOK(s)
      BY PeerFacts
    <3>2. ResponseOK(r)
      BY <2>1, <2>3, <3>1 DEF Before, Answered, ResponseOK
    <3> QED BY <2>1, <2>3, PeerFacts, <3>2 DEF StepOK, dialog, locks, updates, Inside,
       Pending, Before, Updates, IsOffering
  <2>5. (IsEarly(r) => IsEarly(s)) /\ (IsForked(r) <=> IsForked(s))
    BY <2>1, <2>3 DEF IsEarly, IsForked, Before
  <2>6. SetPeer(p, r)
    BY <1>1 DEF ReadReInvite, Answers, r, c
  <2> QED BY <2>1, <2>3, <2>4, <2>5, <2>6, PeerFacts, PeerOnly
       DEF dialog, locks, updates
<1>2. ASSUME InOrder(p), updateDone # Nobody PROVE IInv'
  <2> DEFINE s == peer[p]
             c == 491
             r == [s EXCEPT !.pc = "answering", !.res = c, !.then = "end"]
  <2>1. /\ s \in Peer
        /\ s.pc = "reading"
        /\ UNCHANGED <<own, acks, bye, closer, med>>
        /\ UNCHANGED <<ended, target, locks, mediaUpdating, ackOffer>>
        /\ remoteCSeq' = p /\ UNCHANGED updateDone
    BY <1>2, PeerFacts DEF ReadReInvite, beginPeerMediaUpdate, Answers
  <2>2. c \in Codes /\ c # 200
    BY <2>1, CodeFacts
  <2> HIDE DEF c
  <2>3. /\ r \in Peer
        /\ r.pc = "answering" /\ r.res # 200 /\ r.then = "end"
        /\ r.answered = s.answered /\ r.finals = s.finals /\ r.sent2xx = s.sent2xx
        /\ r.rtx = s.rtx
    BY <2>1, <2>2, ZenonT(60) DEF Peer, PeerPcs, Runs, Thens
  <2> HIDE DEF r
  <2>4. StepOK(p, r)
    <3>1. ResponseOK(s)
      BY PeerFacts
    <3>2. ResponseOK(r)
      BY <2>1, <2>3, <3>1 DEF Before, Answered, ResponseOK
    <3> QED BY <2>1, <2>3, PeerFacts, <3>2 DEF StepOK, dialog, locks, updates, Inside,
       Pending, Before, Updates, IsOffering
  <2>5. (IsEarly(r) => IsEarly(s)) /\ (IsForked(r) <=> IsForked(s))
    BY <2>1, <2>3 DEF IsEarly, IsForked, Before
  <2>6. SetPeer(p, r)
    BY <1>2 DEF ReadReInvite, beginPeerMediaUpdate, Answers, r, c
  <2> QED BY <2>1, <2>3, <2>4, <2>5, <2>6, PeerFacts, PeerOnly
       DEF dialog, locks, updates
<1>3. ASSUME InOrder(p), updateDone = Nobody PROVE IInv'
  <2> DEFINE s == peer[p]
             r == [s EXCEPT !.pc = "updating"]
  <2>1. /\ s \in Peer
        /\ s.pc = "reading"
        /\ UNCHANGED <<own, acks, bye, closer, med>>
        /\ UNCHANGED <<ended, target, locks, mediaUpdating, ackOffer>>
        /\ remoteCSeq' = p /\ updateDone = Nobody /\ updateDone' = p
    BY <1>3, PeerFacts DEF ReadReInvite, beginPeerMediaUpdate
  <2>2. /\ r \in Peer
        /\ r.pc = "updating"
        /\ r.then = s.then /\ r.res = s.res /\ r.answered = s.answered
        /\ r.finals = s.finals /\ r.sent2xx = s.sent2xx /\ r.rtx = s.rtx
    BY <2>1 DEF Peer, PeerPcs, Runs, Thens
  <2> HIDE DEF r
  <2>3. StepOK(p, r)
    <3>1. ResponseOK(s)
      BY PeerFacts
    <3>2. ResponseOK(r)
      BY <2>1, <2>2, <3>1 DEF Before, Answered, ResponseOK
    <3> QED BY <2>1, <2>2, PeerFacts, SessionFacts, <3>2 DEF StepOK, dialog, locks,
       updates, Inside, Pending, Before, Updates, IsOffering
  <2>4. (IsEarly(r) => IsEarly(s)) /\ (IsForked(r) <=> IsForked(s))
    BY <2>1, <2>2 DEF IsEarly, IsForked, Before
  <2>5. SetPeer(p, r)
    BY <1>3 DEF ReadReInvite, beginPeerMediaUpdate, r
  <2> QED BY <2>1, <2>2, <2>3, <2>4, <2>5, PeerFacts, PeerOnly
       DEF dialog, locks, updates
<1> QED BY <1>1, <1>2, <1>3 DEF ReadReInvite

\* The hooks have run and the 200 is built.
LEMMA UpdatedInv ==
  ASSUME IInv, NEW p \in Peers, mediaUpdatedUnsafe(p)
  PROVE  IInv'
<1> DEFINE s == peer[p]
           c == 200
           r == [s EXCEPT !.pc = "answering", !.res = c, !.then = "end"]
<1>1. /\ s \in Peer
      /\ s.pc = "updated"
      /\ UNCHANGED <<own, acks, bye, closer, med>>
      /\ UNCHANGED <<dialog, locks, updates>>
  BY PeerFacts DEF mediaUpdatedUnsafe, Answers
<1>2. c \in Codes
  BY <1>1, CodeFacts
<1> HIDE DEF c
<1>3. /\ r \in Peer
      /\ r.pc = "answering" /\ r.then = "end"
      /\ r.answered = s.answered /\ r.finals = s.finals /\ r.sent2xx = s.sent2xx
      /\ r.rtx = s.rtx
  BY <1>1, <1>2, ZenonT(60) DEF Peer, PeerPcs, Runs, Thens
<1> HIDE DEF r
<1>4. StepOK(p, r)
  <2>1. ResponseOK(s)
    BY PeerFacts
  <2>2. ResponseOK(r)
    BY <1>1, <1>3, <2>1 DEF Before, Answered, ResponseOK
  <2>3. (r.pc \in Inside <=> s.pc \in Inside) /\ (r.pc \in Pending <=> s.pc \in Pending)
    BY <1>1, <1>3 DEF Inside, Pending
  <2>4. (Updates(r) => Updates(s)) /\ (IsOffering(s) => IsOffering(r))
    BY <1>1, <1>3, <2>1 DEF ResponseOK, Updates, IsOffering
  <2> QED BY <1>1, <1>3, <2>2, <2>3, <2>4, StepKept DEF locks, updates
<1>5. (IsEarly(r) => IsEarly(s)) /\ (IsForked(r) <=> IsForked(s))
  BY <1>1, <1>3 DEF IsEarly, IsForked, Before
<1>6. SetPeer(p, r)
  BY DEF mediaUpdatedUnsafe, Answers, r, c
<1> QED BY <1>1, <1>3, <1>4, <1>5, <1>6, PeerFacts, PeerOnly
     DEF dialog, locks, updates

\* The call is ended without media.
LEMMA HangupInv ==
  ASSUME IInv, NEW p \in Peers, hangupNoMedia(p)
  PROVE  IInv'
<1>1. ASSUME peer[p].pc = "hangup" PROVE IInv'
  <2> DEFINE s == peer[p]
             r == [s EXCEPT !.pc = "ending"]
  <2>1. /\ s \in Peer
        /\ s.pc = "hangup"
        /\ UNCHANGED <<own, acks, bye, closer, med>>
        /\ ended' = TRUE /\ UNCHANGED <<remoteCSeq, target, locks, updates>>
    BY <1>1, PeerFacts DEF hangupNoMedia
  <2>2. /\ r \in Peer
        /\ r.pc = "ending"
        /\ r.then = s.then /\ r.res = s.res /\ r.answered = s.answered
        /\ r.finals = s.finals /\ r.sent2xx = s.sent2xx /\ r.rtx = s.rtx
    BY <2>1 DEF Peer, PeerPcs, Runs, Thens
  <2> HIDE DEF r
  <2>3. StepOK(p, r)
    <3>1. ResponseOK(s)
      BY PeerFacts
    <3>2. ResponseOK(r)
      BY <2>1, <2>2, <3>1 DEF Before, Answered, ResponseOK
    <3> QED BY <2>1, <2>2, PeerFacts, <3>2 DEF StepOK, dialog, locks, updates, Inside,
       Pending, Before, Updates, IsOffering
  <2>4. (IsEarly(r) => IsEarly(s)) /\ (IsForked(r) <=> IsForked(s))
    BY <2>1, <2>2 DEF IsEarly, IsForked, Before
  <2>5. SetPeer(p, r)
    BY <1>1 DEF hangupNoMedia, r
  <2> QED BY <2>1, <2>2, <2>3, <2>4, <2>5, PeerFacts, PeerOnly
       DEF dialog, locks, updates
<1>2. ASSUME peer[p].pc = "ackhangup" PROVE IInv'
  <2> DEFINE s == peer[p]
             r == [s EXCEPT !.pc = "unmarking"]
  <2>1. /\ s \in Peer
        /\ s.pc = "ackhangup"
        /\ UNCHANGED <<own, acks, bye, closer, med>>
        /\ ended' = TRUE /\ UNCHANGED <<remoteCSeq, target, locks, updates>>
    BY <1>2, PeerFacts DEF hangupNoMedia
  <2>2. /\ r \in Peer
        /\ r.pc = "unmarking"
        /\ r.then = s.then /\ r.res = s.res /\ r.answered = s.answered
        /\ r.finals = s.finals /\ r.sent2xx = s.sent2xx /\ r.rtx = s.rtx
    BY <2>1 DEF Peer, PeerPcs, Runs, Thens
  <2> HIDE DEF r
  <2>3. StepOK(p, r)
    <3>1. ResponseOK(s)
      BY PeerFacts
    <3>2. ResponseOK(r)
      BY <2>1, <2>2, <3>1 DEF Before, Answered, ResponseOK
    <3> QED BY <2>1, <2>2, PeerFacts, <3>2 DEF StepOK, dialog, locks, updates, Inside,
       Pending, Before, Updates, IsOffering
  <2>4. (IsEarly(r) => IsEarly(s)) /\ (IsForked(r) <=> IsForked(s))
    BY <2>1, <2>2 DEF IsEarly, IsForked, Before
  <2>5. SetPeer(p, r)
    BY <1>2, ZenonT(60) DEF hangupNoMedia, r
  <2> QED BY <2>1, <2>2, <2>3, <2>4, <2>5, PeerFacts, PeerOnly
       DEF dialog, locks, updates
<1> QED BY <1>1, <1>2, SMTT(30) DEF hangupNoMedia

\* The handler gives up peerReInvite once its 2xx is sent no more.
LEMMA EndInv ==
  ASSUME IInv, NEW p \in Peers, endPeerReInvite(p)
  PROVE  IInv'
<1> DEFINE s == peer[p]
           r == [s EXCEPT !.pc = IF s.ackErr THEN "ackhangup" ELSE "unmarking"]
<1>1. /\ s \in Peer
      /\ s.pc = "ending" /\ s.rtx # "running"
      /\ UNCHANGED <<own, acks, bye, closer, med>>
      /\ UNCHANGED <<dialog, requestMu, answerMu, updates>>
      /\ current' = IF current = p THEN Nobody ELSE current
  BY PeerFacts DEF endPeerReInvite
<1>2. /\ r \in Peer
      /\ r.pc \in {"ackhangup", "unmarking"}
      /\ r.then = s.then /\ r.res = s.res /\ r.answered = s.answered
      /\ r.finals = s.finals /\ r.sent2xx = s.sent2xx /\ r.rtx = s.rtx
  BY <1>1 DEF Peer, PeerPcs, Runs, Thens
<1> HIDE DEF r
<1>3. StepOK(p, r)
  <2>1. ResponseOK(s)
    BY PeerFacts
  <2>2. ResponseOK(r)
    BY <1>1, <1>2, <2>1 DEF Before, Answered, ResponseOK
  <2> QED BY <1>1, <1>2, PeerFacts, <2>2 DEF StepOK, dialog, locks, updates, Inside,
     Pending, Before, Updates, IsOffering
<1>4. (IsEarly(r) => IsEarly(s)) /\ (IsForked(r) <=> IsForked(s))
  BY <1>1, <1>2 DEF IsEarly, IsForked, Before
<1>5. SetPeer(p, r)
  BY ZenonT(60) DEF endPeerReInvite, r
<1> QED BY <1>1, <1>2, <1>3, <1>4, <1>5, PeerFacts, PeerOnly
     DEF dialog, locks, updates

\* The mark and requestMu are given up.
LEMMA HandledInv ==
  ASSUME IInv, NEW p \in Peers, ReInviteHandled(p)
  PROVE  IInv'
<1> DEFINE s == peer[p]
           r == [s EXCEPT !.pc = "done"]
<1>1. /\ s \in Peer
      /\ s.pc = "unmarking"
      /\ UNCHANGED <<own, acks, bye, closer, med>>
      /\ UNCHANGED <<dialog, answerMu, current, mediaUpdating, ackOffer>>
      /\ requestMu' = Nobody /\ updateDone' = IF updateDone = p THEN Nobody ELSE updateDone
  BY PeerFacts DEF ReInviteHandled, Unmark
<1>2. /\ r \in Peer
      /\ r.pc = "done"
      /\ r.then = s.then /\ r.res = s.res /\ r.answered = s.answered
      /\ r.finals = s.finals /\ r.sent2xx = s.sent2xx /\ r.rtx = s.rtx
  BY <1>1 DEF Peer, PeerPcs, Runs, Thens
<1> HIDE DEF r
<1>3. StepOK(p, r)
  <2>1. ResponseOK(s)
    BY PeerFacts
  <2>2. ResponseOK(r)
    BY <1>1, <1>2, <2>1 DEF Before, Answered, ResponseOK
  <2>3. ~Updates(r) /\ (IsOffering(s) => IsOffering(r))
    BY <1>1, <1>2, <2>1 DEF ResponseOK, Updates, IsOffering
  <2>4. r.pc \notin Inside /\ r.pc \notin Pending /\ requestMu = p /\ current # p
    BY <1>1, <1>2, PeerFacts DEF Inside, Pending
  <2> QED BY <1>1, <2>2, <2>3, <2>4, PeerFacts DEF StepOK
<1>4. (IsEarly(r) => IsEarly(s)) /\ (IsForked(r) <=> IsForked(s))
  BY <1>1, <1>2 DEF IsEarly, IsForked, Before
<1>5. SetPeer(p, r)
  BY DEF ReInviteHandled, Unmark, r
<1> QED BY <1>1, <1>2, <1>3, <1>4, <1>5, PeerFacts, PeerOnly
     DEF dialog, locks, updates

\* The retransmission ends, acknowledged or not.
LEMMA StopInv ==
  ASSUME IInv, NEW p \in Peers, StopRetransmit(p)
  PROVE  IInv'
<1>1. ASSUME SetPeer(p, [peer[p] EXCEPT !.rtx = "done"]) PROVE IInv'
  <2> DEFINE s == peer[p]
             r == [s EXCEPT !.rtx = "done"]
  <2>1. /\ s \in Peer
        /\ s.rtx = "running"
        /\ UNCHANGED <<own, acks, bye, closer, med>>
        /\ UNCHANGED <<dialog, locks, updates>>
    BY <1>1, PeerFacts DEF StopRetransmit
  <2>2. /\ r \in Peer
        /\ r.pc = s.pc /\ r.rtx = "done"
        /\ r.then = s.then /\ r.res = s.res /\ r.answered = s.answered
        /\ r.finals = s.finals /\ r.sent2xx = s.sent2xx
    BY <2>1, ZenonT(60) DEF Peer, PeerPcs, Runs, Thens
  <2> HIDE DEF r
  <2>3. StepOK(p, r)
    <3>1. ResponseOK(s)
      BY PeerFacts
    <3>2. ResponseOK(r)
      BY <2>1, <2>2, <3>1 DEF Before, Answered, ResponseOK
    <3>3. (r.pc \in Inside <=> s.pc \in Inside) /\ (r.pc \in Pending <=> s.pc \in Pending)
      BY <2>1, <2>2 DEF Inside, Pending
    <3>4. (Updates(r) => Updates(s)) /\ (IsOffering(s) => IsOffering(r))
      BY <2>1, <2>2, <3>1 DEF ResponseOK, Updates, IsOffering
    <3> QED BY <2>1, <2>2, <3>2, <3>3, <3>4, StepKept DEF locks, updates
  <2>4. (IsEarly(r) => IsEarly(s)) /\ (IsForked(r) <=> IsForked(s))
    BY <2>1, <2>2 DEF IsEarly, IsForked, Before
  <2>5. SetPeer(p, r)
    BY <1>1, SMTT(30) DEF StopRetransmit, r
  <2> QED BY <2>1, <2>2, <2>3, <2>4, <2>5, PeerFacts, PeerOnly
       DEF dialog, locks, updates
<1>2. ASSUME SetPeer(p, [peer[p] EXCEPT !.rtx = "done", !.ackErr = TRUE]) PROVE IInv'
  <2> DEFINE s == peer[p]
             r == [s EXCEPT !.rtx = "done", !.ackErr = TRUE]
  <2>1. /\ s \in Peer
        /\ s.rtx = "running"
        /\ UNCHANGED <<own, acks, bye, closer, med>>
        /\ UNCHANGED <<dialog, locks, updates>>
    BY <1>2, PeerFacts DEF StopRetransmit
  <2>2. /\ r \in Peer
        /\ r.pc = s.pc /\ r.rtx = "done"
        /\ r.then = s.then /\ r.res = s.res /\ r.answered = s.answered
        /\ r.finals = s.finals /\ r.sent2xx = s.sent2xx
    BY <2>1, ZenonT(60) DEF Peer, PeerPcs, Runs, Thens
  <2> HIDE DEF r
  <2>3. StepOK(p, r)
    <3>1. ResponseOK(s)
      BY PeerFacts
    <3>2. ResponseOK(r)
      BY <2>1, <2>2, <3>1 DEF Before, Answered, ResponseOK
    <3>3. (r.pc \in Inside <=> s.pc \in Inside) /\ (r.pc \in Pending <=> s.pc \in Pending)
      BY <2>1, <2>2 DEF Inside, Pending
    <3>4. (Updates(r) => Updates(s)) /\ (IsOffering(s) => IsOffering(r))
      BY <2>1, <2>2, <3>1 DEF ResponseOK, Updates, IsOffering
    <3> QED BY <2>1, <2>2, <3>2, <3>3, <3>4, StepKept DEF locks, updates
  <2>4. (IsEarly(r) => IsEarly(s)) /\ (IsForked(r) <=> IsForked(s))
    BY <2>1, <2>2 DEF IsEarly, IsForked, Before
  <2>5. SetPeer(p, r)
    BY <1>2 DEF StopRetransmit, r
  <2> QED BY <2>1, <2>2, <2>3, <2>4, <2>5, PeerFacts, PeerOnly
       DEF dialog, locks, updates
<1> QED BY <1>1, <1>2, ZenonT(60) DEF StopRetransmit

\* The timer sends another copy of the 2xx, or none.
LEMMA RetransmitInv ==
  ASSUME IInv, NEW p \in Peers, Retransmit(p)
  PROVE  IInv'
<1>1. ASSUME SetPeer(p, [peer[p] EXCEPT !.rtx = "done"]) PROVE IInv'
  <2> DEFINE s == peer[p]
             r == [s EXCEPT !.rtx = "done"]
  <2>1. /\ s \in Peer
        /\ s.rtx = "running"
        /\ UNCHANGED <<own, acks, bye, closer, med>>
        /\ UNCHANGED <<dialog, locks, updates>>
    BY <1>1, PeerFacts DEF Retransmit
  <2>2. /\ r \in Peer
        /\ r.pc = s.pc /\ r.rtx = "done"
        /\ r.then = s.then /\ r.res = s.res /\ r.answered = s.answered
        /\ r.finals = s.finals /\ r.sent2xx = s.sent2xx
    BY <2>1 DEF Peer, PeerPcs, Runs, Thens
  <2> HIDE DEF r
  <2>3. StepOK(p, r)
    <3>1. ResponseOK(s)
      BY PeerFacts
    <3>2. ResponseOK(r)
      BY <2>1, <2>2, <3>1 DEF Before, Answered, ResponseOK
    <3>3. (r.pc \in Inside <=> s.pc \in Inside) /\ (r.pc \in Pending <=> s.pc \in Pending)
      BY <2>1, <2>2 DEF Inside, Pending
    <3>4. (Updates(r) => Updates(s)) /\ (IsOffering(s) => IsOffering(r))
      BY <2>1, <2>2, <3>1 DEF ResponseOK, Updates, IsOffering
    <3> QED BY <2>1, <2>2, <3>2, <3>3, <3>4, StepKept DEF locks, updates
  <2>4. (IsEarly(r) => IsEarly(s)) /\ (IsForked(r) <=> IsForked(s))
    BY <2>1, <2>2 DEF IsEarly, IsForked, Before
  <2>5. SetPeer(p, r)
    BY <1>1, ZenonT(60) DEF Retransmit, r
  <2> QED BY <2>1, <2>2, <2>3, <2>4, <2>5, PeerFacts, PeerOnly
       DEF dialog, locks, updates
<1>2. ASSUME SetPeer(p, [peer[p] EXCEPT !.copies = @ - 1]), peer[p].copies > 0 PROVE IInv'
  <2> DEFINE s == peer[p]
             n == s.copies - 1
             r == [s EXCEPT !.copies = n]
  <2>1. /\ s \in Peer
        /\ s.rtx = "running" /\ s.copies > 0
        /\ UNCHANGED <<own, acks, bye, closer, med>>
        /\ UNCHANGED <<dialog, locks, updates>>
    BY <1>2, PeerFacts, ZenonT(60) DEF Retransmit
  <2>2. n \in Nat
    BY <2>1, CodeFacts DEF Peer
  <2> HIDE DEF n
  <2>3. /\ r \in Peer
        /\ r.pc = s.pc
        /\ r.then = s.then /\ r.res = s.res /\ r.answered = s.answered
        /\ r.finals = s.finals /\ r.sent2xx = s.sent2xx /\ r.rtx = s.rtx
    BY <2>1, <2>2, ZenonT(60) DEF Peer, PeerPcs, Runs, Thens
  <2> HIDE DEF r
  <2>4. StepOK(p, r)
    <3>1. ResponseOK(s)
      BY PeerFacts
    <3>2. ResponseOK(r)
      BY <2>1, <2>3, <3>1 DEF Before, Answered, ResponseOK
    <3>3. (r.pc \in Inside <=> s.pc \in Inside) /\ (r.pc \in Pending <=> s.pc \in Pending)
      BY <2>1, <2>3 DEF Inside, Pending
    <3>4. (Updates(r) => Updates(s)) /\ (IsOffering(s) => IsOffering(r))
      BY <2>1, <2>3, <3>1 DEF ResponseOK, Updates, IsOffering
    <3> QED BY <2>1, <2>3, <3>2, <3>3, <3>4, StepKept, ZenonT(60) DEF locks, updates
  <2>5. (IsEarly(r) => IsEarly(s)) /\ (IsForked(r) <=> IsForked(s))
    BY <2>1, <2>3 DEF IsEarly, IsForked, Before
  <2>6. SetPeer(p, r)
    BY <1>2 DEF Retransmit, r, n
  <2> QED BY <2>1, <2>3, <2>4, <2>5, <2>6, PeerFacts, PeerOnly
       DEF dialog, locks, updates
<1>3. ASSUME SetPeer(p, [peer[p] EXCEPT !.rtx = "done", !.ackErr = TRUE]) PROVE IInv'
  <2> DEFINE s == peer[p]
             r == [s EXCEPT !.rtx = "done", !.ackErr = TRUE]
  <2>1. /\ s \in Peer
        /\ s.rtx = "running"
        /\ UNCHANGED <<own, acks, bye, closer, med>>
        /\ UNCHANGED <<dialog, locks, updates>>
    BY <1>3, PeerFacts DEF Retransmit
  <2>2. /\ r \in Peer
        /\ r.pc = s.pc /\ r.rtx = "done"
        /\ r.then = s.then /\ r.res = s.res /\ r.answered = s.answered
        /\ r.finals = s.finals /\ r.sent2xx = s.sent2xx
    BY <2>1, Zenon DEF Peer, PeerPcs, Runs, Thens
  <2> HIDE DEF r
  <2>3. StepOK(p, r)
    <3>1. ResponseOK(s)
      BY PeerFacts
    <3>2. ResponseOK(r)
      BY <2>1, <2>2, <3>1 DEF Before, Answered, ResponseOK
    <3>3. (r.pc \in Inside <=> s.pc \in Inside) /\ (r.pc \in Pending <=> s.pc \in Pending)
      BY <2>1, <2>2 DEF Inside, Pending
    <3>4. (Updates(r) => Updates(s)) /\ (IsOffering(s) => IsOffering(r))
      BY <2>1, <2>2, <3>1 DEF ResponseOK, Updates, IsOffering
    <3> QED BY <2>1, <2>2, <3>2, <3>3, <3>4, StepKept DEF locks, updates
  <2>4. (IsEarly(r) => IsEarly(s)) /\ (IsForked(r) <=> IsForked(s))
    BY <2>1, <2>2 DEF IsEarly, IsForked, Before
  <2>5. SetPeer(p, r)
    BY <1>3 DEF Retransmit, r
  <2> QED BY <2>1, <2>2, <2>3, <2>4, <2>5, PeerFacts, PeerOnly, Zenon
       DEF dialog, locks, updates
<1> QED BY <1>1, <1>2, <1>3 DEF Retransmit

\* The final response is sent, unless the BYE gave it or the dialog has ended.
LEMMA RespondInv ==
  ASSUME IInv, NEW p \in Peers, respondPeerReInvite(p)
  PROVE  IInv'
<1>1. ASSUME AnswerNotSent(p), peer[p].answered PROVE IInv'
  <2> DEFINE s == peer[p]
             r == [s EXCEPT !.answered = TRUE,
                              !.pc = IF s.then = "assoc" THEN "dropping" ELSE "ending"]
  <2>1. /\ s \in Peer
        /\ s.pc = "answering"
        /\ UNCHANGED <<own, acks, bye, closer, med>>
        /\ UNCHANGED <<ended, remoteCSeq, locks, updateDone, mediaUpdating, answerMu>>
        /\ s.answered /\ UNCHANGED target
        /\ ackOffer' = IF ackOffer = p THEN Nobody ELSE ackOffer
    BY <1>1, PeerFacts DEF respondPeerReInvite, AnswerNotSent, locks
  <2>2. /\ r \in Peer
        /\ r.pc = IF s.then = "assoc" THEN "dropping" ELSE "ending"
        /\ r.answered
        /\ r.then = s.then /\ r.res = s.res /\ r.finals = s.finals
        /\ r.sent2xx = s.sent2xx /\ r.rtx = s.rtx
    BY <2>1, ZenonT(60) DEF Peer, PeerPcs, Runs, Thens
  <2> HIDE DEF r
  <2>3. StepOK(p, r)
    <3>1. ResponseOK(s)
      BY PeerFacts
    <3>2. ResponseOK(r)
      BY <2>1, <2>2, <3>1 DEF Before, Answered, ResponseOK
    <3> QED BY <2>1, <2>2, PeerFacts, <3>2 DEF StepOK, dialog, locks, updates, Inside,
       Pending, Before, Updates, IsOffering
  <2>4. (IsEarly(r) => IsEarly(s)) /\ (IsForked(r) <=> IsForked(s))
    BY <2>1, <2>2 DEF IsEarly, IsForked, Before
  <2>5. SetPeer(p, r)
    BY <1>1, ZenonT(60) DEF respondPeerReInvite, AnswerNotSent, locks, r
  <2> QED BY <2>1, <2>2, <2>3, <2>4, <2>5, PeerFacts, PeerOnly
       DEF dialog, locks, updates
<1>2. ASSUME AnswerNotSent(p), ~peer[p].answered PROVE IInv'
  <2> DEFINE s == peer[p]
             f == Append(s.finals, 487)
             r == [s EXCEPT !.answered = TRUE, !.finals = f,
                              !.pc = IF s.then = "assoc" THEN "dropping" ELSE "ending"]
  <2>1. /\ s \in Peer
        /\ s.pc = "answering"
        /\ UNCHANGED <<own, acks, bye, closer, med>>
        /\ UNCHANGED <<ended, remoteCSeq, locks, updateDone, mediaUpdating, answerMu>>
        /\ ~s.answered /\ UNCHANGED target
        /\ ackOffer' = IF ackOffer = p THEN Nobody ELSE ackOffer
    BY <1>2, PeerFacts, ZenonT(60) DEF respondPeerReInvite, AnswerNotSent, locks
  <2>2. f \in Seq(Codes) /\ Len(f) = Len(s.finals) + 1
    BY <2>1, CodeFacts, FinalFacts DEF Peer
  <2> HIDE DEF f
  <2>3. /\ r \in Peer
        /\ r.pc = IF s.then = "assoc" THEN "dropping" ELSE "ending"
        /\ r.answered
        /\ Len(r.finals) = Len(s.finals) + 1
        /\ r.then = s.then /\ r.res = s.res /\ r.sent2xx = s.sent2xx
        /\ r.rtx = s.rtx
    BY <2>1, <2>2, ZenonT(40) DEF Peer, PeerPcs, Runs, Thens
  <2> HIDE DEF r
  <2>4. StepOK(p, r)
    <3>1. ResponseOK(s)
      BY PeerFacts
    <3>2. ResponseOK(r)
      BY <2>1, <2>3, <3>1 DEF Before, Answered, ResponseOK
    <3> QED BY <2>1, <2>3, PeerFacts, <3>2 DEF StepOK, dialog, locks, updates, Inside,
       Pending, Before, Updates, IsOffering
  <2>5. (IsEarly(r) => IsEarly(s)) /\ (IsForked(r) <=> IsForked(s))
    BY <2>1, <2>3 DEF IsEarly, IsForked, Before
  <2>6. SetPeer(p, r)
    BY <1>2, ZenonT(60) DEF respondPeerReInvite, AnswerNotSent, locks, r, f
  <2> QED BY <2>1, <2>3, <2>4, <2>5, <2>6, PeerFacts, PeerOnly
       DEF dialog, locks, updates
<1>3. ASSUME AnswerSent(p), MaySend(p), peer[p].res # 200 PROVE IInv'
  <2> DEFINE s == peer[p]
             f == Append(s.finals, s.res)
             r == [s EXCEPT !.answered = TRUE, !.pc = "ending", !.finals = f]
  <2>1. /\ s \in Peer
        /\ s.pc = "answering"
        /\ UNCHANGED <<own, acks, bye, closer, med>>
        /\ UNCHANGED <<ended, remoteCSeq, locks, updateDone, mediaUpdating, answerMu>>
        /\ ~s.answered /\ s.then = "end" /\ UNCHANGED <<target, ackOffer>>
    BY <1>3, PeerFacts, ZenonT(60) DEF respondPeerReInvite, AnswerSent, MaySend, locks, ResponseOK
  <2>2. f \in Seq(Codes) /\ Len(f) = Len(s.finals) + 1
    BY <2>1, CodeFacts, FinalFacts DEF Peer
  <2> HIDE DEF f
  <2>3. /\ r \in Peer
        /\ r.pc = "ending"
        /\ r.answered
        /\ Len(r.finals) = Len(s.finals) + 1
        /\ r.then = s.then /\ r.res = s.res /\ r.sent2xx = s.sent2xx
        /\ r.rtx = s.rtx
    BY <2>1, <2>2, ZenonT(40) DEF Peer, PeerPcs, Runs, Thens
  <2> HIDE DEF r
  <2>4. StepOK(p, r)
    <3>1. ResponseOK(s)
      BY PeerFacts, SMTT(30)
    <3>2. ResponseOK(r)
      BY <2>1, <2>3, <3>1 DEF Before, Answered, ResponseOK
    <3> QED BY <2>1, <2>3, PeerFacts, <3>2 DEF StepOK, dialog, locks, updates, Inside,
       Pending, Before, Updates, IsOffering
  <2>5. (IsEarly(r) => IsEarly(s)) /\ (IsForked(r) <=> IsForked(s))
    BY <2>1, <2>3 DEF IsEarly, IsForked, Before
  <2>6. SetPeer(p, r)
    BY <1>3, ZenonT(60) DEF respondPeerReInvite, AnswerSent, MaySend, locks, ResponseOK, r, f
  <2> QED BY <2>1, <2>3, <2>4, <2>5, <2>6, PeerFacts, PeerOnly
       DEF dialog, locks, updates
<1>4. ASSUME SetPeer(p, [peer[p] EXCEPT
         !.answered = TRUE, !.sent2xx = TRUE, !.finals = Append(@, 200), !.rtx = "running",
         !.pc = IF peer[p].then = "assoc" THEN "handshake" ELSE "ending"]),
             MaySend(p), target' = p, UNCHANGED ackOffer, peer[p].res = 200
      PROVE  IInv'
  <2> DEFINE s == peer[p]
             f == Append(s.finals, 200)
             r == [s EXCEPT !.answered = TRUE, !.sent2xx = TRUE, !.finals = f,
                              !.rtx = "running",
                    !.pc = IF s.then = "assoc" THEN "handshake" ELSE "ending"]
  <2>1. /\ s \in Peer
        /\ s.pc = "answering"
        /\ UNCHANGED <<own, acks, bye, closer, med>>
        /\ UNCHANGED <<ended, remoteCSeq, locks, updateDone, mediaUpdating, answerMu>>
        /\ ~s.answered /\ s.res = 200 /\ target' = p /\ UNCHANGED ackOffer
    BY <1>4, PeerFacts, ZenonT(60) DEF respondPeerReInvite, MaySend, locks
  <2>2. f \in Seq(Codes) /\ Len(f) = Len(s.finals) + 1
    BY <2>1, CodeFacts, FinalFacts DEF Peer
  <2> HIDE DEF f
  <2>3. /\ r \in Peer
        /\ r.pc = IF s.then = "assoc" THEN "handshake" ELSE "ending"
        /\ r.answered /\ r.sent2xx /\ r.rtx = "running"
        /\ Len(r.finals) = Len(s.finals) + 1
        /\ r.then = s.then /\ r.res = s.res
    BY <2>1, <2>2, ZenonT(40) DEF Peer, PeerPcs, Runs, Thens
  <2> HIDE DEF r
  <2>4. StepOK(p, r)
    <3>1. ResponseOK(s)
      BY PeerFacts
    <3>2. ResponseOK(r)
      BY <2>1, <2>3, <3>1 DEF Before, Answered, ResponseOK
    <3> QED BY <2>1, <2>3, PeerFacts, <3>2, ZenonT(60) DEF StepOK, dialog, locks, updates, Inside,
       Pending, Before, Updates, IsOffering
  <2>5. (IsEarly(r) => IsEarly(s)) /\ (IsForked(r) <=> IsForked(s))
    BY <2>1, <2>3 DEF IsEarly, IsForked, Before
  <2>6. SetPeer(p, r)
    BY <1>4, ZenonT(60) DEF respondPeerReInvite, MaySend, locks, r, f
  <2> QED BY <2>1, <2>3, <2>4, <2>5, <2>6, PeerFacts, PeerOnly
       DEF dialog, locks, updates
<1>5. ASSUME SetPeer(p, [peer[p] EXCEPT
         !.answered = TRUE, !.sent2xx = TRUE,
         !.pc = IF peer[p].then = "assoc" THEN "dropping" ELSE "ending"]),
             MaySend(p), target' = p, UNCHANGED ackOffer, peer[p].res = 200
      PROVE  IInv'
  <2> DEFINE s == peer[p]
             r == [s EXCEPT !.answered = TRUE, !.sent2xx = TRUE,
                              !.pc = IF s.then = "assoc" THEN "dropping" ELSE "ending"]
  <2>1. /\ s \in Peer
        /\ s.pc = "answering"
        /\ UNCHANGED <<own, acks, bye, closer, med>>
        /\ UNCHANGED <<ended, remoteCSeq, locks, updateDone, mediaUpdating, answerMu>>
        /\ ~s.answered /\ s.res = 200 /\ target' = p /\ UNCHANGED ackOffer
    BY <1>5, PeerFacts DEF respondPeerReInvite, MaySend, locks
  <2>2. /\ r \in Peer
        /\ r.pc = IF s.then = "assoc" THEN "dropping" ELSE "ending"
        /\ r.answered /\ r.sent2xx
        /\ r.then = s.then /\ r.res = s.res /\ r.finals = s.finals
        /\ r.rtx = s.rtx
    BY <2>1, ZenonT(60) DEF Peer, PeerPcs, Runs, Thens
  <2> HIDE DEF r
  <2>3. StepOK(p, r)
    <3>1. ResponseOK(s)
      BY PeerFacts, SMTT(30)
    <3>2. ResponseOK(r)
      BY <2>1, <2>2, <3>1 DEF Before, Answered, ResponseOK
    <3> QED BY <2>1, <2>2, PeerFacts, <3>2, ZenonT(60) DEF StepOK, dialog, locks, updates, Inside,
       Pending, Before, Updates, IsOffering
  <2>4. (IsEarly(r) => IsEarly(s)) /\ (IsForked(r) <=> IsForked(s))
    BY <2>1, <2>2 DEF IsEarly, IsForked, Before
  <2>5. SetPeer(p, r)
    BY <1>5 DEF respondPeerReInvite, MaySend, locks, r
  <2> QED BY <2>1, <2>2, <2>3, <2>4, <2>5, PeerFacts, PeerOnly
       DEF dialog, locks, updates
<1> QED BY <1>1, <1>2, <1>3, <1>4, <1>5, ZenonT(60) DEF respondPeerReInvite, SuccessSent
=============================================================================
