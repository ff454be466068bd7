----------------------------- MODULE MediaUpdate -----------------------------
(***************************************************************************)
(* Media updates of one confirmed dialog (dialog_media.go and the          *)
(* re-INVITE, ACK and BYE handlers of dialog_server_session.go and         *)
(* dialog_client_session.go): the peer's re-INVITEs, ours, the ACKs to our *)
(* 2xx, the peer's BYE and the close of the media, each on a goroutine of  *)
(* its own, and the media sessions they fork, install, discard and close.  *)
(*                                                                         *)
(* One action is one critical section of mu or answerMu, or one step       *)
(* outside them.  A re-INVITE of the peer's is its CSeq, and names the     *)
(* fork it makes; a media session is what sockets it runs on.              *)
(***************************************************************************)
EXTENDS Naturals, Sequences, FiniteSets

CONSTANTS
  IsServer,  \* the dialog is a DialogServerSession
  Peers,     \* the CSeqs of the peer's re-INVITEs
  Owns,      \* our re-INVITEs
  Acks,      \* the ACKs the peer sends, copies included, by their arrival
  Scenes,    \* what does not come in a behaviour, and how often a 2xx is sent anew
  Setup,     \* the media session installed at the call's setup
  Nobody,
  MaxTries   \* bound: how often one of our re-INVITEs is sent

ASSUME RequestsAssumption ==
  /\ Peers \subseteq Nat \ {0}
  /\ Setup \notin Peers \cup Owns /\ Nobody \notin Peers \cup Owns \cup {Setup}
  /\ Peers \cap Owns = {}
ASSUME ScenesAssumption ==
  /\ Acks \subseteq Nat
  /\ Scenes \subseteq [absent : SUBSET (Peers \cup Owns \cup Acks), copies : Nat]
ASSUME RoleAssumption == IsServer \in BOOLEAN
ASSUME BoundsAssumption == MaxTries \in Nat \ {0}

VARIABLES
  ended,         \* the dialog's state is DialogStateEnded
  requestMu,     \* the peer's re-INVITE that holds requestMu
  answerMu,      \* TRUE while the BYE's handler holds answerMu
  current,       \* peerReInvite
  remoteCSeq,    \* the remote CSeq of the sipgo dialog
  updateDone,    \* the re-INVITE that set mediaUpdateDone
  mediaUpdating,
  ackOffer,      \* the re-INVITE whose 2xx carries our offer
  target,        \* remoteContactTarget: the message whose Contact it is
  peer,          \* peer[p]: the handler of a re-INVITE, and its 2xx
  own,           \* own[o]: a call of reInviteMedia
  acks,          \* acks[k]: the handler of an ACK
  bye,           \* the handler of the peer's BYE
  closer,        \* closer[c]: a call of DialogMedia.Close
  med            \* the media sessions and what of DialogMedia holds them

dialog == <<ended, remoteCSeq, target>>
locks == <<requestMu, answerMu, current>>
updates == <<updateDone, mediaUpdating, ackOffer>>
vars == <<dialog, locks, updates, peer, own, acks, bye, closer, med>>

-----------------------------------------------------------------------------
(***************************************************************************)
(* A handler of a re-INVITE: res is the final response it is to send and   *)
(* then what follows it.  finals are the final responses sent, sent2xx     *)
(* says `acked' was made and acked that it is closed, rtx is the goroutine *)
(* retransmitting the 2xx, copies how often it still may, and ackErr that  *)
(* it gave up.                                                             *)
(***************************************************************************)
PeerPcs == {"absent", "idle", "waiting", "reading", "updating", "updated", "answering",
            "handshake", "dropping", "hangup", "ending", "ackhangup",
            "unmarking", "done"}
Kinds == {"offer", "newassoc", "badoffer", "nooffer"}
Codes == {200, 400, 481, 487, 488, 491, 500}
Thens == {"end", "offer", "assoc"}
Runs == {"none", "running", "done"}

Peer == [pc : PeerPcs, kind : Kinds, res : Codes, then : Thens,
         answered : BOOLEAN, finals : Seq(Codes), sent2xx : BOOLEAN,
         acked : BOOLEAN, rtx : Runs, copies : Nat, ackErr : BOOLEAN]
NewPeer == [pc |-> "idle", kind |-> "offer", res |-> 200, then |-> "end",
            answered |-> FALSE, finals |-> <<>>, sent2xx |-> FALSE,
            acked |-> FALSE, rtx |-> "none", copies |-> 0, ackErr |-> FALSE]

OwnPcs == {"absent", "idle", "begin", "sent", "answered", "pending", "ending",
           "retrying", "done"}
Own == [pc : OwnPcs, tries : Nat]

AckPcs == {"absent", "idle", "applying", "acking", "hangup", "done"}
Bodies == {"answer", "bad", "none"}
Ack == [pc : AckPcs, of : Peers \cup {Nobody}, body : Bodies, failed : BOOLEAN]
NewAck == [pc |-> "idle", of |-> Nobody, body |-> "none", failed |-> FALSE]

Sessions == {Setup} \cup Peers \cup Owns
Closers == {"bye", "app"}
CloserPcs == {"idle", "closing", "owner", "releasing", "done"}
Closer == [pc : CloserPcs, media : Sessions \cup {Nobody},
           owner : Sessions \cup {Nobody}]
NewCloser == [pc |-> "idle", media |-> Nobody, owner |-> Nobody]

\* on[s] is the session whose sockets s runs on, which stands for its Laddr, and
\* sock[s] the sockets s bound itself.  agent is the ICE agent Setup made.
Socks == {"unbound", "open", "closed"}
Agents == {"none", "open", "closed"}
Media == [closed : BOOLEAN, installed : Sessions, on : [Sessions -> Sessions],
          sock : [Sessions -> Socks], agent : Agents,
          iceOwner : Sessions \cup {Nobody}, released : Nat]

Init ==
  /\ ended = FALSE /\ requestMu = Nobody /\ answerMu = FALSE /\ current = Nobody
  /\ remoteCSeq = 0 /\ updateDone = Nobody /\ mediaUpdating = FALSE
  /\ ackOffer = Nobody /\ target = Setup
  /\ \E scene \in Scenes :
       LET Pc(i) == IF i \in scene.absent THEN "absent" ELSE "idle" IN
       /\ peer = [p \in Peers |-> [NewPeer EXCEPT !.pc = Pc(p), !.copies = scene.copies]]
       /\ own = [o \in Owns |-> [pc |-> Pc(o), tries |-> 0]]
       /\ acks = [k \in Acks |-> [NewAck EXCEPT !.pc = Pc(k)]]
  /\ bye = "none"
  /\ closer = [c \in Closers |-> NewCloser]
  /\ \E a \in {"none", "open"} :
       med = [closed |-> FALSE, installed |-> Setup,
              on |-> [s \in Sessions |-> Setup],
              sock |-> [s \in Sessions |-> IF s = Setup THEN "open" ELSE "unbound"],
              agent |-> a, iceOwner |-> Nobody, released |-> 0]

-----------------------------------------------------------------------------
(* The media sessions, as functions of med, with mu held.                  *)

\* Only Setup made an ICE agent, and only its Close releases it.
CloseSession(m, s) ==
  [m EXCEPT !.sock[m.on[s]] = "closed",
            !.agent = IF s = Setup /\ m.agent = "open" THEN "closed" ELSE m.agent]

Fork(m, f) == [m EXCEPT !.on[f] = m.on[m.installed]]
Rebind(m, f) == [m EXCEPT !.on[f] = f, !.sock[f] = "open"]

SameSockets(m, s, f) == m.on[s] = m.on[f]

DiscardDropsOnly(m, f) == m
discardForkUnsafe(m, f) ==
  IF SameSockets(m, m.installed, f) THEN m ELSE CloseSession(m, f)

\* The owner of the ICE agent is kept when it is replaced.
KeptOwner(m, f) ==
  IF m.installed = Setup /\ f # Setup /\ m.agent = "open" /\ m.iceOwner = Nobody
  THEN Setup ELSE m.iceOwner

ReplacesSockets(m, f) ==
  m.installed # KeptOwner(m, f) /\ ~SameSockets(m, m.installed, f)

replaceRTPSessionUnsafe(m, f) ==
  LET old == m.installed
      swapped == [m EXCEPT !.iceOwner = KeptOwner(m, f), !.installed = f]
  IN  IF ReplacesSockets(m, f) THEN CloseSession(swapped, old) ELSE swapped

-----------------------------------------------------------------------------
(* The peer's re-INVITEs: handleReInvite.                                  *)

SetPeer(p, r) == peer' = [peer EXCEPT ![p] = r]

ReInviteArrives(p) ==
  /\ peer[p].pc = "idle"
  /\ \E k \in Kinds : SetPeer(p, [peer[p] EXCEPT !.pc = "waiting", !.kind = k])
  /\ UNCHANGED <<dialog, locks, updates, own, acks, bye, closer, med>>

\* requestMu is taken; an ended dialog answers 481.
beginPeerReInvite(p) ==
  /\ peer[p].pc = "waiting" /\ requestMu = Nobody /\ ~answerMu
  /\ \/ /\ ended
        /\ SetPeer(p, [peer[p] EXCEPT !.pc = "done", !.finals = Append(@, 481)])
        /\ UNCHANGED <<requestMu, current>>
     \/ /\ ~ended
        /\ SetPeer(p, [peer[p] EXCEPT !.pc = "reading"])
        /\ requestMu' = p /\ current' = p
  /\ UNCHANGED <<dialog, answerMu, updates, own, acks, bye, closer, med>>

Answers(p, code, then) ==
  SetPeer(p, [peer[p] EXCEPT !.pc = "answering", !.res = code, !.then = then])

\* ReadRequest refuses a CSeq it has passed.
InOrder(p) == p > remoteCSeq
Refusal == IF IsServer THEN 500 ELSE 400

\* One of our re-INVITEs in progress gets the peer's answered 491.
beginPeerMediaUpdate(p) ==
  \/ /\ updateDone # Nobody
     /\ Answers(p, 491, "end")
     /\ UNCHANGED updateDone
  \/ /\ updateDone = Nobody
     /\ updateDone' = p
     /\ SetPeer(p, [peer[p] EXCEPT !.pc = "updating"])

ReadReInvite(p) ==
  /\ peer[p].pc = "reading"
  /\ \/ /\ ~InOrder(p)
        /\ Answers(p, Refusal, "end")
        /\ UNCHANGED <<remoteCSeq, updateDone>>
     \/ /\ InOrder(p)
        /\ remoteCSeq' = p
        /\ beginPeerMediaUpdate(p)
  /\ UNCHANGED <<ended, target, locks, mediaUpdating, ackOffer, own, acks, bye,
                 closer, med>>

\* The offer is applied to a fork, which is installed, or answered first when it
\* has the handshake of a new DTLS association to run.  Under ICE that is an ICE
\* restart, and refused.
handleMediaUpdate(p) ==
  LET kind == peer[p].kind
      restart == kind = "newassoc" /\ med.agent # "none"
      open == ~med.closed /\ ~mediaUpdating
  IN
  /\ peer[p].pc = "updating"
  /\ \/ /\ ~open
        /\ Answers(p, IF med.closed THEN 487 ELSE 491, "end")
        /\ UNCHANGED <<mediaUpdating, ackOffer, med>>
     \/ /\ open /\ (kind = "badoffer" \/ restart)
        /\ Answers(p, IF restart THEN 488 ELSE 487, "end")
        /\ UNCHANGED <<mediaUpdating, ackOffer, med>>
     \/ /\ open /\ kind = "newassoc" /\ ~restart
        /\ med' = Rebind(med, p)
        /\ mediaUpdating' = TRUE
        /\ Answers(p, 200, "assoc")
        /\ UNCHANGED ackOffer
     \/ /\ open /\ kind = "offer"
        /\ med' = replaceRTPSessionUnsafe(Fork(med, p), p)
        /\ SetPeer(p, [peer[p] EXCEPT !.pc = "updated"])
        /\ UNCHANGED <<mediaUpdating, ackOffer>>
     \/ /\ open /\ kind = "nooffer"
        /\ med' = Fork(med, p)
        /\ ackOffer' = p
        /\ Answers(p, 200, "offer")
        /\ UNCHANGED mediaUpdating
  /\ UNCHANGED <<dialog, locks, updateDone, own, acks, bye, closer>>

\* The hooks have run, with mu released, and the 200 is built.
mediaUpdatedUnsafe(p) ==
  /\ peer[p].pc = "updated"
  /\ Answers(p, 200, "end")
  /\ UNCHANGED <<dialog, locks, updates, own, acks, bye, closer, med>>

\* The final response, under answerMu: none when the BYE gave it, and 487 once
\* the dialog has ended.  An offer that no 2xx carried is forgotten.
AnswerNotSent(p) ==
  /\ SetPeer(p, [peer[p] EXCEPT
       !.answered = TRUE,
       !.finals = IF peer[p].answered THEN @ ELSE Append(@, 487),
       !.pc = IF peer[p].then = "assoc" THEN "dropping" ELSE "ending"])
  /\ ackOffer' = IF ackOffer = p THEN Nobody ELSE ackOffer
  /\ UNCHANGED target

AnswerSent(p) ==
  /\ SetPeer(p, [peer[p] EXCEPT !.answered = TRUE, !.pc = "ending",
                                !.finals = Append(@, peer[p].res)])
  /\ UNCHANGED <<ackOffer, target>>

\* A 2xx moves the remote target and starts its retransmission, unless the
\* transaction fails to send it.
SuccessSent(p) ==
  /\ target' = p
  /\ \/ SetPeer(p, [peer[p] EXCEPT
          !.answered = TRUE, !.sent2xx = TRUE, !.finals = Append(@, 200),
          !.rtx = "running",
          !.pc = IF peer[p].then = "assoc" THEN "handshake" ELSE "ending"])
     \/ SetPeer(p, [peer[p] EXCEPT
          !.answered = TRUE, !.sent2xx = TRUE,
          !.pc = IF peer[p].then = "assoc" THEN "dropping" ELSE "ending"])
  /\ UNCHANGED ackOffer

MaySend(p) == ~peer[p].answered /\ ~ended

respondPeerReInvite(p) ==
  /\ peer[p].pc = "answering" /\ ~answerMu
  /\ \/ ~MaySend(p) /\ AnswerNotSent(p)
     \/ MaySend(p) /\ peer[p].res # 200 /\ AnswerSent(p)
     \/ MaySend(p) /\ peer[p].res = 200 /\ SuccessSent(p)
  /\ UNCHANGED <<ended, remoteCSeq, locks, updateDone, mediaUpdating, own, acks,
                 bye, closer, med>>

\* The handshake has ended: the fork is installed, unless it failed or the media
\* was closed, which ends the call.
AfterHandshake(ok) ==
  IF ended \/ (ok /\ ~med.closed) THEN "ending" ELSE "hangup"

answerNewAssociation(p) ==
  /\ peer[p].pc = "handshake"
  /\ mediaUpdating' = FALSE
  /\ \E ok \in BOOLEAN :
       /\ \/ /\ ok /\ ~ended /\ ~med.closed
             /\ med' = replaceRTPSessionUnsafe(med, p)
          \/ /\ ~ok \/ ended \/ med.closed
             /\ med' = discardForkUnsafe(med, p)
       /\ SetPeer(p, [peer[p] EXCEPT !.pc = AfterHandshake(ok)])
  /\ UNCHANGED <<dialog, locks, updateDone, ackOffer, own, acks, bye, closer>>

\* The 2xx of a new association was not sent.
AssociationDropped(p) ==
  /\ peer[p].pc = "dropping"
  /\ mediaUpdating' = FALSE
  /\ med' = discardForkUnsafe(med, p)
  /\ SetPeer(p, [peer[p] EXCEPT !.pc = "ending"])
  /\ UNCHANGED <<dialog, locks, updateDone, ackOffer, own, acks, bye, closer>>

\* The call ends without media.  hangup: after the 2xx; ackhangup: its ACK did
\* not come.
hangupNoMedia(p) ==
  /\ ended' = TRUE
  /\ \/ /\ peer[p].pc = "hangup"
        /\ SetPeer(p, [peer[p] EXCEPT !.pc = "ending"])
     \/ /\ peer[p].pc = "ackhangup"
        /\ SetPeer(p, [peer[p] EXCEPT !.pc = "unmarking"])
  /\ UNCHANGED <<remoteCSeq, target, locks, updates, own, acks, bye, closer, med>>

\* The handler waits for the retransmission of its 2xx to end.
endPeerReInvite(p) ==
  /\ peer[p].pc = "ending" /\ ~answerMu /\ peer[p].rtx # "running"
  /\ current' = IF current = p THEN Nobody ELSE current
  /\ SetPeer(p, [peer[p] EXCEPT
       !.pc = IF peer[p].ackErr THEN "ackhangup" ELSE "unmarking"])
  /\ UNCHANGED <<dialog, requestMu, answerMu, updates, own, acks, bye, closer, med>>

\* endMediaUpdate: only the update that was marked is unmarked.
Unmark(r) == IF updateDone = r THEN Nobody ELSE updateDone

ReInviteHandled(p) ==
  /\ peer[p].pc = "unmarking"
  /\ updateDone' = Unmark(p)
  /\ requestMu' = Nobody
  /\ SetPeer(p, [peer[p] EXCEPT !.pc = "done"])
  /\ UNCHANGED <<dialog, answerMu, current, mediaUpdating, ackOffer, own, acks,
                 bye, closer, med>>

-----------------------------------------------------------------------------
(* The goroutine of retransmitReInvite2xx.                                 *)

RetransmitAlways == TRUE
MayRetransmit == ~ended

\* The timer: another copy, or the end when the dialog has ended or the
\* transaction refuses it.
Retransmit(p) ==
  /\ peer[p].rtx = "running" /\ ~answerMu
  /\ \/ /\ ~MayRetransmit
        /\ SetPeer(p, [peer[p] EXCEPT !.rtx = "done"])
     \/ /\ MayRetransmit /\ peer[p].copies > 0
        /\ SetPeer(p, [peer[p] EXCEPT !.copies = @ - 1])
     \/ /\ MayRetransmit
        /\ SetPeer(p, [peer[p] EXCEPT !.rtx = "done", !.ackErr = TRUE])
  /\ UNCHANGED <<dialog, locks, updates, own, acks, bye, closer, med>>

StopOnAckOnly(p) ==
  /\ peer[p].rtx = "running" /\ (peer[p].acked \/ ended)
  /\ SetPeer(p, [peer[p] EXCEPT !.rtx = "done"])
  /\ UNCHANGED <<dialog, locks, updates, own, acks, bye, closer, med>>
StopRetransmit(p) ==
  /\ peer[p].rtx = "running"
  /\ \/ /\ peer[p].acked \/ ended
        /\ SetPeer(p, [peer[p] EXCEPT !.rtx = "done"])
     \/ SetPeer(p, [peer[p] EXCEPT !.rtx = "done", !.ackErr = TRUE])
  /\ UNCHANGED <<dialog, locks, updates, own, acks, bye, closer, med>>

-----------------------------------------------------------------------------
(* The ACKs to a 2xx: ReadAck and handleReInviteACK.                       *)

SetAck(k, r) == acks' = [acks EXCEPT ![k] = r]

Has2xx(p) == 200 \in {peer[p].finals[i] : i \in DOMAIN peer[p].finals}

\* A copy of an ACK is the ACK again, body included.
AckArrives(k) ==
  /\ acks[k].pc = "idle" /\ \A j \in Acks : j < k => acks[j].pc # "idle"
  /\ \E p \in Peers, b \in Bodies :
       /\ Has2xx(p)
       /\ peer[p].kind # "nooffer" => b = "none"
       /\ \A j \in Acks : acks[j].of = p => acks[j].body = b
       /\ SetAck(k, [acks[k] EXCEPT !.pc = "applying", !.of = p, !.body = b])
  /\ UNCHANGED <<dialog, locks, updates, peer, own, bye, closer, med>>

\* The ACK answers the offer of the 2xx once.
AnswersOffer(k) == ackOffer = acks[k].of

applyAckAnswer(k) ==
  LET p == acks[k].of IN
  /\ acks[k].pc = "applying"
  /\ \/ /\ ~AnswersOffer(k)
        /\ SetAck(k, [acks[k] EXCEPT !.pc = "acking"])
        /\ UNCHANGED <<ackOffer, med>>
     \/ /\ AnswersOffer(k)
        /\ ackOffer' = Nobody
        /\ \/ /\ med.closed \/ acks[k].body = "none"
              /\ med' = discardForkUnsafe(med, p)
              /\ SetAck(k, [acks[k] EXCEPT !.pc = "acking"])
           \/ /\ ~med.closed /\ acks[k].body = "bad"
              /\ med' = discardForkUnsafe(med, p)
              /\ SetAck(k, [acks[k] EXCEPT !.pc = "acking", !.failed = TRUE])
           \/ /\ ~med.closed /\ acks[k].body = "answer"
              /\ med' = replaceRTPSessionUnsafe(med, p)
              /\ SetAck(k, [acks[k] EXCEPT !.pc = "acking"])
  /\ UNCHANGED <<dialog, locks, updateDone, mediaUpdating, peer, own, bye, closer>>

AckMatches(p) == current = p /\ peer[p].sent2xx

ackPeerReInvite(k) ==
  LET p == acks[k].of IN
  /\ acks[k].pc = "acking" /\ ~answerMu
  /\ SetPeer(p, [peer[p] EXCEPT !.acked = @ \/ AckMatches(p)])
  /\ SetAck(k, [acks[k] EXCEPT !.pc = IF acks[k].failed THEN "hangup" ELSE "done"])
  /\ UNCHANGED <<dialog, locks, updates, own, bye, closer, med>>

AckHangup(k) ==
  /\ acks[k].pc = "hangup"
  /\ ended' = TRUE
  /\ SetAck(k, [acks[k] EXCEPT !.pc = "done"])
  /\ UNCHANGED <<remoteCSeq, target, locks, updates, peer, own, bye, closer, med>>

-----------------------------------------------------------------------------
(* The peer's BYE, and the calls that end the dialog and close its media.  *)

\* readByeOnce takes the BYE, which ends the dialog, or refuses it.
ReadBye ==
  /\ bye = "none" /\ ~answerMu
  /\ \/ answerMu' = TRUE /\ ended' = TRUE /\ bye' = "answering"
     \/ bye' = "refused" /\ UNCHANGED <<answerMu, ended>>
  /\ UNCHANGED <<remoteCSeq, target, requestMu, current, updates, peer, own, acks,
                 closer, med>>

CurrentReInvite == {p \in Peers : current = p}
PendingReInvite == {p \in Peers : current = p /\ ~peer[p].answered}

\* The 200 to the BYE is out, and a re-INVITE still pending is answered 487; or
\* the 200 could not be sent.  answerMu is released.
terminatePeerReInviteLocked ==
  /\ bye = "answering"
  /\ \/ peer' = [p \in Peers |->
          IF p \in PendingReInvite
          THEN [peer[p] EXCEPT !.answered = TRUE, !.finals = Append(@, 487)]
          ELSE peer[p]]
     \/ UNCHANGED peer
  /\ answerMu' = FALSE
  /\ bye' = "answered"
  /\ UNCHANGED <<dialog, requestMu, current, updates, own, acks, closer, med>>

\* The application's Hangup sends a BYE of ours.
Hangup ==
  /\ ~ended
  /\ ended' = TRUE
  /\ UNCHANGED <<remoteCSeq, target, locks, updates, peer, own, acks, bye, closer,
                 med>>

SetCloser(c, r) == closer' = [closer EXCEPT ![c] = r]

\* DialogMedia.Close takes what it closes under mu, once.  The BYE's handler
\* calls it, and the application may.
Latch(m) == [m EXCEPT !.closed = TRUE, !.iceOwner = Nobody]

Close(c) ==
  /\ closer[c].pc = "idle"
  /\ c = "bye" => bye = "answered"
  /\ \/ /\ med.closed
        /\ SetCloser(c, [closer[c] EXCEPT !.pc = "done"])
        /\ UNCHANGED med
     \/ /\ ~med.closed
        /\ med' = Latch(med)
        /\ SetCloser(c, [pc |-> "closing", media |-> med.installed,
                         owner |-> med.iceOwner])
  /\ UNCHANGED <<dialog, locks, updates, peer, own, acks, bye>>

ReleasePort(m) == [m EXCEPT !.released = @ + 1]

\* The sockets, with mu released; then the agent; then the port.
CloseStep(c) ==
  LET r == closer[c] IN
  /\ \/ /\ r.pc = "closing"
        /\ med' = CloseSession(med, r.media)
        /\ SetCloser(c, [r EXCEPT
             !.pc = IF r.owner \in {Nobody, r.media} THEN "releasing" ELSE "owner"])
     \/ /\ r.pc = "owner"
        /\ med' = CloseSession(med, r.owner)
        /\ SetCloser(c, [r EXCEPT !.pc = "releasing"])
     \/ /\ r.pc = "releasing"
        /\ med' = ReleasePort(med)
        /\ SetCloser(c, [r EXCEPT !.pc = "done"])
  /\ UNCHANGED <<dialog, locks, updates, peer, own, acks, bye>>

-----------------------------------------------------------------------------
(* Our re-INVITEs: reInviteMedia and reInviteMediaOnce.                    *)

SetOwn(o, pc) == own' = [own EXCEPT ![o].pc = pc]

ReInvite(o) ==
  /\ own[o].pc = "idle"
  /\ SetOwn(o, "begin")
  /\ UNCHANGED <<dialog, locks, updates, peer, acks, bye, closer, med>>

BeginAlways == TRUE
MayBegin == updateDone = Nobody

\* ... and the fork of the installed session that the offer is made by.
beginOwnMediaUpdate(o) ==
  /\ own[o].pc = "begin"
  /\ \/ /\ med.closed
        /\ SetOwn(o, "done")
        /\ UNCHANGED <<updateDone, med>>
     \/ /\ ~med.closed /\ MayBegin
        /\ updateDone' = o
        /\ med' = Fork(med, o)
        /\ own' = [own EXCEPT ![o] = [pc |-> "sent", tries |-> @.tries + 1]]
  /\ UNCHANGED <<dialog, locks, mediaUpdating, ackOffer, peer, acks, bye, closer>>

\* A 491 is retried, any other failure discards the fork.
reInviteSend(o) ==
  /\ own[o].pc = "sent"
  /\ \/ /\ own[o].tries < MaxTries
        /\ SetOwn(o, "pending")
        /\ UNCHANGED med
     \/ /\ SetOwn(o, "ending")
        /\ med' = discardForkUnsafe(med, o)
     \/ /\ SetOwn(o, "answered")
        /\ UNCHANGED med
  /\ UNCHANGED <<dialog, locks, updates, peer, acks, bye, closer>>

MayInstall == ~med.closed /\ ~ended

\* The answer moves the target, and the fork is installed if it applies.
reInviteMediaOnce(o) ==
  /\ own[o].pc = "answered"
  /\ SetOwn(o, "ending")
  /\ \/ /\ ~MayInstall
        /\ med' = discardForkUnsafe(med, o)
        /\ UNCHANGED target
     \/ /\ MayInstall
        /\ target' = o
        /\ \/ med' = discardForkUnsafe(med, o)
           \/ med' = replaceRTPSessionUnsafe(med, o)
  /\ UNCHANGED <<ended, remoteCSeq, locks, updates, peer, acks, bye, closer>>

endMediaUpdate(o) ==
  /\ own[o].pc \in {"ending", "pending"}
  /\ updateDone' = Unmark(o)
  /\ SetOwn(o, IF own[o].pc = "pending" THEN "retrying" ELSE "done")
  /\ UNCHANGED <<dialog, locks, mediaUpdating, ackOffer, peer, acks, bye, closer, med>>

reInviteRetryWait(o) ==
  /\ own[o].pc = "retrying"
  /\ SetOwn(o, "begin")
  /\ UNCHANGED <<dialog, locks, updates, peer, acks, bye, closer, med>>

\* The caller's context ends a wait: the one before a retry, or the one in
\* beginOwnMediaUpdate.
CtxEnds(o) ==
  /\ \/ /\ own[o].pc = "retrying"
        /\ SetOwn(o, "done")
        /\ med' = discardForkUnsafe(med, o)
     \/ /\ own[o].pc = "begin" /\ ~MayBegin
        /\ SetOwn(o, "done")
        /\ UNCHANGED med
  /\ UNCHANGED <<dialog, locks, updates, peer, acks, bye, closer>>

-----------------------------------------------------------------------------
PeerStep(p) ==
  \/ beginPeerReInvite(p) \/ ReadReInvite(p) \/ handleMediaUpdate(p)
  \/ mediaUpdatedUnsafe(p) \/ respondPeerReInvite(p) \/ answerNewAssociation(p)
  \/ AssociationDropped(p) \/ hangupNoMedia(p) \/ endPeerReInvite(p)
  \/ ReInviteHandled(p) \/ StopRetransmit(p)

AckStep(k) == applyAckAnswer(k) \/ ackPeerReInvite(k) \/ AckHangup(k)

OwnStep(o) ==
  \/ beginOwnMediaUpdate(o) \/ reInviteSend(o) \/ reInviteMediaOnce(o)
  \/ endMediaUpdate(o) \/ reInviteRetryWait(o)

Next ==
  \/ \E p \in Peers : ReInviteArrives(p) \/ PeerStep(p) \/ Retransmit(p)
  \/ \E k \in Acks : AckArrives(k) \/ AckStep(k)
  \/ \E o \in Owns : ReInvite(o) \/ OwnStep(o) \/ CtxEnds(o)
  \/ \E c \in Closers : Close(c) \/ CloseStep(c)
  \/ ReadBye \/ terminatePeerReInviteLocked \/ Hangup

Spec == Init /\ [][Next]_vars

\* A handler that can go on does: every wait inside it is bounded, the one for an
\* ACK by 64*T1, a handshake by the dialog's context and a timeout, a request of
\* ours by its transaction.  Nothing arrives, and no context ends, by fairness.
FairSpec ==
  /\ Spec
  /\ \A p \in Peers : WF_vars(PeerStep(p))
  /\ \A k \in Acks : WF_vars(AckStep(k))
  /\ \A o \in Owns : WF_vars(OwnStep(o))
  /\ \A c \in Closers : WF_vars(CloseStep(c))
  /\ WF_vars(Close("bye")) /\ WF_vars(terminatePeerReInviteLocked)

-----------------------------------------------------------------------------
(* The properties.                                                         *)

\* The state has its types.
TypeOK ==
  /\ ended \in BOOLEAN /\ answerMu \in BOOLEAN /\ mediaUpdating \in BOOLEAN
  /\ requestMu \in Peers \cup {Nobody} /\ current \in Peers \cup {Nobody}
  /\ remoteCSeq \in Peers \cup {0} /\ ackOffer \in Peers \cup {Nobody}
  /\ updateDone \in Peers \cup Owns \cup {Nobody}
  /\ target \in {Setup} \cup Peers \cup Owns
  /\ peer \in [Peers -> Peer] /\ own \in [Owns -> Own] /\ acks \in [Acks -> Ack]
  /\ bye \in {"none", "refused", "answering", "answered"}
  /\ closer \in [Closers -> Closer] /\ med \in Media

\* No 2xx to a re-INVITE, and no copy of one, is sent once a BYE of the peer's
\* has been taken: "so the peer never gets a 200 to the re-INVITE after the one
\* to its BYE" (ReadBye), "none follows the 200 to a BYE"
\* (retransmitReInvite2xx).
ByeTaken == bye \in {"answering", "answered"}
NoSuccessAfterBye ==
  [][ByeTaken =>
       \A p \in Peers : /\ peer'[p].copies = peer[p].copies
                        /\ (Has2xx(p)' => Has2xx(p))]_vars

\* Every re-INVITE of the peer's gets one final response, whether its handler, the
\* BYE's handler or the end of the dialog gives it; none only when the transaction
\* failed to send the 2xx.
OneFinalResponse ==
  \A p \in Peers :
    /\ Len(peer[p].finals) <= 1
    /\ peer[p].pc = "done" =>
         Len(peer[p].finals) = 1 \/ (peer[p].sent2xx /\ peer[p].rtx = "none")

\* One re-INVITE at a time, in either direction (RFC 3261 section 14): one of ours
\* is never out while another of ours is, nor between the media update and the
\* ACK of one of the peer's.
OwnOut(o) == own[o].pc \in {"sent", "answered"}
PeerUpdates(p) ==
  \/ peer[p].pc \in {"updating", "updated", "handshake", "dropping", "hangup"}
  \/ peer[p].rtx = "running"
ReInvitesExclusive ==
  /\ \A o, q \in Owns : OwnOut(o) /\ OwnOut(q) => o = q
  /\ \A o \in Owns, p \in Peers : ~(OwnOut(o) /\ PeerUpdates(p))
  /\ \A p, q \in Peers : PeerUpdates(p) /\ PeerUpdates(q) => p = q

\* Nothing of the media is left behind or given back while it is in use, whichever
\* session was installed when Close came: sockets that are open are the installed
\* session's, until Close has closed it, or those of a fork whose handler is still
\* to install or discard it; and the allocated port is released at most once, with
\* the call's sockets and its ICE agent closed (discardForkUnsafe,
\* replaceRTPSessionUnsafe, DialogMedia.Close, RTPPortAllocator).
MediaDown ==
  med.released > 0 \/ \E c \in Closers : closer[c].pc \in {"owner", "releasing"}
NothingLeaks ==
  /\ \A s \in Sessions : med.sock[s] = "open" =>
       \/ s = med.on[med.installed] /\ ~MediaDown
       \/ s \in Peers /\ peer[s].pc \in {"answering", "handshake", "dropping"}
  /\ med.released <= 1
  /\ med.released = 1 => med.sock[Setup] # "open" /\ med.agent # "open"

\* Every re-INVITE of the peer's is handled to its end, the ACK coming or not: a
\* time comes when none of them is being handled.
Handled == \A p \in Peers : peer[p].pc \in {"absent", "idle", "done"}
EveryReInviteEnds == ~Handled ~> Handled

=============================================================================
