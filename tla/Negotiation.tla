---------------------------- MODULE Negotiation ----------------------------
(***************************************************************************)
(* The offer/answer exchanges of one call (media/media_session.go): what   *)
(* LocalSDP writes, RemoteSDP applies or refuses, and Fork carries from    *)
(* one exchange to the next, on the media sessions of both ends: codecs    *)
(* and payload types, direction, m= lines, SDES keys, the DTLS association *)
(* and the ICE pair.                                                       *)
(*                                                                         *)
(* Both ends run this code; end "b" may also stand for a foreign one, which*)
(* writes no tls-id, names DTLS-SRTP RTP/SAVP and offers video.  Exchanges *)
(* do not overlap (MediaUpdate).  A socket, key, tls-id or ICE credential  *)
(* is named by the end that made it and the exchange it made it in.  The   *)
(* o= line, SDPSetupRole and DTLSRole are left out.                        *)
(***************************************************************************)
EXTENDS Naturals, Sequences, SequencesExt

CONSTANTS
  CodecsA, CodecsB,  \* the codec lists each end may be set up with
  None,
  MaxRounds          \* bound: the re-INVITEs of the call

VARIABLES
  conf,    \* the package's options, and whether "b" is foreign
  round,   \* the exchange: 0 is the INVITE's, then one per re-INVITE
  ex,      \* where the exchange is, and who made the offer
  wire,    \* the last SDP sent
  fork,    \* fork[e]: the session e negotiates with
  inst,    \* inst[e]: the installed session, None before the first answer
  mlines   \* the m= lines of the last answer

vars == <<conf, round, ex, wire, fork, inst, mlines>>

Ends == {"a", "b"}
Other(e) == CHOOSE o \in Ends : o # e

-----------------------------------------------------------------------------
(***************************************************************************)
(* A MediaSession.  secure is SecureRTP; local and remote are the keys of  *)
(* localCtxSRTP and remoteCtxSRTP; pending is the association onFinalize   *)
(* is armed for, and assoc the one the handshake completed.                *)
(***************************************************************************)
NewSession(e, codecs, secure, lite) ==
  [who |-> e, codecs |-> codecs, filter |-> <<>>, Mode |-> "sendrecv",
   mode |-> None, secure |-> IF secure = "ice" THEN "dtls" ELSE secure,
   ice |-> secure = "ice", lite |-> lite, laddr |-> <<e, 0>>, raddr |-> None,
   isAnswer |-> FALSE, remoteProto |-> None, local |-> None, remote |-> None,
   remoteSetup |-> None, tlsID |-> None, remoteTLSID |-> None,
   pending |-> None, assoc |-> None, remoteLite |-> FALSE, remoteICE |-> None,
   agent |-> IF secure = "ice" THEN <<e, 0>> ELSE None, pair |-> None,
   streams |-> IF e = "b" /\ conf.foreign THEN <<"video", "audio">> ELSE <<>>]

\* Fork carries what belongs to the call, and drops what one exchange settled.
ForCall(s) ==
  [s EXCEPT !.filter = <<>>, !.mode = None, !.raddr = None, !.remoteProto = None,
            !.local = IF s.assoc = None THEN None ELSE @,
            !.remote = IF s.assoc = None THEN None ELSE @,
            !.remoteSetup = None, !.remoteTLSID = None, !.pending = None,
            !.remoteLite = FALSE, !.remoteICE = None, !.agent = None]
AudioFork(s) == [ForCall(s) EXCEPT !.streams = <<>>]
Fork(s) == ForCall(s)

\* Init on a new Laddr: sockets of its own, and under ICE an agent of its own.
Rebound(s) ==
  [s EXCEPT !.laddr = <<s.who, round>>,
            !.agent = IF s.ice THEN <<s.who, round>> ELSE None]

answeringOffer(s) == s.remoteProto # None /\ ~s.isAnswer

localDTLSSetup(s) ==
  CASE s.remoteSetup = "active" -> "passive"
    [] s.remoteSetup \in {"passive", "actpass"} -> "active"
    [] OTHER -> IF answeringOffer(s) THEN "active" ELSE "actpass"

-----------------------------------------------------------------------------
(* LocalSDP.                                                               *)

activeCodecs(s) == IF s.filter # <<>> THEN s.filter ELSE s.codecs

\* Our side of the association is not what it was.
localChangedBy(s) == ~s.ice /\ s.laddr # s.assoc.laddr

localSDPTLSID(s) ==
  CASE answeringOffer(s) -> IF s.remoteTLSID = None THEN None ELSE s.tlsID
    [] ~answeringOffer(s) /\ s.assoc # None /\ ~localChangedBy(s) -> s.assoc.tlsID
    [] ~answeringOffer(s) /\ s.assoc # None /\ localChangedBy(s) ->
         IF s.tlsID = s.assoc.tlsID THEN <<s.who, round>> ELSE s.tlsID
    [] OTHER -> IF s.tlsID = None THEN <<s.who, round>> ELSE s.tlsID

\* SDES is offered, or answered to a peer that offered it, with a new key.
WritesCrypto(s) == s.secure = "sdes" /\ (s.raddr = None \/ s.remote # None)

IsForeign(s) == conf.foreign /\ s.who = "b"

\* An answer's profile is the offer's.
RtpProfile(s) ==
  CASE answeringOffer(s) -> s.remoteProto
    [] ~answeringOffer(s) /\ s.secure = "dtls" ->
         IF IsForeign(s) THEN "RTP/SAVP" ELSE "UDP/TLS/RTP/SAVP"
    [] OTHER -> IF WritesCrypto(s) /\ ~conf.savpDisable THEN "RTP/SAVP" ELSE "RTP/AVP"

\* An answer that continues the association does not change its roles.
WrittenSetup(s) ==
  IF s.assoc # None /\ answeringOffer(s) THEN s.assoc.setup ELSE localDTLSSetup(s)

ICESetup(s) ==
  CASE s.agent # None -> s.agent
    [] s.agent = None /\ s.pair # None -> s.pair.local
    [] OTHER -> None

\* The stream list of the last offer, the streams but the audio rejected in place.
Mlines(s) == IF s.streams = <<>> THEN <<"audio">> ELSE s.streams

\* The session as LocalSDP leaves it, and the SDP it then writes.
Wrote(s) ==
  [s EXCEPT !.local = IF WritesCrypto(s) THEN <<s.who, round>> ELSE @,
            !.tlsID = IF s.secure = "dtls" /\ ~answeringOffer(s)
                      THEN localSDPTLSID(s) ELSE @]

LocalSDP(s) ==
  LET dtls == s.secure = "dtls" IN
  [proto |-> RtpProfile(s), codecs |-> activeCodecs(s),
   mode |-> IF s.mode = None THEN s.Mode ELSE s.mode,
   crypto |-> IF WritesCrypto(s) THEN <<s.who, round>> ELSE None,
   setup |-> IF dtls THEN WrittenSetup(s) ELSE None,
   fingerprint |-> IF dtls THEN s.who ELSE None,
   tlsID |-> IF dtls /\ ~IsForeign(s) THEN localSDPTLSID(s) ELSE None,
   ice |-> ICESetup(s), lite |-> s.lite, addr |-> s.laddr,
   streams |-> Mlines(s)]

-----------------------------------------------------------------------------
(* RemoteSDP.                                                              *)

codecMatch(l, r) == l.name = r.name

LocalNumber(l, r) == l
negotiatedCodec(l, r) == [l EXCEPT !.pt = r.pt]

\* The first codec of cs that matches c, as a sequence of at most one.
FirstMatch(c, cs) ==
  LET m == SelectSeq(cs, LAMBDA d : codecMatch(c, d))
  IN  IF m = <<>> THEN <<>> ELSE <<Head(m)>>

updateRemoteCodecs(s, codecs) ==
  IF conf.preferLocal /\ ~s.isAnswer
  THEN FlattenSeq([i \in DOMAIN s.codecs |->
         LET m == FirstMatch(s.codecs[i], codecs)
         IN  IF m = <<>> THEN m ELSE <<negotiatedCodec(s.codecs[i], m[1])>>])
  ELSE FlattenSeq([i \in DOMAIN codecs |->
         LET m == FirstMatch(codecs[i], s.codecs)
         IN  IF m = <<>> THEN m ELSE <<negotiatedCodec(m[1], codecs[i])>>])

negotiateMediaDirection(remote, pref) ==
  CASE remote = "inactive" \/ pref = "inactive" -> "inactive"
    [] remote = "sendonly" /\ pref # "inactive" -> "recvonly"
    [] remote = "recvonly" /\ pref # "inactive" -> "sendonly"
    [] OTHER -> pref

\* SDES takes a key only where an algorithm is set.
TakenKey(s, m) == IF m.crypto # None /\ s.secure # "none" THEN m.crypto ELSE s.remote

\* A secured profile without a fingerprint asks for SDES.
secureRequest(m) == m.proto = "RTP/SAVP" /\ m.fingerprint = None

\* With an agent the credentials are fed to it; a fork only takes those of the
\* pair it continues.
ICERefused(s, m) ==
  s.ice /\ (\/ m.ice = None
            \/ s.agent = None /\ (s.pair = None \/ m.ice # s.pair.remote))

dtlsRoleAgainst(setup) ==
  CASE setup = "active" -> "passive" [] setup = "passive" -> "active" [] OTHER -> None

changedBy(s, m) ==
  LET role == dtlsRoleAgainst(m.setup) IN
  \/ role # None /\ role # s.assoc.setup
  \/ m.tlsID # None /\ m.tlsID # s.assoc.remoteTLSID
  \/ ~s.ice /\ s.laddr # s.assoc.laddr
  \/ ~s.ice /\ m.tlsID = None /\ m.addr # s.assoc.raddr

\* A new association under ICE needs a restart; an answer asking for one can no
\* longer move the sockets of the offer.
AssociationRefused(s, m) ==
  /\ s.assoc # None /\ changedBy(s, m)
  /\ s.ice \/ (s.laddr = s.assoc.laddr /\ s.isAnswer)

DTLSRefused(s, m) ==
  s.secure = "dtls" /\ (m.fingerprint = None \/ AssociationRefused(s, m))

Refuses(s, m) ==
  \/ updateRemoteCodecs(s, m.codecs) = <<>>
  \/ ICERefused(s, m)
  \/ DTLSRefused(s, m)
  \/ secureRequest(m) /\ TakenKey(s, m) = None

\* An answer with a new association needs sockets of its own, and binding them may
\* fail.
NeedsSockets(s, m) ==
  /\ s.secure = "dtls" /\ s.assoc # None /\ changedBy(s, m)
  /\ s.laddr = s.assoc.laddr

\* A new association gets our new tls-id if the offer had one.
newAnswerTLSID(s, m) ==
  CASE s.isAnswer -> s.tlsID
    [] ~s.isAnswer /\ m.tlsID # None -> <<s.who, round>>
    [] OTHER -> None

armDTLSHandshake(s) ==
  [s EXCEPT !.pending =
     [setup |-> IF localDTLSSetup(s) = "active" THEN "active" ELSE "passive",
      tlsID |-> s.tlsID, remoteTLSID |-> s.remoteTLSID,
      laddr |-> s.laddr, raddr |-> s.raddr]]

\* An answering session moves to sockets of its own before it arms.
negotiateDTLSAssociation(s, m) ==
  IF s.assoc # None /\ ~changedBy(s, m) THEN s
  ELSE armDTLSHandshake([s EXCEPT
         !.laddr = IF NeedsSockets(s, m) THEN <<s.who, round>> ELSE @,
         !.assoc = None, !.local = None, !.remote = None,
         !.tlsID = newAnswerTLSID(s, m)])

\* What RemoteSDP takes for every session.
Heard(s, m) ==
  [s EXCEPT !.remoteProto = m.proto, !.filter = updateRemoteCodecs(s, m.codecs),
            !.streams = IF s.isAnswer THEN @ ELSE m.streams,
            !.raddr = m.addr,
            !.mode = negotiateMediaDirection(m.mode, s.Mode),
            !.remote = TakenKey(s, m),
            !.remoteICE = IF s.ice THEN m.ice ELSE @,
            !.remoteLite = IF s.agent # None THEN m.lite ELSE @]

\* An offerer whose peer took no key sends in the clear.
Cleared(s, m) ==
  IF s.remote = None /\ ~secureRequest(m) THEN [s EXCEPT !.local = None] ELSE s

RemoteSDP(s, m) ==
  LET heard == Heard(s, m) IN
  IF s.secure # "dtls" THEN Cleared(heard, m)
  ELSE negotiateDTLSAssociation(
         [heard EXCEPT !.remoteSetup = m.setup, !.remoteTLSID = m.tlsID], m)

-----------------------------------------------------------------------------
(* The exchanges.                                                          *)

\* An offer that renegotiates nothing carries the codecs the call runs on.
negotiatedOffer(s, cur) ==
  LocalSDP(IF cur.filter = <<>> THEN s ELSE [s EXCEPT !.codecs = cur.filter])

Ops == {"refresh", "hold", "unhold", "move", "video"}

\* What a re-INVITE of e's offers with.  Only a foreign end adds a stream.
OfferFork(e, op) ==
  LET f == Fork(inst[e]) IN
  CASE op = "hold" -> [f EXCEPT !.Mode = "sendonly"]
    [] op = "unhold" -> [f EXCEPT !.Mode = "sendrecv"]
    [] op = "video" -> [f EXCEPT !.streams = Append(mlines, "video")]
    [] OTHER -> f

Secures == {"none", "sdes", "dtls", "ice"}

Init ==
  /\ conf \in [foreign : BOOLEAN, savpDisable : BOOLEAN, preferLocal : BOOLEAN]
  /\ round = 0
  /\ \E e \in Ends : ex = [pc |-> "start", from |-> e, op |-> "invite"]
  /\ wire = None /\ mlines = <<>>
  /\ \E ca \in CodecsA, cb \in CodecsB, sa, sb \in Secures, lite \in [Ends -> BOOLEAN] :
       /\ lite["a"] => sa = "ice"
       /\ lite["b"] => sb = "ice"
       /\ fork = [e \in Ends |-> IF e = "a" THEN NewSession(e, ca, sa, lite[e])
                                            ELSE NewSession(e, cb, sb, lite[e])]
  /\ inst = [e \in Ends |-> None]

Invite ==
  LET e == ex.from IN
  /\ ex.pc = "start"
  /\ wire' = LocalSDP(fork[e])
  /\ fork' = [fork EXCEPT ![e] = Wrote(fork[e])]
  /\ ex' = [ex EXCEPT !.pc = "offered"]
  /\ UNCHANGED <<conf, round, inst, mlines>>

\* The exchange number is drawn first: the fork's sockets and ids are named by it.
ReInvite(e, op) ==
  /\ ex.pc = "idle" /\ round < MaxRounds
  /\ op = "video" => e = "b" /\ conf.foreign /\ Len(mlines) < 3
  /\ round' = round + 1
  /\ ex' = [pc |-> "forked", from |-> e, op |-> op]
  /\ fork' = [fork EXCEPT ![e] = OfferFork(e, op)]
  /\ UNCHANGED <<conf, wire, inst, mlines>>

SendOffer ==
  LET e == ex.from
      f == IF ex.op = "move" THEN Rebound(fork[e]) ELSE fork[e]
  IN
  /\ ex.pc = "forked"
  /\ wire' = IF ex.op = "refresh" THEN negotiatedOffer(f, inst[e]) ELSE LocalSDP(f)
  /\ fork' = [fork EXCEPT ![e] = Wrote(f)]
  /\ ex' = [ex EXCEPT !.pc = "offered"]
  /\ UNCHANGED <<conf, round, inst, mlines>>

\* The session the offer is applied to: the one set up for the call, or a fork.
Answering(e) ==
  IF inst[e] = None THEN fork[e] ELSE Fork([inst[e] EXCEPT !.isAnswer = FALSE])

\* A refused offer ends the call's setup, or leaves the call as it was.
Over == ex' = [ex EXCEPT !.pc = "over"]
RefuseOffer ==
  LET e == Other(ex.from) IN
  /\ ex.pc = "offered"
  /\ Refuses(Answering(e), wire) \/ NeedsSockets(Answering(e), wire)
  /\ \/ round = 0 /\ Over /\ UNCHANGED inst
     \/ /\ round > 0
        /\ ex' = [ex EXCEPT !.pc = "idle"]
        /\ inst' = [inst EXCEPT ![e].isAnswer = FALSE]
  /\ UNCHANGED <<conf, round, wire, fork, mlines>>

\* The answer.  A session with a handshake to run is installed after it.
AcceptOffer ==
  LET e == Other(ex.from)
      s == RemoteSDP(Answering(e), wire)
      w == Wrote(s)
  IN
  /\ ex.pc = "offered" /\ ~Refuses(Answering(e), wire)
  /\ wire' = LocalSDP(s)
  /\ mlines' = wire'.streams
  /\ fork' = [fork EXCEPT ![e] = w]
  /\ inst' = IF s.pending = None THEN [inst EXCEPT ![e] = w] ELSE inst
  /\ ex' = [ex EXCEPT !.pc = "answered"]
  /\ UNCHANGED <<conf, round>>

Answered(e) == [fork[e] EXCEPT !.isAnswer = TRUE]
Pending(e) == fork[e].pending # None

\* An answer that is refused ends the setup; a re-INVITE only drops its fork.
RefuseAnswer ==
  LET e == ex.from IN
  /\ ex.pc = "answered" /\ Refuses(Answered(e), wire)
  /\ ex' = [ex EXCEPT !.pc = IF round = 0 THEN "over"
                             ELSE IF Pending(Other(e)) THEN "keying" ELSE "idle"]
  /\ UNCHANGED <<conf, round, wire, fork, inst, mlines>>

ApplyAnswer ==
  LET e == ex.from
      s == RemoteSDP(Answered(e), wire)
  IN
  /\ ex.pc = "answered" /\ ~Refuses(Answered(e), wire)
  /\ fork' = [fork EXCEPT ![e] = s]
  /\ \/ /\ s.pending = None /\ ~Pending(Other(e))
        /\ inst' = [inst EXCEPT ![e] = s]
        /\ ex' = [ex EXCEPT !.pc = "idle"]
     \/ /\ s.pending # None \/ Pending(Other(e))
        /\ ex' = [ex EXCEPT !.pc = "keying"]
        /\ UNCHANGED inst
  /\ UNCHANGED <<conf, round, wire, mlines>>

iceControlling(s) ==
  IF s.lite # s.remoteLite THEN ~s.lite ELSE ~answeringOffer(s)

Client(e) == fork[e].pending.setup = "active"

\* The handshake can complete: each end plays its part, where the other sends.
Meets ==
  /\ \A e \in Ends : Pending(e)
  /\ Client("a") # Client("b")
  /\ \A e \in Ends : fork[e].raddr = fork[Other(e)].laddr
  /\ fork["a"].ice => iceControlling(fork["a"]) # iceControlling(fork["b"])

\* The association is recorded with the keys it gave, and under ICE the pair.
Keyed(s) ==
  [s EXCEPT !.local = <<s.pending.setup, round>>,
            !.remote = <<IF s.pending.setup = "active" THEN "passive" ELSE "active",
                         round>>,
            !.assoc = s.pending, !.pending = None,
            !.pair = IF s.ice THEN [local |-> s.agent, remote |-> s.remoteICE] ELSE @]

Finalize ==
  /\ ex.pc = "keying" /\ Meets
  /\ inst' = [e \in Ends |-> Keyed(fork[e])]
  /\ ex' = [ex EXCEPT !.pc = "idle"]
  /\ UNCHANGED <<conf, round, wire, fork, mlines>>

\* A handshake that fails ends the call, at setup and after a re-INVITE.
FinalizeFails ==
  /\ ex.pc = "keying"
  /\ Over
  /\ UNCHANGED <<conf, round, wire, fork, inst, mlines>>

Next ==
  \/ Invite \/ SendOffer \/ RefuseOffer \/ AcceptOffer \/ RefuseAnswer
  \/ ApplyAnswer \/ Finalize \/ FinalizeFails
  \/ \E e \in Ends, op \in Ops : ReInvite(e, op)

Spec == Init /\ [][Next]_vars

-----------------------------------------------------------------------------
(* The properties.                                                         *)

\* The state has its types.
TypeOK ==
  /\ round \in 0..MaxRounds
  /\ ex \in [pc : {"start", "forked", "offered", "answered", "keying", "idle", "over"},
             from : Ends, op : Ops \cup {"invite"}]
  /\ mlines \in Seq({"audio", "video"})
  /\ \A e \in Ends : fork[e].who = e /\ (inst[e] # None => inst[e].who = e)

Sends(s) == s.mode \in {"sendrecv", "sendonly"}
Receives(s) == s.mode \in {"sendrecv", "recvonly"}

\* Between two exchanges the ends agree on the call's media, whichever of them
\* offered, held, refreshed or refused before: the same codecs by the same payload
\* types in the same order, one sends where the other receives, each encrypts with
\* the key the other decrypts with or neither encrypts, and each sends to the
\* socket the other has.  A handshake is only run by both ends together, with one
\* DTLS client and, under ICE, one controlling agent, over the sockets both
\* signalled: the role advertised and the role played are one decision
\* (localDTLSSetup), and the ends agree on whether an SDP asks for a new
\* association (changedBy).
EndsAgree ==
  /\ ex.pc = "idle" =>
       \A e \in Ends :
         LET s == inst[e]
             o == inst[Other(e)]
         IN  /\ s.filter = o.filter
             /\ Sends(s) = Receives(o)
             /\ s.local = o.remote
             /\ s.raddr = o.laddr
  /\ ex.pc = "keying" => Meets

\* An answer has the m= lines of its offer, and every later offer keeps those of
\* the last answer in their places (RFC 3264 sections 6 and 8), across forks and
\* refused offers.
StreamsKept ==
  [][/\ ex.pc = "offered" /\ ex'.pc = "answered" => wire'.streams = wire.streams
     /\ ex.pc = "forked" => IsPrefix(mlines, wire'.streams)]_vars

=============================================================================
