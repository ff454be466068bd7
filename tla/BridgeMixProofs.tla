-------------------------- MODULE BridgeMixProofs --------------------------
(***************************************************************************)
(* Proofs about BridgeMix, for any dialogs, callers and codecs and any     *)
(* number of joins, leaves, re-INVITEs and hang-ups: the mix reads only    *)
(* members, it follows their codecs, and it outlives a member's hang-up.   *)
(***************************************************************************)
EXTENDS BridgeMix, TLAPS

-----------------------------------------------------------------------------
(* The inductive invariant *)

\* A dialog is in the bridge once, and each has the hook.
Distinct(s) == \A i, j \in DOMAIN s : s[i] = s[j] => i = j
Joined == Distinct(dialogs) /\ Range(dialogs) \subseteq hooked

\* An operation is on a dialog, and a dialog's own is its update.
Called ==
    \A p \in Procs : call[p].at # "idle" =>
        call[p].d \in Dialogs /\ (p \in Dialogs => call[p].op = "update")

\* One process stops the mix or starts one; the mix is stopping exactly while it drains.
Stopping(p) == call[p].at \in {"drain", "start"}
Turns ==
    /\ \A p, q \in Procs : Stopping(p) /\ Stopping(q) => p = q
    /\ \A p \in Procs : call[p].at = "drain" => mixState = 2
    /\ mixState = 2 => \E p \in Procs : call[p].at = "drain"

\* From the end of a stop to the start nothing is read, mixed or kept from reading.
Fresh ==
    ~Unlocked =>
        /\ mixState = 0 /\ mix.at = "none"
        /\ \A d \in Dialogs : reader[d] = "none" /\ deadline[d] = "none" /\ streams[d] = NoCodec

\* The loop by where it is.
Loop ==
    /\ mix.at = "none" => mixState # 1 /\ mix.of = <<>>
    /\ mix.at # "none" => mixState # 0
    /\ mix.at \in {"arm", "read"} => ~poll
    /\ mix.at \in {"visit", "check"} => poll
    /\ mix.at = "single" => Len(mix.of) = 1
    /\ mix.at \in {"arm", "read", "write"} /\ ~poll => mix.i >= 1
    /\ mix.at = "read" => mix.i <= Len(mix.of)
    /\ mix.at = "check" /\ mix.empty => Mixing \subseteq mix.gone

\* What is read, mixed or kept from reading is a member.
Reading ==
    /\ \A d \in Dialogs : reader[d] # "none" => In(d)
    /\ Mixing \subseteq Range(dialogs)
    /\ \A d \in Dialogs : deadline[d] # "none" => In(d) /\ (mixState # 2 => ~poll)
    /\ \A d \in Dialogs : streams[d] # NoCodec => In(d)

\* A mix that is not being stopped loses only streams that can not be read any more.
Surviving ==
    mixState = 1 =>
        /\ mix.gone \subseteq closed \cup dead
        /\ poll => \A d \in Mixing : reader[d] = "none" => d \in closed \cup dead
        /\ mix.at = "single" => \A d \in Dialogs : deadline[d] = "none"

IInv == /\ TypeOK /\ Joined /\ Called /\ Turns /\ Fresh
        /\ Loop /\ Reading /\ CodecFollowed /\ Surviving

-----------------------------------------------------------------------------
(* The list of dialogs *)

\* How sequences are built.
LEMMA LenProperties ==
  ASSUME NEW S, NEW s \in Seq(S)
  PROVE  Len(s) \in Nat /\ DOMAIN s = 1 .. Len(s)
OBVIOUS

LEMMA ElementOfSeq ==
  ASSUME NEW S, NEW s \in Seq(S), NEW i \in 1 .. Len(s)
  PROVE  s[i] \in S
OBVIOUS

LEMMA EmptySeq ==
  ASSUME NEW S, NEW s \in Seq(S)
  PROVE  s = <<>> <=> Len(s) = 0
OBVIOUS

LEMMA AppendProperties ==
  ASSUME NEW S, NEW s \in Seq(S), NEW x \in S
  PROVE  /\ Append(s, x) \in Seq(S) /\ Len(Append(s, x)) = Len(s) + 1
         /\ \A i \in 1 .. Len(s) : Append(s, x)[i] = s[i]
         /\ Append(s, x)[Len(s) + 1] = x
OBVIOUS

LEMMA ConcatProperties ==
  ASSUME NEW S, NEW s \in Seq(S), NEW t \in Seq(S)
  PROVE  /\ s \o t \in Seq(S) /\ Len(s \o t) = Len(s) + Len(t)
         /\ \A i \in 1 .. Len(s) + Len(t) :
               (s \o t)[i] = IF i <= Len(s) THEN s[i] ELSE t[i - Len(s)]
OBVIOUS

LEMMA SubSeqProperties ==
  ASSUME NEW S, NEW s \in Seq(S), NEW m \in Int, NEW n \in Int,
         \A i \in m .. n : s[i] \in S
  PROVE  /\ SubSeq(s, m, n) \in Seq(S)
         /\ Len(SubSeq(s, m, n)) = IF m <= n THEN n - m + 1 ELSE 0
         /\ \A i \in 1 .. n - m + 1 : SubSeq(s, m, n)[i] = s[m + i - 1]
OBVIOUS

\* What is in a sequence.
LEMMA RangeFacts ==
  ASSUME NEW S, NEW s \in Seq(S)
  PROVE  /\ Len(s) \in Nat /\ DOMAIN s = 1 .. Len(s)
         /\ Range(s) \subseteq S /\ \A i \in 1 .. Len(s) : s[i] \in Range(s)
         /\ \A x \in Range(s) : \E i \in 1 .. Len(s) : s[i] = x
BY LenProperties, ElementOfSeq DEF Range

\* A dialog that joins comes last (AddDialogSession).
LEMMA JoinFacts ==
  ASSUME NEW S, NEW s \in Seq(S), NEW x \in S, Distinct(s), x \notin Range(s)
  PROVE  LET t == Append(s, x) IN
         t \in Seq(S) /\ Range(t) = Range(s) \cup {x} /\ Distinct(t)
<1> DEFINE t == Append(s, x)
<1>1. /\ t \in Seq(S) /\ Len(t) = Len(s) + 1 /\ Len(s) \in Nat
      /\ \A i \in 1 .. Len(s) : t[i] = s[i]
      /\ t[Len(s) + 1] = x
  BY AppendProperties, LenProperties
<1>2. DOMAIN t = 1 .. Len(s) + 1 /\ DOMAIN s = 1 .. Len(s)
  BY <1>1, LenProperties
<1> HIDE DEF t
<1>3. Range(t) = Range(s) \cup {x}
  <2>1. \A i \in 1 .. Len(s) + 1 : i \in 1 .. Len(s) \/ i = Len(s) + 1
    BY <1>1
  <2>2. \A i \in 1 .. Len(s) : i \in 1 .. Len(s) + 1
    BY <1>1
  <2>3. Len(s) + 1 \in 1 .. Len(s) + 1
    BY <1>1
  <2> QED BY <1>1, <1>2, <2>1, <2>2, <2>3 DEF Range
<1>4. Distinct(t)
  <2>1. \A i \in 1 .. Len(s) : s[i] # x
    BY RangeFacts
  <2> QED BY <1>1, <1>2, <2>1 DEF Distinct
<1> QED BY <1>1, <1>3, <1>4 DEF t

\* The dialog that leaves is cut out of the list (RemoveDialogSession).
LEMMA LeaveFacts ==
  ASSUME NEW S, NEW s \in Seq(S), NEW k \in DOMAIN s, Distinct(s)
  PROVE  LET t == CutOut(s, k) IN
         t \in Seq(S) /\ Range(t) \subseteq Range(s) \ {s[k]} /\ Distinct(t)
<1> DEFINE n == Len(s)
           u == SubSeq(s, 1, k - 1)
           v == SubSeq(s, k + 1, n)
           t == u \o v
<1>1. n \in Nat /\ DOMAIN s = 1 .. n /\ k \in 1 .. n /\ \A i \in 1 .. n : s[i] \in S
  BY LenProperties, ElementOfSeq
<1>2. /\ u \in Seq(S) /\ Len(u) = k - 1
      /\ \A i \in 1 .. k - 1 : u[i] = s[i]
  <2>1. \A i \in 1 .. k - 1 : s[i] \in S
    BY <1>1
  <2>2. 1 \in Int /\ k - 1 \in Int
    BY <1>1
  <2>3. /\ u \in Seq(S) /\ Len(u) = (IF 1 <= k - 1 THEN k - 1 - 1 + 1 ELSE 0)
        /\ \A i \in 1 .. k - 1 - 1 + 1 : u[i] = s[1 + i - 1]
    BY <2>1, <2>2, SubSeqProperties
  <2> HIDE DEF u, n
  <2> QED BY <1>1, <2>3
<1>3. /\ v \in Seq(S) /\ Len(v) = n - k
      /\ \A i \in 1 .. n - k : v[i] = s[k + i]
  <2>1. \A i \in k + 1 .. n : s[i] \in S
    BY <1>1
  <2>2. k + 1 \in Int /\ n \in Int
    BY <1>1
  <2>3. /\ v \in Seq(S) /\ Len(v) = (IF k + 1 <= n THEN n - (k + 1) + 1 ELSE 0)
        /\ \A i \in 1 .. n - (k + 1) + 1 : v[i] = s[(k + 1) + i - 1]
    BY <2>1, <2>2, SubSeqProperties
  <2> HIDE DEF v, n
  <2>4. Len(v) = n - k
    BY <1>1, <2>3
  <2>5. \A i \in 1 .. n - k : i \in 1 .. n - (k + 1) + 1 /\ (k + 1) + i - 1 = k + i
    BY <1>1
  <2>6. \A i \in 1 .. n - k : v[i] = s[k + i]
    BY <2>3, <2>5
  <2> QED BY <2>3, <2>4, <2>6
<1> HIDE DEF n, u, v
<1>4. /\ t \in Seq(S) /\ Len(t) = n - 1
      /\ \A i \in 1 .. n - 1 : t[i] = IF i <= k - 1 THEN u[i] ELSE v[i - (k - 1)]
  <2>1. /\ t \in Seq(S) /\ Len(t) = Len(u) + Len(v)
        /\ \A i \in 1 .. Len(u) + Len(v) :
              t[i] = IF i <= Len(u) THEN u[i] ELSE v[i - Len(u)]
    BY <1>2, <1>3, ConcatProperties, Zenon
  <2>2. Len(u) = k - 1 /\ Len(u) + Len(v) = n - 1
    BY <1>1, <1>2, <1>3
  <2> HIDE DEF t
  <2> QED BY <2>1, <2>2
<1>5. DOMAIN t = 1 .. n - 1
  BY <1>4, LenProperties
<1> HIDE DEF t
<1>6. \A i \in 1 .. n - 1 : t[i] = IF i < k THEN s[i] ELSE s[i + 1]
  <2> SUFFICES ASSUME NEW i \in 1 .. n - 1 PROVE t[i] = IF i < k THEN s[i] ELSE s[i + 1]
    OBVIOUS
  <2>1. CASE i < k
    BY <1>1, <1>2, <1>4, <2>1
  <2>2. CASE ~(i < k)
    <3>1. i - (k - 1) \in 1 .. n - k /\ k + (i - (k - 1)) = i + 1 /\ ~(i <= k - 1)
      BY <1>1, <2>2
    <3>2. v[i - (k - 1)] = s[k + (i - (k - 1))]
      BY <1>3, <3>1
    <3> QED BY <1>4, <2>2, <3>1, <3>2
  <2> QED BY <2>1, <2>2
<1>7. Range(t) \subseteq Range(s) \ {s[k]}
  <2> SUFFICES ASSUME NEW i \in 1 .. n - 1 PROVE t[i] \in Range(s) \ {s[k]}
    BY <1>5 DEF Range
  <2>1. PICK j \in 1 .. n : t[i] = s[j] /\ j # k
    <3>1. i \in 1 .. n /\ i + 1 \in 1 .. n
      BY <1>1
    <3> QED BY <1>1, <1>6, <3>1
  <2> QED BY <1>1, <2>1 DEF Range, Distinct
<1>8. Distinct(t)
  <2> SUFFICES ASSUME NEW i \in 1 .. n - 1, NEW j \in 1 .. n - 1, t[i] = t[j] PROVE i = j
    BY <1>5 DEF Distinct
  <2> DEFINE a == IF i < k THEN i ELSE i + 1
             c == IF j < k THEN j ELSE j + 1
  <2>1. a \in 1 .. n /\ c \in 1 .. n /\ (a = c => i = j)
    BY <1>1
  <2>2. t[i] = s[a] /\ t[j] = s[c]
    BY <1>6
  <2> HIDE DEF a, c
  <2> QED BY <1>1, <2>1, <2>2, Zenon DEF Distinct
<1> QED BY <1>4, <1>7, <1>8 DEF CutOut, t, u, v, n

\* Those taken out are gone and the others stay in order (mixStart).
LEMMA KeptFacts ==
  ASSUME NEW S, NEW s \in Seq(S), Distinct(s), NEW T \in SUBSET Range(s), NEW t \in Kept(s, T)
  PROVE  t \in Seq(S) /\ Range(t) = T /\ Distinct(t)
<1>1. Range(t) = T /\ InOrder(t, s)
  BY DEF Kept
<1>2. T \subseteq S
  BY RangeFacts
<1>3. PICK m \in 0 .. Len(s) : t \in [1 .. m -> T]
  BY DEF Kept
<1>4. m \in Nat /\ DOMAIN t = 1 .. m
  BY <1>3, LenProperties
<1>5. t \in Seq(S)
  BY <1>2, <1>3, <1>4
<1>6. Distinct(t)
  <2>1. \A i, j \in DOMAIN t : i < j => t[i] # t[j]
    <3>1. \A k, l \in DOMAIN s : k < l => s[k] # s[l]
      BY LenProperties DEF Distinct
    <3> QED BY <1>1, <3>1 DEF InOrder
  <2>2. \A i, j \in DOMAIN t : i < j \/ j < i \/ i = j
    BY <1>4
  <2> QED BY <2>1, <2>2 DEF Distinct
<1> QED BY <1>1, <1>5, <1>6

\* A process between its operations.
LEMMA IdleFacts ==
  Idle \in Call /\ Idle.at = "idle" /\ Idle.op = "none"
BY DEF Idle, Call

\* A bridge nobody has joined.
LEMMA InitInv ==
  ASSUME Init
  PROVE  IInv
<1>1. NoMix \in Mix /\ NoMix.at = "none" /\ NoMix.of = <<>>
  BY DEF NoMix, Mix
<1>2. TypeOK
  BY <1>1, ConstantsAssumption, IdleFacts DEF Init, TypeOK
<1>3. \A p \in Procs : call[p].at = "idle"
  BY IdleFacts DEF Init
<1>4. Joined /\ Called /\ Turns /\ Fresh
  BY <1>3, SMTT(30) DEF Init, Joined, Distinct, Called, Turns, Stopping, Fresh, Unlocked, Range
<1>5. Loop /\ Reading /\ CodecFollowed /\ Surviving
  BY <1>1, SMTT(30) DEF Init, Loop, Reading, CodecFollowed, Surviving, Mixing, Range
<1> QED BY <1>2, <1>4, <1>5, SMTT(30) DEF IInv

-----------------------------------------------------------------------------
(* The steps of the loop and its readers, which leave the bridge alone.    *)

\* They keep what is about the bridge and the calls.
LEMMA BridgeKept ==
  ASSUME IInv, UNCHANGED <<bridgeVars, codec, call, rest>>
  PROVE  Joined' /\ Called' /\ Turns' /\ CodecFollowed' /\ Unlocked' = Unlocked
BY DEF IInv, Joined, Distinct, Called, Turns, Stopping, CodecFollowed, Unlocked, bridgeVars, rest

\* What the invariant says of the loop's record.
LEMMA MixFacts ==
  ASSUME IInv
  PROVE  /\ mix \in Mix /\ mix.of \in Seq(Dialogs) /\ mix.gone \in SUBSET Dialogs
         /\ mix.i \in Nat /\ mix.lost \in BOOLEAN /\ mix.took \in BOOLEAN
         /\ mix.empty \in BOOLEAN
         /\ mixState \in 0 .. 2 /\ poll \in BOOLEAN
         /\ Mixing \subseteq Dialogs /\ Mixing \subseteq Range(dialogs)
         /\ Len(mix.of) \in Nat
         /\ \A i \in 1 .. Len(mix.of) : mix.of[i] \in Mixing
         /\ mix.at # "none" => Unlocked
BY RangeFacts DEF IInv, TypeOK, Mix, Mixing, Reading, Fresh

\* A step of the loop alone keeps the invariant when it keeps the loop sound.
LEMMA LoopOnly ==
  ASSUME IInv, NEW m \in Mix, mix' = m, mix.at # "none", m.at # "none", m.of = mix.of,
         UNCHANGED <<bridgeVars, codec, closed, call, rest>>,
         deadline' \in [Dialogs -> {"none", "soon", "past"}],
         \A d \in Dialogs : deadline'[d] # "none" =>
             \/ deadline[d] # "none"
             \/ d \in Mixing /\ mix.at = "arm" /\ mixState = 1,
         reader' \in [Dialogs -> {"none", "reading", "holding"}],
         \A d \in Dialogs : reader'[d] = "none" <=> reader[d] = "none",
         dead' \subseteq Jittered, dead \subseteq dead',
         m.at \in {"arm", "read"} => ~poll,
         m.at \in {"visit", "check"} => poll,
         m.at = "single" => mix.at = "single",
         m.at \in {"arm", "read", "write"} /\ ~poll => m.i >= 1,
         m.at = "read" => m.i <= Len(mix.of),
         m.at = "check" /\ m.empty => Mixing \subseteq m.gone,
         mixState = 1 => m.gone \subseteq closed \cup dead'
  PROVE  IInv'
<1>1. Joined' /\ Called' /\ Turns' /\ CodecFollowed' /\ Unlocked' = Unlocked
  BY BridgeKept
<1>2. TypeOK'
  BY DEF IInv, TypeOK, bridgeVars, rest
<1>3. Fresh'
  BY <1>1, MixFacts DEF Fresh
<1>4. Mixing' = Mixing
  BY DEF Mixing
<1>5. Loop'
  BY <1>4 DEF IInv, Loop, bridgeVars, rest
<1>6. Reading'
  BY <1>4, MixFacts DEF IInv, Loop, Reading, In, bridgeVars, rest
<1>7. Surviving'
  BY <1>4, MixFacts DEF IInv, Surviving, bridgeVars, rest
<1> QED BY <1>1, <1>2, <1>3, <1>5, <1>6, <1>7 DEF IInv

\* The loop of a single stream.
LEMMA MixSingleInv ==
  ASSUME IInv, MixSingle
  PROVE  IInv'
<1>1. mix \in Mix /\ mix.at = "single" /\ reader \in [Dialogs -> {"none", "reading", "holding"}]
  BY MixFacts DEF MixSingle, IInv, TypeOK
<1>2. CASE /\ poll /\ reader[mix.of[1]] = "holding"
           /\ reader' = [reader EXCEPT ![mix.of[1]] = "reading"]
           /\ UNCHANGED mix
           /\ UNCHANGED <<bridgeVars, dialogVars, deadline, call, rest>>
  BY <1>1, <1>2, LoopOnly, Zenon DEF IInv, TypeOK, Loop, Surviving, dialogVars
<1>3. CASE SetMix([mix EXCEPT !.at = "exit"]) /\ UNCHANGED reader
  <2> DEFINE m == [mix EXCEPT !.at = "exit"]
  <2>1. m \in Mix /\ m.at = "exit" /\ m.of = mix.of /\ m.gone = mix.gone
    BY <1>1 DEF Mix
  <2> HIDE DEF m
  <2>2. mix' = m
    BY <1>3 DEF SetMix, m
  <2> QED BY <1>1, <1>3, <2>1, <2>2, LoopOnly
         DEF IInv, TypeOK, Surviving, SetMix, dialogVars
<1> QED BY <1>2, <1>3 DEF MixSingle

\* The loop looks at its streams, when it polls.
LEMMA MixVisitInv ==
  ASSUME IInv, MixVisit
  PROVE  IInv'
<1> DEFINE here == Mixing \ mix.gone
           ended == {d \in here : reader[d] = "none"}
           n == here = {}
           took == \E d \in here : reader[d] = "holding"
           lost == mix.gone # {}
           m == [mix EXCEPT !.at = "check", !.gone = @ \cup ended, !.lost = lost,
                            !.empty = n, !.took = took]
<1>1. /\ mix \in Mix /\ mix.at = "visit" /\ poll
      /\ reader \in [Dialogs -> {"none", "reading", "holding"}]
  BY MixFacts DEF MixVisit, IInv, TypeOK, Loop
<1>3. n \in BOOLEAN /\ (n => here = {})
  OBVIOUS
<1>4. ended \in SUBSET Dialogs /\ took \in BOOLEAN /\ lost \in BOOLEAN
  BY MixFacts
<1>5. mixState = 1 => ended \subseteq closed \cup dead
  BY <1>1 DEF IInv, Surviving
<1>6. mix' = m /\ UNCHANGED <<bridgeVars, dialogVars, deadline, call, rest>>
  BY DEF MixVisit, SetMix
<1>7. reader' = [d \in Dialogs |-> IF d \in here /\ reader[d] = "holding"
                                   THEN "reading" ELSE reader[d]]
  BY DEF MixVisit
<1> HIDE DEF n, took, lost, ended
<1>8. m \in Mix /\ m.at = "check" /\ m.of = mix.of /\ m.gone = mix.gone \cup ended /\ m.empty = n
  BY <1>1, <1>3, <1>4, Zenon DEF Mix
<1> HIDE DEF m
<1>9. m.empty => Mixing \subseteq m.gone
  BY <1>3, <1>8
<1>10. mixState = 1 => m.gone \subseteq closed \cup dead
  BY <1>5, <1>8 DEF IInv, Surviving
<1>11. /\ reader' \in [Dialogs -> {"none", "reading", "holding"}]
       /\ \A d \in Dialogs : reader'[d] = "none" <=> reader[d] = "none"
  BY <1>1, <1>7
<1> QED BY <1>1, <1>6, <1>8, <1>9, <1>10, <1>11, LoopOnly DEF IInv, TypeOK, dialogVars

\* The round ends the loop, is mixed, or is begun again.
LEMMA MixCheckInv ==
  ASSUME IInv, MixCheck
  PROVE  IInv'
<1> DEFINE a == CASE EndsRound -> "exit" [] ~EndsRound /\ mix.took -> "write" [] OTHER -> "visit"
           m == [mix EXCEPT !.at = a]
<1>1. mix \in Mix /\ mix.at = "check" /\ poll
  BY MixFacts DEF MixCheck, IInv, Loop
<1>2. a \in {"exit", "write", "visit"}
  OBVIOUS
<1>3. mix' = m /\ UNCHANGED <<bridgeVars, dialogVars, deadline, call, rest, reader>>
  BY DEF MixCheck, SetMix
<1> HIDE DEF a
<1>4. m \in Mix /\ m.at = a /\ m.of = mix.of /\ m.gone = mix.gone
  BY <1>1, <1>2, SMTT(30) DEF Mix
<1> HIDE DEF m
<1> QED BY <1>1, <1>2, <1>3, <1>4, LoopOnly DEF IInv, TypeOK, Surviving, dialogVars

\* The mix is written.
LEMMA MixWriteInv ==
  ASSUME IInv, MixWrite
  PROVE  IInv'
<1> DEFINE a == IF poll THEN "visit" ELSE "arm"
           g == mix.gone \cup (Mixing \cap closed)
           m == [mix EXCEPT !.at = a, !.gone = g, !.took = FALSE, !.lost = FALSE]
<1>1. mix \in Mix /\ mix.at = "write" /\ (~poll => mix.i >= 1)
  BY MixFacts DEF MixWrite, IInv, Loop
<1>2. /\ a \in {"visit", "arm"} /\ (a = "visit" => poll) /\ (a = "arm" => ~poll)
      /\ g \in SUBSET Dialogs /\ (mixState = 1 => g \subseteq closed \cup dead)
  BY MixFacts DEF IInv, Surviving
<1>3. mix' = m /\ UNCHANGED <<bridgeVars, dialogVars, deadline, call, rest, reader>>
  BY DEF MixWrite, SetMix
<1> HIDE DEF a, g
<1>4. m \in Mix /\ m.at = a /\ m.of = mix.of /\ m.gone = g /\ m.i = mix.i
  BY <1>1, <1>2, ZenonT(60) DEF Mix
<1> HIDE DEF m
<1> QED BY <1>1, <1>2, <1>3, <1>4, LoopOnly DEF IInv, TypeOK, dialogVars

\* A round of direct reads is over.
LEMMA MixRoundInv ==
  ASSUME IInv, MixRound
  PROVE  IInv'
<1> DEFINE a == IF Mixing = mix.gone THEN "exit" ELSE IF mix.took THEN "write" ELSE "arm"
           one == 1
           m == [mix EXCEPT !.at = a, !.i = one]
<1>1. mix \in Mix /\ mix.at = "arm" /\ ~poll
  BY MixFacts DEF MixRound, IInv, Loop
<1>2. a \in {"exit", "write", "arm"} /\ one \in Nat /\ one >= 1
  OBVIOUS
<1>3. mix' = m /\ UNCHANGED <<bridgeVars, dialogVars, deadline, call, rest, reader>>
  BY DEF MixRound, SetMix
<1> HIDE DEF a, one
<1>4. m \in Mix /\ m.at = a /\ m.of = mix.of /\ m.gone = mix.gone /\ m.i = one
  BY <1>1, <1>2, Zenon DEF Mix
<1> HIDE DEF m
<1> QED BY <1>1, <1>2, <1>3, <1>4, LoopOnly DEF IInv, TypeOK, Surviving, dialogVars

\* A deadline is set, lost or passes, on a dialog of the mix or where one was.
LEMMA DeadlineOnly ==
  ASSUME IInv, NEW d \in Dialogs, NEW v \in {"none", "soon", "past"},
         deadline' = [deadline EXCEPT ![d] = v],
         v # "none" => /\ deadline[d] # "none" \/ d \in Mixing
                       /\ deadline[d] # "none" \/ (mix.at \in {"arm", "read"} /\ mixState = 1),
         UNCHANGED <<bridgeVars, dialogVars, call, rest, mixVars>>
  PROVE  IInv'
<1>1. Joined' /\ Called' /\ Turns' /\ CodecFollowed' /\ Unlocked' = Unlocked
  BY BridgeKept DEF dialogVars
<1>2. TypeOK'
  BY DEF IInv, TypeOK, bridgeVars, dialogVars, mixVars, rest
<1>3. Fresh'
  BY <1>1, MixFacts DEF IInv, TypeOK, Fresh, bridgeVars, mixVars
<1>4. Mixing' = Mixing
  BY DEF Mixing, mixVars
<1>5. Loop'
  BY <1>4, SMTT(30) DEF IInv, Loop, bridgeVars, mixVars, rest
<1>6. Reading'
  BY <1>4, MixFacts DEF IInv, TypeOK, Loop, Reading, In, bridgeVars, mixVars, rest
<1>7. Surviving'
  BY <1>4, MixFacts DEF IInv, TypeOK, Loop, Surviving, bridgeVars, dialogVars, mixVars, rest
<1> QED BY <1>1, <1>2, <1>3, <1>5, <1>6, <1>7 DEF IInv

\* The next direct read is set up, skipped, or the loop ends (armDirectRead).
LEMMA MixArmInv ==
  ASSUME IInv, MixArm
  PROVE  IInv'
<1>1. /\ mix \in Mix /\ mix.at = "arm" /\ ~poll /\ mix.i \in Nat /\ mix.i >= 1
      /\ Len(mix.of) \in Nat /\ mix.i <= Len(mix.of)
      /\ UNCHANGED reader
  BY MixFacts DEF MixArm, IInv, Loop, Visited
<1>2. Stream \in Mixing /\ Stream \in Dialogs
  BY <1>1, MixFacts, SMTT(30) DEF Stream
<1>3. CASE SetMix([mix EXCEPT !.i = @ + 1])
  <2> DEFINE n == mix.i + 1
             m == [mix EXCEPT !.i = n]
  <2>1. mix' = m /\ UNCHANGED <<bridgeVars, dialogVars, deadline, call, rest>>
    BY <1>3 DEF SetMix
  <2>2. n \in Nat /\ n >= 1
    BY <1>1
  <2> HIDE DEF n
  <2>3. m \in Mix /\ m.at = "arm" /\ m.of = mix.of /\ m.gone = mix.gone /\ m.i = n
    BY <1>1, <2>2, SMTT(30) DEF Mix
  <2> HIDE DEF m
  <2> QED BY <1>1, <2>1, <2>2, <2>3, LoopOnly DEF IInv, TypeOK, Surviving, dialogVars
<1>4. CASE SetMix([mix EXCEPT !.at = "exit"])
  <2> DEFINE m == [mix EXCEPT !.at = "exit"]
  <2>1. mix' = m /\ UNCHANGED <<bridgeVars, dialogVars, deadline, call, rest>>
    BY <1>4 DEF SetMix
  <2>2. m \in Mix /\ m.at = "exit" /\ m.of = mix.of /\ m.gone = mix.gone
    BY <1>1 DEF Mix
  <2> HIDE DEF m
  <2> QED BY <1>1, <2>1, <2>2, LoopOnly DEF IInv, TypeOK, Surviving, dialogVars
<1>5. CASE /\ armDirectRead
           /\ mix' = [mix EXCEPT !.at = "read"]
           /\ deadline' = [deadline EXCEPT ![Stream] = "soon"]
           /\ UNCHANGED <<bridgeVars, dialogVars, call, rest>>
  <2> DEFINE m == [mix EXCEPT !.at = "read"]
  <2>1. m \in Mix /\ m.at = "read" /\ m.of = mix.of /\ m.gone = mix.gone /\ m.i = mix.i
    BY <1>1 DEF Mix
  <2> HIDE DEF m
  <2>2. mix' = m /\ mixState = 1
    BY <1>5 DEF m, armDirectRead
  <2>3. /\ deadline' \in [Dialogs -> {"none", "soon", "past"}]
        /\ \A d \in Dialogs : deadline'[d] # "none" => deadline[d] # "none" \/ d = Stream
    BY <1>2, <1>5 DEF IInv, TypeOK
  <2>4. /\ mix.at # "none" /\ m.at # "none" /\ ~poll /\ m.i >= 1 /\ m.i <= Len(mix.of)
        /\ m.at # "single" /\ m.at \notin {"visit", "check"}
    BY <1>1, <2>1
  <2>5. /\ UNCHANGED <<bridgeVars, codec, closed, call, rest>>
        /\ reader' \in [Dialogs -> {"none", "reading", "holding"}] /\ reader' = reader
    BY <1>1, <1>5, Zenon DEF IInv, TypeOK, dialogVars
  <2>6. dead' \subseteq Jittered /\ dead' = dead /\ m.gone \subseteq closed \cup dead'
    BY <1>5, <2>1, <2>2 DEF IInv, TypeOK, Surviving, dialogVars
  <2>7. \A d \in Dialogs : deadline'[d] # "none" =>
            deadline[d] # "none" \/ (d \in Mixing /\ mix.at = "arm" /\ mixState = 1)
    BY <1>1, <1>2, <2>2, <2>3, Zenon
  <2> QED BY <2>1, <2>2, <2>3, <2>4, <2>5, <2>6, <2>7, LoopOnly
<1> QED BY <1>3, <1>4, <1>5 DEF MixArm

\* A direct read returns.
LEMMA MixReadInv ==
  ASSUME IInv, MixRead
  PROVE  IInv'
<1>1. /\ mix \in Mix /\ mix.at = "read" /\ ~poll /\ mix.i \in Nat /\ mix.i >= 1
      /\ Len(mix.of) \in Nat /\ mix.i <= Len(mix.of)
      /\ UNCHANGED <<bridgeVars, codec, closed, deadline, call, rest, reader>>
  BY MixFacts DEF MixRead, SetMix, IInv, Loop, dialogVars
<1>2. Stream \in Mixing /\ Stream \in Dialogs
  BY <1>1, MixFacts DEF Stream
<1>3. dead' \subseteq Jittered /\ dead \subseteq dead'
  BY DEF MixRead, SetMix, dialogVars, IInv, TypeOK
<1>4. /\ mix' \in Mix /\ mix'.at \in {"arm", "exit"} /\ mix'.of = mix.of
      /\ mix'.at = "arm" => mix'.i >= 1
      /\ mix'.gone = mix.gone \/ (Stream \in closed /\ mix'.gone = mix.gone \cup {Stream})
  <2> DEFINE n == mix.i + 1
             g == mix.gone \cup {Stream}
  <2>1. n \in Nat /\ n >= 1 /\ g \in SUBSET Dialogs
    BY <1>1, <1>2, MixFacts
  <2>2. \/ mix' = [mix EXCEPT !.at = "arm", !.i = n, !.took = TRUE]
        \/ Stream \in closed /\ mix' = [mix EXCEPT !.at = "arm", !.i = n, !.gone = g]
        \/ mix' = [mix EXCEPT !.at = "exit"]
        \/ mix' = [mix EXCEPT !.at = "arm", !.i = n]
    BY DEF MixRead, SetMix
  <2> HIDE DEF n, g
  <2>3. CASE mix' = [mix EXCEPT !.at = "arm", !.i = n, !.took = TRUE]
    BY <1>1, <2>1, <2>3, Zenon DEF Mix
  <2>4. CASE Stream \in closed /\ mix' = [mix EXCEPT !.at = "arm", !.i = n, !.gone = g]
    <3>1. mix' \in Mix /\ mix'.at = "arm" /\ mix'.of = mix.of /\ mix'.i = n /\ mix'.gone = g
      BY <1>1, <2>1, <2>4, Zenon DEF Mix
    <3> QED BY <2>1, <2>4, <3>1 DEF g
  <2>5. CASE mix' = [mix EXCEPT !.at = "exit"]
    BY <1>1, <2>5 DEF Mix
  <2>6. CASE mix' = [mix EXCEPT !.at = "arm", !.i = n]
    BY <1>1, <2>1, <2>6, Zenon DEF Mix
  <2> QED BY <2>2, <2>3, <2>4, <2>5, <2>6
<1>5. mixState = 1 => mix'.gone \subseteq closed \cup dead'
  BY <1>3, <1>4 DEF IInv, Surviving
<1> QED BY <1>1, <1>3, <1>4, <1>5, LoopOnly DEF IInv, TypeOK

\* The deadline of a direct read is set again, or expires.
LEMMA MixRearmInv ==
  ASSUME IInv, MixRearm
  PROVE  IInv'
<1>1. /\ mix.at = "read" /\ mixState = 1 /\ mix.i \in Nat /\ mix.i >= 1
      /\ Len(mix.of) \in Nat /\ mix.i <= Len(mix.of)
  BY MixFacts DEF MixRearm, armDirectRead, IInv, Loop
<1>2. Stream \in Mixing /\ Stream \in Dialogs
  BY <1>1, MixFacts DEF Stream
<1> QED BY <1>1, <1>2, DeadlineOnly, Zenon DEF MixRearm

LEMMA DeadlineInv ==
  ASSUME IInv, NEW d \in Dialogs, Deadline(d)
  PROVE  IInv'
BY DeadlineOnly, Zenon DEF Deadline

\* The loop's deferred calls.
LEMMA MixEndsInv ==
  ASSUME IInv, MixEnds
  PROVE  IInv'
<1>1. /\ mix.at = "exit" /\ mix' = NoMix
      /\ mixState \in {1, 2} /\ mixState' = IF mixState = 1 THEN 0 ELSE mixState
      /\ UNCHANGED <<dialogs, mixCodec, streams, hooked, dialogVars, deadline, call, reader,
                     rest>>
  BY MixFacts DEF MixEnds, mixEnded, IInv, Loop
<1>2. NoMix \in Mix /\ NoMix.at = "none" /\ NoMix.of = <<>>
  BY DEF NoMix, Mix
<1>3. Mixing' = {}
  BY <1>1, <1>2 DEF Mixing, Range
<1>4. TypeOK'
  BY <1>1, <1>2 DEF IInv, TypeOK, dialogVars, rest
<1>5. Joined' /\ Called' /\ CodecFollowed' /\ Unlocked' /\ Turns'
  <2>1. Joined' /\ Called' /\ Unlocked'
    BY <1>1, MixFacts, Zenon DEF IInv, Joined, Distinct, Called, Unlocked
  <2>2. CodecFollowed'
    BY <1>1, SMTT(30) DEF IInv, CodecFollowed, dialogVars
  <2>3. Turns'
    BY <1>1, SMTT(30) DEF IInv, Turns, Stopping
  <2> QED BY <2>1, <2>2, <2>3
<1>6. Fresh' /\ Loop' /\ Surviving'
  BY <1>1, <1>2, <1>5, SMTT(30) DEF Fresh, Loop, Surviving
<1>7. Reading'
  BY <1>1, <1>3 DEF IInv, Reading, In, rest
<1> QED BY <1>4, <1>5, <1>6, <1>7 DEF IInv

\* A step of one reader keeps the invariant when a reader that ends can read no more.
LEMMA ReaderOnly ==
  ASSUME IInv, NEW d \in Dialogs, NEW v \in {"none", "holding"},
         reader[d] # "none", reader' = [reader EXCEPT ![d] = v],
         dead' \subseteq Jittered, dead \subseteq dead',
         poll /\ mixState = 1 /\ v = "none" => d \in closed \cup dead',
         UNCHANGED <<bridgeVars, codec, closed, deadline, call, mix, rest>>
  PROVE  IInv'
<1>1. Joined' /\ Called' /\ Turns' /\ CodecFollowed' /\ Unlocked' = Unlocked
  BY BridgeKept
<1>2. TypeOK'
  BY DEF IInv, TypeOK, bridgeVars, rest
<1>3. Unlocked
  BY DEF IInv, Fresh
<1>4. Mixing' = Mixing
  BY DEF Mixing
<1>5. Fresh' /\ Loop'
  BY <1>1, <1>3, <1>4 DEF IInv, Fresh, Loop, bridgeVars, rest
<1>6. Reading'
  BY <1>4, SMTT(30) DEF IInv, TypeOK, Reading, In, bridgeVars, rest
<1>7. Surviving'
  BY <1>4, MixFacts DEF IInv, TypeOK, Surviving, bridgeVars, rest
<1> QED BY <1>1, <1>2, <1>5, <1>6, <1>7 DEF IInv

LEMMA ReaderReadsInv ==
  ASSUME IInv, NEW d \in Dialogs, ReaderReads(d)
  PROVE  IInv'
BY ReaderOnly, Zenon DEF ReaderReads, IInv, TypeOK, dialogVars

\* A reader ends by the close of its media, the end of its jitter buffer, or a
\* deadline, which a polling mix has only once it is stopped.
LEMMA ReaderEndsInv ==
  ASSUME IInv, NEW d \in Dialogs, ReaderEnds(d)
  PROVE  IInv'
<1>1. poll /\ mixState = 1 => d \in closed \cup dead
  BY DEF ReaderEnds, Fails, IInv, Reading
<1> QED BY <1>1, ReaderOnly, ZenonT(60) DEF ReaderEnds, IInv, TypeOK

LEMMA ReaderCancelledInv ==
  ASSUME IInv, NEW d \in Dialogs, ReaderCancelled(d)
  PROVE  IInv'
<1>1. mixState # 1
  BY DEF ReaderCancelled, IInv, Loop
<1> QED BY <1>1, ReaderOnly, Zenon DEF ReaderCancelled, IInv, TypeOK, dialogVars

-----------------------------------------------------------------------------
(* The operations *)

\* An operation waits for the stop in progress, or stops the mix (mixStopWait).
LEMMA StopWaitInv ==
  ASSUME IInv, NEW p \in Procs, NEW op \in {"none", "add", "remove", "update"},
         NEW d \in Dialogs,
         p \in Dialogs => op = "update", Unlocked,
         call[p].at \in {"idle", "hook", "wait"},
         mixStopWait(p, op, d),
         poll' = poll, calls' \in 0 .. MaxCalls, updates' \in 0 .. MaxUpdates
  PROVE  IInv'
<1>1. UNCHANGED <<dialogs, mixCodec, streams, hooked, dialogVars, mixVars>>
  BY DEF mixStopWait
<1>2. PICK c \in Call :
        /\ call' = [call EXCEPT ![p] = c] /\ c.op = op /\ c.d = d
        /\ \/ c.at = "wait" /\ mixState = 2 /\ UNCHANGED <<mixState, deadline>>
           \/ /\ c.at = "drain" /\ mixState # 2 /\ mixState' = 2
              /\ deadline' = [x \in Dialogs |-> IF In(x) THEN "past" ELSE deadline[x]]
  <2>1. CASE mixState = 2
    <3> DEFINE c == [Idle EXCEPT !.op = op, !.d = d, !.at = "wait"]
    <3>1. c \in Call /\ c.op = op /\ c.d = d /\ c.at = "wait"
      BY Zenon DEF Idle, Call
    <3>2. call' = [call EXCEPT ![p] = c] /\ UNCHANGED <<mixState, deadline>>
      BY <2>1 DEF mixStopWait
    <3> HIDE DEF c
    <3> QED BY <2>1, <3>1, <3>2, Zenon
  <2>2. CASE mixState # 2
    <3>1. mixStop(p, op, d)
      BY <2>2 DEF mixStopWait
    <3>2. PICK e \in {FALSE, StopFails} :
            call' = [call EXCEPT ![p] =
                        [op |-> op, d |-> d, at |-> "drain", err |-> e, mc |-> NoCodec]]
      BY <3>1, Zenon DEF mixStop
    <3> DEFINE c == [op |-> op, d |-> d, at |-> "drain", err |-> e, mc |-> NoCodec]
    <3>3. c \in Call /\ c.op = op /\ c.d = d /\ c.at = "drain"
      BY ConstantsAssumption, Zenon DEF Call
    <3>4. call' = [call EXCEPT ![p] = c]
      BY <3>2
    <3> HIDE DEF c
    <3> QED BY <2>2, <3>1, <3>3, <3>4, Zenon DEF mixStop
  <2> QED BY <2>1, <2>2
<1>3. /\ call' \in [Procs -> Call] /\ call'[p] = c
      /\ \A q \in Procs : q # p => call'[q] = call[q]
  BY <1>2 DEF IInv, TypeOK
<1>4. TypeOK'
  <2>1. mixState' \in 0 .. 2 /\ deadline' \in [Dialogs -> {"none", "soon", "past"}]
    BY <1>2 DEF IInv, TypeOK
  <2> QED BY <1>1, <1>3, <2>1, Zenon DEF IInv, TypeOK, dialogVars, mixVars
<1>5. Joined' /\ Mixing' = Mixing
  BY <1>1 DEF IInv, Joined, Distinct, Mixing, mixVars
<1>6. Called'
  BY <1>2, <1>3 DEF IInv, Called
<1>7. Unlocked'
  BY <1>2, <1>3 DEF Unlocked
<1>8. Turns'
  <2>1. CASE mixState = 2
    BY <1>2, <1>3, <2>1 DEF IInv, Turns, Stopping
  <2>2. CASE mixState # 2
    <3>1. \A q \in Procs : q # p => ~Stopping(q)' 
      BY <1>3, <2>2 DEF IInv, Turns, Stopping, Unlocked
    <3> QED BY <1>2, <1>3, <2>2, <3>1 DEF Turns, Stopping
  <2> QED BY <2>1, <2>2
<1>9. mixState' = 2
  BY <1>2
<1>10. Fresh' /\ Surviving' /\ CodecFollowed'
  BY <1>7, <1>9 DEF Fresh, Surviving, CodecFollowed
<1>11. Loop'
  <2>1. 2 # 0 /\ 2 # 1
    OBVIOUS
  <2> QED BY <1>1, <1>5, <1>9, <2>1, Zenon DEF IInv, Loop, mixVars
<1>12. Reading'
  <2>1. \A x \in Dialogs : deadline'[x] # "none" => In(x)
    BY <1>2 DEF IInv, Reading
  <2> QED BY <1>1, <1>5, <1>9, <2>1, SMTT(30) DEF IInv, Reading, In, mixVars
<1> QED BY <1>4, <1>5, <1>6, <1>8, <1>10, <1>11, <1>12 DEF IInv

\* What a stop leaves in the list (AddDialogSession, RemoveDialogSession).
LEMMA MembersFacts ==
  ASSUME IInv, NEW p \in Procs, call[p].d \in Dialogs
  PROVE  /\ Members(p) \in Seq(Dialogs) /\ Distinct(Members(p))
         /\ Range(Members(p)) \subseteq Hooked(p) /\ Hooked(p) \subseteq Dialogs
<1>1. dialogs \in Seq(Dialogs) /\ Distinct(dialogs) /\ Range(dialogs) \subseteq hooked
      /\ hooked \subseteq Dialogs
  BY DEF IInv, TypeOK, Joined
<1>2. CASE Joins(p)
  <2>1. Members(p) = Append(dialogs, call[p].d) /\ Hooked(p) = hooked \cup {call[p].d}
    BY <1>2 DEF Members, Hooked, Joins, Leaves
  <2> QED BY <1>1, <1>2, <2>1, JoinFacts DEF Joins, In
<1>3. CASE Leaves(p)
  <2> DEFINE k == CHOOSE i \in DOMAIN dialogs : dialogs[i] = call[p].d
  <2>1. Members(p) = CutOut(dialogs, k) /\ Hooked(p) = hooked \ {call[p].d}
    BY <1>3 DEF Members, Hooked, Joins, Leaves
  <2>2. k \in DOMAIN dialogs /\ dialogs[k] = call[p].d
    BY <1>3 DEF Leaves, In, Range
  <2> HIDE DEF k
  <2> QED BY <1>1, <2>1, <2>2, LeaveFacts
<1>4. CASE ~Joins(p) /\ ~Leaves(p)
  BY <1>1, <1>4 DEF Members, Hooked
<1> QED BY <1>2, <1>3, <1>4

\* The mix has drained and the operation takes effect.
LEMMA MixStoppedInv ==
  ASSUME IInv, NEW p \in Procs, mixStopped(p)
  PROVE  IInv'
<1> DEFINE ds == Members(p)
<1>1. /\ call[p].at = "drain" /\ call[p] \in Call /\ call[p].d \in Dialogs /\ mixState = 2
      /\ mix.at = "none" /\ mix.of = <<>> /\ \A d \in Dialogs : reader[d] = "none"
  BY DEF mixStopped, CanDrain, Drained, IInv, TypeOK, Called, Turns, Loop
<1>2. /\ ds \in Seq(Dialogs) /\ Distinct(ds)
      /\ Range(ds) \subseteq Hooked(p) /\ Hooked(p) \subseteq Dialogs
  BY <1>1, MembersFacts
<1>3. /\ mixState' = 0 /\ dialogs' = ds /\ hooked' = Hooked(p)
      /\ streams' = [d \in Dialogs |-> NoCodec]
      /\ UNCHANGED <<dialogVars, mixVars, rest>>
  BY DEF mixStopped
<1>4. deadline' = [d \in Dialogs |-> "none"]
  <2>1. \A d \in Dialogs : ~In(d) => deadline[d] = "none"
    BY DEF IInv, Reading
  <2>2. deadline' = [d \in Dialogs |-> IF In(d) THEN "none" ELSE deadline[d]]
    BY DEF mixStopped, StartRTP
  <2> QED BY <2>1, <2>2
<1>5. ds # <<>> => Picked(ds) \in Codecs \cup {NoCodec}
  <2>1. ds # <<>> => ds[1] \in Dialogs
    BY <1>2, EmptySeq, LenProperties, ElementOfSeq
  <2> QED BY <2>1 DEF Picked, IInv, TypeOK
<1>6. mixCodec' \in Codecs \cup {NoCodec}
  BY DEF mixStopped, IInv, TypeOK
<1>7. PICK c \in Call : /\ call' = [call EXCEPT ![p] = c]
                        /\ \/ c.at = "idle"
                           \/ c.at = "start" /\ c.op = call[p].op /\ c.d = call[p].d
  <2>1. CASE ds = <<>> \/ Len(ds) < WaitDialogsNum
    BY <2>1, IdleFacts DEF mixStopped
  <2>2. CASE ~(ds = <<>> \/ Len(ds) < WaitDialogsNum)
    <3> DEFINE mc == Picked(ds)
    <3>1. mc \in Codecs \cup {NoCodec}
      BY <1>5, <2>2
    <3>2. call' = [call EXCEPT ![p].at = "start", ![p].mc = mc]
      BY <2>2 DEF mixStopped
    <3> HIDE DEF mc
    <3> DEFINE c == [call[p] EXCEPT !.at = "start", !.mc = mc]
    <3>3. c \in Call /\ c.at = "start" /\ c.op = call[p].op /\ c.d = call[p].d
      BY <1>1, <3>1, Zenon DEF Call
    <3>4. call' = [call EXCEPT ![p] = c]
      BY <3>2, ZenonT(60) DEF IInv, TypeOK
    <3> HIDE DEF c
    <3> QED BY <3>3, <3>4, Zenon
  <2> QED BY <2>1, <2>2
<1> HIDE DEF ds
<1>8. /\ call' \in [Procs -> Call] /\ call'[p] = c
      /\ \A q \in Procs : q # p => call'[q] = call[q] /\ ~Stopping(q)
  BY <1>1, <1>7, ZenonT(60) DEF IInv, TypeOK, Turns, Stopping
<1>9. Mixing' = {}
  BY <1>1, <1>3 DEF Mixing, Range, mixVars
<1>10. TypeOK'
  BY <1>2, <1>3, <1>4, <1>6, <1>8, SMTT(30) DEF IInv, TypeOK, dialogVars, mixVars, rest
<1>11. Joined' /\ CodecFollowed' /\ Surviving'
  <2>1. Joined'
    BY <1>2, <1>3, Zenon DEF Joined
  <2>2. CodecFollowed' /\ Surviving'
    BY <1>3, SMTT(30) DEF CodecFollowed, Surviving
  <2> QED BY <2>1, <2>2
<1>12. Called'
  BY <1>1, <1>7, <1>8, ZenonT(60) DEF IInv, Called
<1>13. Turns'
  BY <1>3, <1>7, <1>8, SMTT(30) DEF Turns, Stopping
<1>14. Fresh' /\ Loop'
  <2>1. mix'.at = "none" /\ mix'.of = <<>> /\ mixState' = 0
    BY <1>1, <1>3, Zenon DEF mixVars
  <2>2. \A d \in Dialogs : /\ reader'[d] = "none" /\ deadline'[d] = "none"
                           /\ streams'[d] = NoCodec
    BY <1>1, <1>3, <1>4, Zenon DEF mixVars
  <2>3. Loop'
    BY <2>1 DEF Loop
  <2> QED BY <2>1, <2>2, <2>3, Zenon DEF Fresh
<1>15. Reading'
  BY <1>1, <1>3, <1>4, <1>9, ZenonT(60) DEF Reading, mixVars
<1> QED BY <1>10, <1>11, <1>12, <1>13, <1>14, <1>15 DEF IInv

\* Where a loop begins: with a single stream, polling, or reading directly.
LEMMA FirstStepFacts ==
  ASSUME NEW n \in Nat, n # 0
  PROVE  \/ FirstStep(n) = "single" /\ n = 1
         \/ FirstStep(n) = "visit" /\ poll
         \/ FirstStep(n) = "arm" /\ ~poll
<1>1. CASE n = 1
  BY <1>1 DEF FirstStep
<1>2. CASE n # 1 /\ n > 1 /\ poll
  BY <1>2 DEF FirstStep
<1>3. CASE n # 1 /\ ~poll
  BY <1>3 DEF FirstStep
<1> QED BY <1>1, <1>2, <1>3

\* The next mix starts with the dialogs that can be mixed, or none does.
LEMMA MixStartInv ==
  ASSUME IInv, NEW p \in Procs, mixStart(p)
  PROVE  IInv'
<1>1. PICK ds \in Kept(dialogs, {d \in Range(dialogs) : addDialogStream(d, call[p].mc)}) :
        /\ call[p].at = "start"
        /\ call' = [call EXCEPT ![p] = Idle]
        /\ dialogs' = ds
        /\ hooked' = hooked \cap Range(ds)
        /\ IF ds = <<>> \/ Len(ds) < WaitDialogsNum
           THEN /\ mixCodec' = IF ds = <<>> THEN NoCodec ELSE mixCodec
                /\ UNCHANGED <<mixState, streams, mixVars>>
           ELSE /\ mixCodec' = call[p].mc
                /\ streams' = [d \in Dialogs |->
                                  IF d \in Range(ds) THEN codec[d] ELSE NoCodec]
                /\ mixState' = 1
                /\ mix' = [NoMix EXCEPT !.of = ds, !.at = FirstStep(Len(ds)), !.i = 1]
                /\ reader' = [d \in Dialogs |->
                                 IF poll /\ d \in Range(ds) THEN "reading" ELSE reader[d]]
        /\ UNCHANGED <<dialogVars, deadline, rest>>
  BY Zenon DEF mixStart
<1>2. ds \in Seq(Dialogs) /\ Range(ds) \subseteq Range(dialogs) /\ Distinct(ds)
      /\ Range(ds) \subseteq Dialogs /\ Len(ds) \in Nat
  BY KeptFacts, RangeFacts DEF IInv, TypeOK, Joined
<1>3. /\ mixState = 0 /\ mix.at = "none" /\ mix.of = <<>>
      /\ \A d \in Dialogs : reader[d] = "none" /\ deadline[d] = "none" /\ streams[d] = NoCodec
  BY <1>1 DEF IInv, Fresh, Unlocked, Loop
<1>4. /\ call' \in [Procs -> Call] /\ call'[p].at = "idle" /\ call[p].mc \in Codecs \cup {NoCodec}
      /\ \A q \in Procs : q # p => call'[q] = call[q] /\ ~Stopping(q)
  BY <1>1, IdleFacts DEF IInv, TypeOK, Call, Turns, Stopping
<1>5. Joined' /\ hooked' \subseteq Dialogs
  BY <1>1, <1>2, ZenonT(60) DEF IInv, TypeOK, Joined
<1>6. Called'
  BY <1>4 DEF IInv, Called
<1>7. mixState' \in {0, 1}
  BY <1>1, <1>3, ZenonT(60)
<1>8. Turns' /\ Unlocked'
  BY <1>4, <1>7, SMTT(30) DEF Turns, Stopping, Unlocked
<1>9. Fresh'
  BY <1>8 DEF Fresh
<1>10. CASE ds = <<>> \/ Len(ds) < WaitDialogsNum
  <2>1. /\ mixCodec' \in Codecs \cup {NoCodec}
        /\ UNCHANGED <<mixState, streams, mixVars, dialogVars, deadline, rest>>
    BY <1>1, <1>10 DEF IInv, TypeOK
  <2>2. TypeOK'
    BY <1>1, <1>2, <1>4, <1>5, <2>1, SMTT(30) DEF IInv, TypeOK, dialogVars, mixVars, rest
  <2>3. Loop' /\ Surviving' /\ CodecFollowed'
    <3>1. mix'.at = "none" /\ mix'.of = <<>> /\ mixState' = 0
      BY <1>3, <2>1, Zenon DEF mixVars
    <3>2. \A d \in Dialogs : streams'[d] = NoCodec
      BY <1>3, <2>1, Zenon
    <3>3. Loop'
      BY <3>1 DEF Loop
    <3>4. Surviving'
      BY <3>1 DEF Surviving
    <3>5. CodecFollowed'
      BY <3>2, Zenon DEF CodecFollowed
    <3> QED BY <3>3, <3>4, <3>5, Zenon
  <2>4. Reading'
    BY <1>3, <2>1 DEF Reading, Mixing, Range, mixVars
  <2> QED BY <1>5, <1>6, <1>8, <1>9, <2>2, <2>3, <2>4 DEF IInv
<1>11. CASE ~(ds = <<>> \/ Len(ds) < WaitDialogsNum)
  <2> DEFINE a == FirstStep(Len(ds))
             one == 1
             m == [NoMix EXCEPT !.of = ds, !.at = a, !.i = one]
  <2>1. /\ mixCodec' \in Codecs \cup {NoCodec} /\ mixState' = 1 /\ mix' = m
        /\ streams' = [d \in Dialogs |-> IF d \in Range(ds) THEN codec[d] ELSE NoCodec]
        /\ reader' = [d \in Dialogs |->
                         IF poll /\ d \in Range(ds) THEN "reading" ELSE reader[d]]
        /\ UNCHANGED <<dialogVars, deadline, rest>>
    BY <1>1, <1>4, <1>11
  <2>2. /\ \/ a = "single" /\ Len(ds) = 1
           \/ a = "visit" /\ poll
           \/ a = "arm" /\ ~poll
        /\ one \in Nat /\ one >= 1
    <3>1. Len(ds) # 0
      BY <1>2, <1>11, EmptySeq
    <3>2. \/ FirstStep(Len(ds)) = "single" /\ Len(ds) = 1
          \/ FirstStep(Len(ds)) = "visit" /\ poll
          \/ FirstStep(Len(ds)) = "arm" /\ ~poll
      BY <1>2, <3>1, FirstStepFacts, Zenon
    <3> QED BY <3>2
  <2> HIDE DEF a, one
  <2>3. m \in Mix /\ m.of = ds /\ m.at = a /\ m.i = one /\ m.gone = {}
    BY <1>2, <2>2, ZenonT(60) DEF NoMix, Mix
  <2> HIDE DEF m
  <2>4. Mixing' = Range(ds)
    BY <2>1, <2>3 DEF Mixing
  <2>5. TypeOK'
    <3>1. mixState' \in 0 .. 2
      BY <2>1
    <3>2. /\ streams' \in [Dialogs -> Codecs \cup {NoCodec}]
          /\ reader' \in [Dialogs -> {"none", "reading", "holding"}]
      BY <2>1 DEF IInv, TypeOK
    <3> QED BY <1>1, <1>2, <1>4, <1>5, <2>1, <2>3, <3>1, <3>2, Zenon
            DEF IInv, TypeOK, dialogVars, rest
  <2>6. Loop'
    BY <2>1, <2>2, <2>3 DEF Loop, rest
  <2>7. Surviving'
    BY <1>2, <1>3, <2>1, <2>3, <2>4, ZenonT(60) DEF Surviving, rest
  <2>8. CodecFollowed'
    BY <2>1 DEF CodecFollowed, dialogVars
  <2>9. Reading'
    BY <1>1, <1>3, <2>1, <2>4 DEF Reading, In
  <2> QED BY <1>5, <1>6, <1>8, <1>9, <2>5, <2>6, <2>7, <2>8, <2>9 DEF IInv
<1> QED BY <1>10, <1>11

\* A re-INVITE changes a dialog's codec; the dialog that is mixed has the hook.
LEMMA MediaUpdateInv ==
  ASSUME IInv, NEW d \in Dialogs, NEW c \in Codecs, MediaUpdate(d, c)
  PROVE  IInv'
<1>1. /\ call[d].at = "idle" /\ d \in Procs
      /\ updates' = updates + 1 /\ updates < MaxUpdates
      /\ codec' = [codec EXCEPT ![d] = c]
      /\ UNCHANGED <<bridgeVars, closed, dead, mixVars, poll, calls>>
  BY DEF MediaUpdate, Procs
<1>2. /\ call' \in [Procs -> Call]
      /\ \A q \in Procs : q # d => call'[q] = call[q]
      /\ \/ d \notin hooked /\ call' = call
         \/ call'[d].at = "hook" /\ call'[d].op = "update" /\ call'[d].d = d
  <2>1. CASE d \notin hooked
    BY <2>1 DEF MediaUpdate, IInv, TypeOK
  <2>2. CASE d \in hooked
    <3> DEFINE u == [Idle EXCEPT !.op = "update", !.d = d, !.at = "hook"]
    <3>1. u \in Call /\ u.at = "hook" /\ u.op = "update" /\ u.d = d
      BY Zenon DEF Idle, Call
    <3>2. call' = [call EXCEPT ![d] = u]
      BY <2>2 DEF MediaUpdate
    <3> HIDE DEF u
    <3> QED BY <1>1, <3>1, <3>2 DEF IInv, TypeOK
  <2> QED BY <2>1, <2>2
<1>3. /\ deadline' \in [Dialogs -> {"none", "soon", "past"}]
      /\ \A x \in Dialogs : deadline'[x] # "none" => deadline[x] # "none"
  BY DEF MediaUpdate, IInv, TypeOK
<1>4. TypeOK'
  <2>1. updates' \in 0 .. MaxUpdates
    <3>1. updates \in 0 .. MaxUpdates
      BY Zenon DEF IInv, TypeOK
    <3>2. updates < MaxUpdates /\ updates' = updates + 1 /\ MaxUpdates \in Nat
      BY <1>1, ConstantsAssumption, Zenon
    <3> QED BY <3>1, <3>2
  <2> QED BY <1>1, <1>2, <1>3, <2>1, Zenon DEF IInv, TypeOK, bridgeVars, mixVars
<1>5. Joined' /\ Mixing' = Mixing
  BY <1>1, ZenonT(60) DEF IInv, Joined, Distinct, Mixing, bridgeVars, mixVars
<1>6. Called'
  BY <1>2, SMTT(30) DEF IInv, Called
<1>7. \A q \in Procs : /\ (call'[q].at = "start") = (call[q].at = "start")
                       /\ (call'[q].at = "drain") = (call[q].at = "drain")
  BY <1>1, <1>2
<1>8. Turns' /\ Unlocked' = Unlocked
  BY <1>1, <1>7, Zenon DEF IInv, Turns, Stopping, Unlocked, bridgeVars
<1>9. Fresh'
  BY <1>1, <1>3, <1>8, ZenonT(60) DEF IInv, Fresh, bridgeVars, mixVars
<1>10. Loop'
  BY <1>1, <1>5, ZenonT(60) DEF IInv, Loop, bridgeVars, mixVars
<1>11. Reading'
  BY <1>1, <1>3, <1>5, ZenonT(60) DEF IInv, Reading, In, bridgeVars, mixVars
<1>12. CodecFollowed'
  <2> SUFFICES ASSUME NEW x \in Dialogs, streams[x] \notin {NoCodec, codec'[x]}, mixState # 2
               PROVE  call'[x].op = "update"
    BY <1>1, ZenonT(60) DEF CodecFollowed, bridgeVars
  <2>1. CASE x = d
    BY <1>2, <2>1, ZenonT(60) DEF IInv, Reading, Joined, In
  <2>2. CASE x # d
    BY <1>1, <1>2, <2>2 DEF IInv, TypeOK, CodecFollowed, Procs
  <2> QED BY <2>1, <2>2, SMTT(30)
<1>13. Surviving'
  BY <1>1, <1>3, <1>5, Zenon DEF IInv, Surviving, bridgeVars, mixVars
<1> QED BY <1>4, <1>5, <1>6, <1>8, <1>9, <1>10, <1>11, <1>12, <1>13 DEF IInv

\* The hook restarts the mix when the codec it was set up with is another.
LEMMA MediaUpdatedInv ==
  ASSUME IInv, NEW d \in Dialogs, mediaUpdated(d)
  PROVE  IInv'
<1>1. /\ d \in Procs /\ call[d].at = "hook" /\ Unlocked /\ UNCHANGED rest
      /\ calls \in 0 .. MaxCalls /\ updates \in 0 .. MaxUpdates
  BY DEF mediaUpdated, Procs, IInv, TypeOK
<1>2. CASE MixedWithOtherCodec(d)
  BY <1>1, <1>2, StopWaitInv DEF mediaUpdated, rest
<1>3. CASE ~MixedWithOtherCodec(d)
  <2>1. /\ call' = [call EXCEPT ![d] = Idle]
        /\ UNCHANGED <<bridgeVars, dialogVars, deadline, mixVars, rest>>
    BY <1>1, <1>3 DEF mediaUpdated
  <2>2. /\ call' \in [Procs -> Call] /\ call'[d].at = "idle"
        /\ \A q \in Procs : q # d => call'[q] = call[q]
    BY <1>1, <2>1, IdleFacts, SMTT(30) DEF IInv, TypeOK
  <2>3. \A q \in Procs : /\ (call'[q].at = "start") = (call[q].at = "start")
                         /\ (call'[q].at = "drain") = (call[q].at = "drain")
    BY <1>1, <2>2, SMTT(30)
  <2>4. TypeOK'
    BY <2>1, <2>2 DEF IInv, TypeOK, bridgeVars, dialogVars, mixVars, rest
  <2>5. Joined' /\ Called' /\ Mixing' = Mixing
    BY <2>1, <2>2 DEF IInv, Joined, Distinct, Called, Mixing, bridgeVars, mixVars
  <2>6. Turns' /\ Unlocked' = Unlocked
    BY <2>1, <2>3 DEF IInv, Turns, Stopping, Unlocked, bridgeVars
  <2>7. Fresh' /\ Loop'
    BY <2>1, <2>5, <2>6, ZenonT(60) DEF IInv, Fresh, Loop, bridgeVars, mixVars, rest
  <2>8. Reading' /\ Surviving'
    <3>1. Reading'
      BY <2>1, <2>5, ZenonT(60) DEF IInv, Reading, In, bridgeVars, mixVars, rest
    <3>2. Surviving'
      BY <2>1, <2>5, ZenonT(60) DEF IInv, Surviving, bridgeVars, dialogVars, mixVars, rest
    <3> QED BY <3>1, <3>2
  <2>9. CodecFollowed'
    BY <1>3, <2>1, <2>2
       DEF IInv, CodecFollowed, MixedWithOtherCodec, Procs, bridgeVars, dialogVars
  <2> QED BY <2>4, <2>5, <2>6, <2>7, <2>8, <2>9 DEF IInv
<1> QED BY <1>2, <1>3

\* A dialog is hung up.
LEMMA HangupInv ==
  ASSUME IInv, NEW d \in Dialogs, Hangup(d)
  PROVE  IInv'
<1>1. /\ closed' = closed \cup {d}
      /\ UNCHANGED <<bridgeVars, codec, dead, deadline, call, mixVars, rest>>
  BY DEF Hangup
<1>2. Joined' /\ Called' /\ Turns' /\ CodecFollowed' /\ Unlocked' = Unlocked
  BY <1>1, BridgeKept
<1>3. TypeOK' /\ Mixing' = Mixing
  BY <1>1, SMTT(30) DEF IInv, TypeOK, Mixing, bridgeVars, mixVars, rest
<1>4. Fresh' /\ Loop'
  BY <1>1, <1>2, <1>3 DEF IInv, Fresh, Loop, bridgeVars, mixVars, rest
<1>5. Reading' /\ Surviving'
  BY <1>1, <1>3, Zenon DEF IInv, Reading, Surviving, In, bridgeVars, mixVars, rest
<1> QED BY <1>2, <1>3, <1>4, <1>5 DEF IInv

-----------------------------------------------------------------------------
(* The theorems *)

\* A join or a leave begins.
LEMMA CallInv ==
  ASSUME IInv, NEW p \in Callers, NEW d \in Dialogs,
         AddDialogSession(p, d) \/ RemoveDialogSession(p, d)
  PROVE  IInv'
<1>1. p \in Procs /\ p \notin Dialogs
  BY ConstantsAssumption DEF Procs
<1>2. /\ call[p].at = "idle" /\ Unlocked /\ poll' = poll
      /\ calls' \in 0 .. MaxCalls /\ updates' \in 0 .. MaxUpdates
  BY ConstantsAssumption DEF AddDialogSession, RemoveDialogSession, IInv, TypeOK
<1>3. mixStopWait(p, "add", d) \/ mixStopWait(p, "remove", d)
  BY ZenonT(60) DEF AddDialogSession, RemoveDialogSession
<1> QED BY <1>1, <1>2, <1>3, StopWaitInv

\* An operation that waited for another's stop tries again.
LEMMA StopWaitedInv ==
  ASSUME IInv, NEW p \in Procs, StopWaited(p)
  PROVE  IInv'
<1>1. /\ call[p].at = "wait" /\ Unlocked
      /\ mixStopWait(p, call[p].op, call[p].d) /\ UNCHANGED rest
  BY DEF StopWaited
<1>2. /\ call[p].d \in Dialogs /\ (p \in Dialogs => call[p].op = "update")
      /\ call[p].op \in {"none", "add", "remove", "update"}
      /\ calls \in 0 .. MaxCalls /\ updates \in 0 .. MaxUpdates
  BY <1>1 DEF IInv, Called, TypeOK, Call
<1> QED BY <1>1, <1>2, StopWaitInv DEF rest

\* Every step keeps the invariant.
LEMMA NextInv ==
  ASSUME IInv, [Next]_vars
  PROVE  IInv'
<1>1. CASE Adds \/ Removes
  BY <1>1, CallInv DEF Adds, Removes
<1>2. CASE StopsWaited \/ Stops \/ Starts
  BY <1>2, StopWaitedInv, MixStoppedInv, MixStartInv DEF StopsWaited, Stops, Starts
<1>3. CASE Updates \/ Hooks \/ Hangups
  BY <1>3, MediaUpdateInv, MediaUpdatedInv, HangupInv DEF Updates, Hooks, Hangups
<1>4. CASE Reads \/ ReadEnds \/ ReadCancels \/ Deadlines
  BY <1>4, ReaderReadsInv, ReaderEndsInv, ReaderCancelledInv, DeadlineInv
     DEF Reads, ReadEnds, ReadCancels, Deadlines
<1>5. CASE MixSingle \/ MixVisit \/ MixCheck \/ MixWrite
  BY <1>5, MixSingleInv, MixVisitInv, MixCheckInv, MixWriteInv
<1>6. CASE MixArm \/ MixRead \/ MixRearm \/ MixRound \/ MixEnds
  BY <1>6, MixArmInv, MixReadInv, MixRearmInv, MixRoundInv, MixEndsInv
<1>7. CASE UNCHANGED vars
  <2>1. /\ UNCHANGED <<bridgeVars, codec, call, rest>>
        /\ UNCHANGED <<closed, dead, deadline, mix, reader>>
    BY <1>7 DEF vars, dialogVars, mixVars
  <2>2. Joined' /\ Called' /\ Turns' /\ CodecFollowed' /\ Unlocked' = Unlocked
    BY <2>1, BridgeKept
  <2>3. TypeOK' /\ Mixing' = Mixing
    BY <2>1 DEF IInv, TypeOK, Mixing, bridgeVars, rest
  <2>4. Fresh' /\ Loop'
    BY <2>1, <2>2, <2>3, ZenonT(60) DEF IInv, Fresh, Loop, bridgeVars, rest
  <2>5. Reading' /\ Surviving'
    BY <2>1, <2>3 DEF IInv, Reading, Surviving, In, bridgeVars, rest
  <2> QED BY <2>2, <2>3, <2>4, <2>5 DEF IInv
<1> QED BY <1>1, <1>2, <1>3, <1>4, <1>5, <1>6, <1>7 DEF Next

\* The invariant holds in every state the bridge reaches (BridgeMix, bridge.go).
THEOREM MixInvariant == Spec => []IInv
<1>1. Init => IInv
  BY InitInv
<1>2. IInv /\ [Next]_vars => IInv'
  BY NextInv
<1> QED BY <1>1, <1>2, PTL DEF Spec

(***************************************************************************)
(* The mix reads, and keeps from reading, only dialogs in the bridge:      *)
(* whoever reads a dialog after RemoveDialogSession gets every frame       *)
(* (mixStopWait, mixStart, armDirectRead).                                 *)
(***************************************************************************)
THEOREM OnlyMembersRead == Spec => []ReadsOnlyMembers
<1>1. IInv => ReadsOnlyMembers
  BY DEF IInv, Reading, ReadsOnlyMembers
<1> QED BY <1>1, MixInvariant, PTL

(***************************************************************************)
(* A mix that runs with a codec a re-INVITE has changed has the hook that  *)
(* restarts it still to run (mediaUpdated, addDialogStream).               *)
(***************************************************************************)
THEOREM CodecsFollowed == Spec => []CodecFollowed
<1>1. IInv => CodecFollowed
  BY DEF IInv
<1> QED BY <1>1, MixInvariant, PTL

\* A loop that ends on its own has no stream left to read.
LEMMA ExitStep ==
  ASSUME IInv, Next, Looping, mix'.at = "exit", mixState = 1
  PROVE  Mixing \subseteq closed \cup dead
<1>1. mix.at # "exit" /\ mix.at # "none" /\ mix' # mix
  BY DEF Looping
<1>2. /\ mix.gone \subseteq closed \cup dead
      /\ poll => \A d \in Mixing : reader[d] = "none" => d \in closed \cup dead
      /\ mix.at = "single" => \A d \in Dialogs : deadline[d] = "none"
  BY ZenonT(60) DEF IInv, Surviving
<1>3. CASE MixSingle
  <2>1. mix.at = "single" /\ Len(mix.of) = 1
    BY <1>3 DEF MixSingle, IInv, Loop
  <2>2. Mixing = {mix.of[1]} /\ mix.of[1] \in Dialogs
    <3>1. \A d \in Mixing : \E i \in 1 .. Len(mix.of) : mix.of[i] = d
      BY MixFacts, RangeFacts DEF Mixing
    <3>2. \A i \in 1 .. Len(mix.of) : i = 1
      BY <2>1
    <3> QED BY <2>1, <3>1, <3>2, MixFacts
  <2>3. IF poll THEN reader[mix.of[1]] = "none" ELSE Fails(mix.of[1])
    BY <1>1, <1>3 DEF MixSingle
  <2> QED BY <1>2, <2>1, <2>2, <2>3, MixFacts DEF Fails
<1>4. CASE MixCheck
  <2>1. mix.at = "check" /\ (EndsRound => mix.empty)
    BY <1>4 DEF MixCheck, EndsRound
  <2>2. EndsRound
    <3>1. mix' = [mix EXCEPT !.at = CASE EndsRound -> "exit"
                                      [] ~EndsRound /\ mix.took -> "write"
                                      [] OTHER -> "visit"]
      BY <1>4 DEF MixCheck, SetMix
    <3>2. mix'.at = CASE EndsRound -> "exit"
                      [] ~EndsRound /\ mix.took -> "write"
                      [] OTHER -> "visit"
      BY <3>1, MixFacts DEF Mix
    <3> QED BY <3>2
  <2> QED BY <1>2, <2>1, <2>2 DEF IInv, Loop
<1>5. CASE MixRound
  <2>1. mix'.at = IF Mixing = mix.gone THEN "exit" ELSE IF mix.took THEN "write" ELSE "arm"
    BY <1>5, MixFacts DEF MixRound, SetMix, Mix
  <2> QED BY <1>2, <2>1
<1>6. CASE MixVisit
  BY <1>6, MixFacts DEF MixVisit, SetMix, Mix
<1>7. CASE MixWrite
  BY <1>7, MixFacts DEF MixWrite, SetMix, Mix
<1>8. CASE MixArm
  BY <1>1, <1>8, MixFacts DEF MixArm, armDirectRead, SetMix, Mix
<1>9. CASE MixRead
  BY <1>1, <1>9, MixFacts, Zenon DEF MixRead, DeadlineEnds, SetMix, Mix
<1>10. CASE MixEnds
  BY <1>1, <1>10 DEF MixEnds
<1>11. ~(MixRearm \/ Deadlines \/ Reads \/ ReadEnds \/ ReadCancels)
  BY <1>1 DEF MixRearm, Deadlines, Deadline, Reads, ReaderReads, ReadEnds, ReaderEnds,
              ReadCancels, ReaderCancelled, mixVars
<1>12. ~(Adds \/ Removes \/ StopsWaited \/ Updates \/ Hooks \/ Hangups)
  BY <1>1, Zenon DEF Adds, AddDialogSession, Removes, RemoveDialogSession, StopsWaited,
     StopWaited,
              mixStopWait, Updates, MediaUpdate, Hooks, mediaUpdated, Hangups, Hangup, mixVars
<1>13. ~Stops
  BY <1>1, Zenon DEF Stops, mixStopped, mixVars
<1>14. ~Starts
  BY <1>1, Zenon DEF Starts, mixStart, IInv, Fresh, Unlocked
<1> QED BY <1>3, <1>4, <1>5, <1>6, <1>7, <1>8, <1>9, <1>10, <1>11, <1>12, <1>13, <1>14,
           SMTT(30) DEF Next

(***************************************************************************)
(* A dialog that hangs up does not end the mix of the others: a loop that  *)
(* is not stopped ends only when none of its dialogs can be read any more  *)
(* (mixLoop, mixAllStreams).                                               *)
(***************************************************************************)
THEOREM SurvivorsStayMixed == Spec => SurvivorsMixed
<1>1. IInv /\ [Next]_vars =>
        [Looping /\ mix'.at = "exit" /\ mixState = 1 => Mixing \subseteq closed \cup dead]_vars
  BY ExitStep
<1> QED BY <1>1, MixInvariant, PTL DEF Spec, SurvivorsMixed

=============================================================================
