------------------------------ MODULE BridgeMix ------------------------------
(***************************************************************************)
(* The mixing bridge (bridge.go, BridgeMix): dialogs join and leave, a     *)
(* re-INVITE may change a dialog's codec, a BYE may close its media, and   *)
(* each of these stops the mix that runs, waits for its goroutines and     *)
(* starts the next one.  The wait is made without the bridge's lock.       *)
(*                                                                         *)
(* A mix is a loop and, when it polls, one reader per dialog.  The loop's  *)
(* visit of every stream is one step, since the readers do not depend on   *)
(* each other.  A dialog's read deadline is kept across re-INVITEs, as     *)
(* CarryRTPDeadlines does.                                                 *)
(***************************************************************************)
EXTENDS Naturals, Sequences, FiniteSets, Functions

CONSTANTS
    Dialogs,
    Callers,         \* goroutines that join and leave dialogs
    Codecs, NoCodec,
    Audio,           \* a codec's sample rate and frame duration
    Mixable,         \* the codecs PCM is decoded from and encoded to
    WaitDialogsNum,
    Jittered,        \* dialogs whose audio reader has a jitter buffer
    StopFails,       \* stopping reads may report an error
    MaxCalls,        \* how many joins and leaves there are
    MaxUpdates,      \* how many re-INVITEs change a codec
    MaxCloses        \* how many dialogs are hung up

ASSUME ConstantsAssumption ==
    /\ Callers \cap Dialogs = {}
    /\ NoCodec \notin Codecs
    /\ Jittered \subseteq Dialogs
    /\ WaitDialogsNum \in Nat /\ StopFails \in BOOLEAN
    /\ MaxCalls \in Nat /\ MaxUpdates \in Nat /\ MaxCloses \in Nat

\* A dialog's own process is the goroutine that handles its re-INVITE.
Procs == Callers \cup Dialogs

VARIABLES
    dialogs,    \* the dialogs in the bridge, in order
    mixState,   \* 0 idle, 1 running, 2 stopping
    mixCodec,   \* mixCodec
    streams,    \* streamCodecs, NoCodec for a dialog that is not in it
    hooked,     \* the dialogs with a media update hook of the bridge
    codec,      \* the codec of each dialog
    closed,     \* the dialogs whose media is closed
    deadline,   \* the read deadline of each dialog
    dead,       \* the dialogs whose jitter buffer has ended
    call,       \* what each process is doing
    mix,        \* the loop: its streams, where it is, the streams gone
    reader,     \* where the mix's reader of each dialog is
    poll,       \* BridgeMix.Poll, set before the bridge is used
    calls, updates

bridgeVars == <<dialogs, mixState, mixCodec, streams, hooked>>
dialogVars == <<codec, closed, dead>>
mixVars == <<mix, reader>>
rest == <<poll, calls, updates>>
vars == <<bridgeVars, dialogVars, deadline, call, mixVars, rest>>

Idle == [op |-> "none", d |-> "none", at |-> "idle", err |-> FALSE, mc |-> NoCodec]
NoMix == [of |-> <<>>, at |-> "none", gone |-> {}, i |-> 0, lost |-> FALSE,
          empty |-> FALSE, took |-> FALSE]

In(d) == d \in Range(dialogs)
Mixing == Range(mix.of)
Looping == mix.at \notin {"none", "exit"}
Drained == mix.at = "none" /\ \A d \in Dialogs : reader[d] = "none"

Call == [op : {"none", "add", "remove", "update"}, d : Dialogs \cup {"none"},
         at : {"idle", "hook", "wait", "drain", "start"}, err : BOOLEAN,
         mc : Codecs \cup {NoCodec}]
Mix == [of : Seq(Dialogs),
        at : {"none", "single", "visit", "check", "write", "arm", "read", "exit"},
        gone : SUBSET Dialogs, i : Nat, lost : BOOLEAN, empty : BOOLEAN, took : BOOLEAN]

\* The state has its types.
TypeOK ==
    /\ dialogs \in Seq(Dialogs)
    /\ mixState \in 0 .. 2
    /\ mixCodec \in Codecs \cup {NoCodec}
    /\ streams \in [Dialogs -> Codecs \cup {NoCodec}]
    /\ hooked \subseteq Dialogs
    /\ codec \in [Dialogs -> Codecs] /\ closed \subseteq Dialogs
    /\ dead \subseteq Jittered
    /\ deadline \in [Dialogs -> {"none", "soon", "past"}]
    /\ call \in [Procs -> Call]
    /\ mix \in Mix
    /\ reader \in [Dialogs -> {"none", "reading", "holding"}]
    /\ poll \in BOOLEAN /\ calls \in 0 .. MaxCalls /\ updates \in 0 .. MaxUpdates

Init ==
    /\ dialogs = <<>> /\ mixState = 0 /\ mixCodec = NoCodec
    /\ streams = [d \in Dialogs |-> NoCodec] /\ hooked = {}
    /\ codec \in [Dialogs -> Codecs] /\ closed = {} /\ dead = {}
    /\ deadline = [d \in Dialogs |-> "none"]
    /\ call = [p \in Procs |-> Idle]
    /\ mix = NoMix /\ reader = [d \in Dialogs |-> "none"]
    /\ poll \in BOOLEAN /\ calls = 0 /\ updates = 0

-----------------------------------------------------------------------------
(* Stopping a mix *)

\* mu is free: held between steps only from the end of a stop to the start.
Unlocked == \A p \in Procs : call[p].at # "start"

\* mixStop, by p: every dialog's reads are stopped.
mixStop(p, op, d) ==
    /\ mixState' = 2
    /\ deadline' = [x \in Dialogs |-> IF In(x) THEN "past" ELSE deadline[x]]
    /\ \E err \in {FALSE, StopFails} :
          call' = [call EXCEPT ![p] =
                      [op |-> op, d |-> d, at |-> "drain", err |-> err, mc |-> NoCodec]]

\* mixStopWait's beginning: wait for a stop in progress, or stop.
mixStopWait(p, op, d) ==
    /\ IF mixState = 2
       THEN /\ call' = [call EXCEPT ![p] = [Idle EXCEPT !.op = op, !.d = d, !.at = "wait"]]
            /\ UNCHANGED <<mixState, deadline>>
       ELSE mixStop(p, op, d)
    /\ UNCHANGED <<dialogs, mixCodec, streams, hooked, dialogVars, mixVars>>

StopWaited(p) ==
    /\ call[p].at = "wait" /\ mixState # 2 /\ Unlocked
    /\ mixStopWait(p, call[p].op, call[p].d)
    /\ UNCHANGED rest

\* What the operation does to the list of dialogs once the mix is stopped.
Joins(p) == call[p].op = "add" /\ ~call[p].err /\ ~In(call[p].d)
Leaves(p) == call[p].op = "remove" /\ In(call[p].d)
CutOut(s, i) == SubSeq(s, 1, i - 1) \o SubSeq(s, i + 1, Len(s))
Members(p) ==
    CASE Joins(p) -> Append(dialogs, call[p].d)
      [] Leaves(p) -> CutOut(dialogs, CHOOSE i \in DOMAIN dialogs : dialogs[i] = call[p].d)
      [] OTHER -> dialogs

Hooked(p) ==
    CASE Joins(p) -> hooked \cup {call[p].d}
      [] Leaves(p) -> hooked \ {call[p].d}
      [] OTHER -> hooked

SameAudio(a, b) == a # NoCodec /\ b # NoCodec /\ Audio[a] = Audio[b]

\* The audio of the last mix while a dialog still has it, or the first dialog's.
Picked(ds) ==
    IF \E d \in Range(ds) : SameAudio(codec[d], mixCodec)
    THEN mixCodec ELSE codec[ds[1]]

CanDrainNow == TRUE
CanDrain == Drained

StartRTP == deadline' = [d \in Dialogs |-> IF In(d) THEN "none" ELSE deadline[d]]

\* The mix has drained: reads are enabled, the operation takes effect and
\* mixStart chooses the audio of the next mix.
mixStopped(p) ==
    LET ds == Members(p) IN
    /\ call[p].at = "drain" /\ CanDrain
    /\ mixState' = 0
    /\ StartRTP
    /\ dialogs' = ds /\ hooked' = Hooked(p)
    /\ streams' = [d \in Dialogs |-> NoCodec]
    /\ IF ds = <<>> \/ Len(ds) < WaitDialogsNum
       THEN /\ call' = [call EXCEPT ![p] = Idle]
            /\ mixCodec' = IF ds = <<>> THEN NoCodec ELSE mixCodec
       ELSE /\ call' = [call EXCEPT ![p].at = "start", ![p].mc = Picked(ds)]
            /\ UNCHANGED mixCodec
    /\ UNCHANGED <<dialogVars, mixVars, rest>>

-----------------------------------------------------------------------------
(* Starting one *)

addDialogStream(d, mc) == SameAudio(codec[d], mc) /\ codec[d] \in Mixable

FirstStep(n) ==
    CASE n = 1 -> "single"
      [] n > 1 /\ poll -> "visit"
      [] OTHER -> "arm"

\* The elements of s that are in T, in their order: one sequence, as s has none twice.
InOrder(t, s) ==
    \A i, j \in DOMAIN t : i < j =>
        \E k, l \in DOMAIN s : k < l /\ s[k] = t[i] /\ s[l] = t[j]
Kept(s, T) ==
    {t \in UNION {[1 .. n -> T] : n \in 0 .. Len(s)} : Range(t) = T /\ InOrder(t, s)}

\* The streams are set up with the codecs the dialogs have by now; a dialog
\* that can not be mixed is taken out.
mixStart(p) ==
    LET mc == call[p].mc IN
    \E ds \in Kept(dialogs, {d \in Range(dialogs) : addDialogStream(d, mc)}) :
    /\ call[p].at = "start"
    /\ call' = [call EXCEPT ![p] = Idle]
    /\ dialogs' = ds
    /\ hooked' = hooked \cap Range(ds)
    /\ IF ds = <<>> \/ Len(ds) < WaitDialogsNum
       THEN /\ mixCodec' = IF ds = <<>> THEN NoCodec ELSE mixCodec
            /\ UNCHANGED <<mixState, streams, mixVars>>
       ELSE /\ mixCodec' = mc
            /\ streams' = [d \in Dialogs |->
                              IF d \in Range(ds) THEN codec[d] ELSE NoCodec]
            /\ mixState' = 1
            /\ mix' = [NoMix EXCEPT !.of = ds, !.at = FirstStep(Len(ds)), !.i = 1]
            /\ reader' = [d \in Dialogs |->
                             IF poll /\ d \in Range(ds) THEN "reading" ELSE reader[d]]
    /\ UNCHANGED <<dialogVars, deadline, rest>>

-----------------------------------------------------------------------------
(* Operations *)

\* A dialog that is not confirmed is refused.
AddDialogSession(p, d) ==
    /\ call[p].at = "idle" /\ Unlocked /\ calls < MaxCalls
    /\ d \notin closed
    /\ calls' = calls + 1
    /\ mixStopWait(p, "add", d)
    /\ UNCHANGED <<poll, updates>>

RemoveDialogSession(p, d) ==
    /\ call[p].at = "idle" /\ Unlocked /\ calls < MaxCalls
    /\ In(d)
    /\ calls' = calls + 1
    /\ mixStopWait(p, "remove", d)
    /\ UNCHANGED <<poll, updates>>

\* A re-INVITE of d's: its codec changes, and its hook is to run.  A short
\* deadline being set on the session it replaces is lost.
MediaUpdate(d, c) ==
    /\ call[d].at = "idle" /\ d \notin closed /\ updates < MaxUpdates
    /\ c # codec[d]
    /\ updates' = updates + 1
    /\ codec' = [codec EXCEPT ![d] = c]
    /\ call' = IF d \in hooked
               THEN [call EXCEPT ![d] = [Idle EXCEPT !.op = "update", !.d = d, !.at = "hook"]]
               ELSE call
    /\ deadline' = IF deadline[d] = "soon" THEN [deadline EXCEPT ![d] = "none"] ELSE deadline
    /\ UNCHANGED <<bridgeVars, closed, dead, mixVars, poll, calls>>

MixedWithOtherCodecNever(d) == FALSE
MixedWithOtherCodec(d) == streams[d] \notin {NoCodec, codec[d]}

mediaUpdated(d) ==
    /\ call[d].at = "hook" /\ Unlocked
    /\ IF MixedWithOtherCodec(d)
       THEN mixStopWait(d, "update", d)
       ELSE /\ call' = [call EXCEPT ![d] = Idle]
            /\ UNCHANGED <<bridgeVars, dialogVars, deadline, mixVars>>
    /\ UNCHANGED rest

Hangup(d) ==
    /\ d \notin closed /\ Cardinality(closed) < MaxCloses
    /\ closed' = closed \cup {d}
    /\ UNCHANGED <<bridgeVars, codec, dead, deadline, call, mixVars, rest>>

-----------------------------------------------------------------------------
(* The mix *)

SetMix(m) == mix' = m /\ UNCHANGED <<bridgeVars, dialogVars, deadline, call, rest>>

Fails(d) == d \in closed \/ d \in dead \/ deadline[d] = "past"

ReaderReads(d) ==
    /\ reader[d] = "reading" /\ ~Fails(d)
    /\ reader' = [reader EXCEPT ![d] = "holding"]
    /\ UNCHANGED <<bridgeVars, dialogVars, deadline, call, mix, rest>>

\* A read ends a jitter buffer below it as it ends.
ReaderEnds(d) ==
    /\ reader[d] = "reading" /\ Fails(d)
    /\ reader' = [reader EXCEPT ![d] = "none"]
    /\ dead' = dead \cup ({d} \cap Jittered)
    /\ UNCHANGED <<bridgeVars, codec, closed, deadline, call, mix, rest>>

\* The loop has returned and its context is cancelled.
ReaderCancelled(d) ==
    /\ reader[d] = "holding" /\ mix.at = "none"
    /\ reader' = [reader EXCEPT ![d] = "none"]
    /\ UNCHANGED <<bridgeVars, dialogVars, deadline, call, mix, rest>>

\* The loop with a single stream, which it only reads.
MixSingle ==
    LET d == mix.of[1] IN
    /\ mix.at = "single"
    /\ \/ /\ poll /\ reader[d] = "holding"
          /\ reader' = [reader EXCEPT ![d] = "reading"]
          /\ UNCHANGED mix
          /\ UNCHANGED <<bridgeVars, dialogVars, deadline, call, rest>>
       \/ /\ IF poll THEN reader[d] = "none" ELSE Fails(d)
          /\ SetMix([mix EXCEPT !.at = "exit"])
          /\ UNCHANGED reader

\* mixAllStreams, polling: frames held are taken, streams closed are gone.
MixVisit ==
    LET here == Mixing \ mix.gone IN
    /\ mix.at = "visit"
    /\ SetMix([mix EXCEPT !.at = "check",
                          !.gone = @ \cup {d \in here : reader[d] = "none"},
                          !.lost = mix.gone # {},
                          !.empty = here = {},
                          !.took = \E d \in here : reader[d] = "holding"])
    /\ reader' = [d \in Dialogs |-> IF d \in here /\ reader[d] = "holding"
                                    THEN "reading" ELSE reader[d]]

EndsRoundQuiet == mix.empty \/ mix.lost \/ ~mix.took
EndsRound ==
    \/ mix.empty                                          \* all streams are gone
    \/ (mix.lost \/ ~mix.took) /\ mixState # 1

MixCheck ==
    /\ mix.at = "check"
    /\ SetMix([mix EXCEPT !.at = CASE EndsRound -> "exit"
                                   [] ~EndsRound /\ mix.took -> "write"
                                   [] OTHER -> "visit"])
    /\ UNCHANGED reader

\* The mix is written to every stream; those whose media is closed are gone.
MixWrite ==
    /\ mix.at = "write"
    /\ SetMix([mix EXCEPT !.at = IF poll THEN "visit" ELSE "arm",
                          !.gone = @ \cup (Mixing \cap closed),
                          !.took = FALSE, !.lost = FALSE])
    /\ UNCHANGED reader

\* mixAllStreams, reading directly: stream by stream, each read with a
\* deadline of its own.  mix.i is the stream, past the last one when done.
Stream == mix.of[mix.i]
Visited == mix.i > Len(mix.of)

armDirectReadAlways == TRUE
armDirectRead == mixState = 1

MixArm ==
    /\ mix.at = "arm" /\ ~Visited
    /\ \/ /\ Stream \in mix.gone
          /\ SetMix([mix EXCEPT !.i = @ + 1])
       \/ /\ Stream \notin mix.gone /\ ~armDirectRead
          /\ SetMix([mix EXCEPT !.at = "exit"])
       \/ /\ Stream \notin mix.gone /\ armDirectRead
          /\ mix' = [mix EXCEPT !.at = "read"]
          /\ deadline' = [deadline EXCEPT ![Stream] = "soon"]
          /\ UNCHANGED <<bridgeVars, dialogVars, call, rest>>
    /\ UNCHANGED reader

DeadlineEnds == mixState # 1

\* readDirect returns: a frame, the end of the stream, or its deadline, which
\* ends the mix only when it is stopped.
MixRead ==
    /\ mix.at = "read"
    /\ \/ /\ ~Fails(Stream)
          /\ SetMix([mix EXCEPT !.at = "arm", !.i = @ + 1, !.took = TRUE])
       \/ /\ Stream \in closed
          /\ SetMix([mix EXCEPT !.at = "arm", !.i = @ + 1, !.gone = @ \cup {Stream}])
       \/ /\ Stream \notin closed /\ Fails(Stream)
          /\ mix' = IF DeadlineEnds THEN [mix EXCEPT !.at = "exit"]
                                   ELSE [mix EXCEPT !.at = "arm", !.i = @ + 1]
          /\ dead' = dead \cup ({Stream} \cap Jittered)
          /\ UNCHANGED <<bridgeVars, codec, closed, deadline, call, rest>>
    /\ UNCHANGED reader

\* The deadline was lost with the session it was set on and is set again.
MixRearm ==
    /\ mix.at = "read" /\ deadline[Stream] = "none" /\ armDirectRead
    /\ deadline' = [deadline EXCEPT ![Stream] = "soon"]
    /\ UNCHANGED <<bridgeVars, dialogVars, call, mixVars, rest>>

MixRound ==
    /\ mix.at = "arm" /\ Visited
    /\ SetMix([mix EXCEPT !.at = IF Mixing = mix.gone THEN "exit"
                                 ELSE IF mix.took THEN "write" ELSE "arm",
                          !.i = 1])
    /\ UNCHANGED reader

Deadline(d) ==
    /\ deadline[d] = "soon"
    /\ deadline' = [deadline EXCEPT ![d] = "past"]
    /\ UNCHANGED <<bridgeVars, dialogVars, call, mixVars, rest>>

mixEnded == mixState' = IF mixState = 1 THEN 0 ELSE mixState

\* The loop's deferred calls.
MixEnds ==
    /\ mix.at = "exit"
    /\ mixEnded
    /\ mix' = NoMix
    /\ UNCHANGED <<dialogs, mixCodec, streams, hooked, dialogVars, deadline, call,
                   reader, rest>>

-----------------------------------------------------------------------------
Adds == \E p \in Callers, d \in Dialogs : AddDialogSession(p, d)
Removes == \E p \in Callers, d \in Dialogs : RemoveDialogSession(p, d)
StopsWaited == \E p \in Procs : StopWaited(p)
Stops == \E p \in Procs : mixStopped(p)
Starts == \E p \in Procs : mixStart(p)
Updates == \E d \in Dialogs, c \in Codecs : MediaUpdate(d, c)
Hooks == \E d \in Dialogs : mediaUpdated(d)
Hangups == \E d \in Dialogs : Hangup(d)
Reads == \E d \in Dialogs : ReaderReads(d)
ReadEnds == \E d \in Dialogs : ReaderEnds(d)
ReadCancels == \E d \in Dialogs : ReaderCancelled(d)
Deadlines == \E d \in Dialogs : Deadline(d)

Next ==
    \/ Adds \/ Removes \/ StopsWaited \/ Stops \/ Starts
    \/ Updates \/ Hooks \/ Hangups
    \/ Reads \/ ReadEnds \/ ReadCancels
    \/ MixSingle \/ MixVisit \/ MixCheck \/ MixWrite
    \/ MixArm \/ MixRead \/ MixRearm \/ MixRound \/ Deadlines \/ MixEnds

Spec == Init /\ [][Next]_vars

(***************************************************************************)
(* Every goroutine is scheduled and time passes.  No dialog is assumed to  *)
(* send anything: a read ends by its deadline or by the close of its       *)
(* media.                                                                  *)
(***************************************************************************)
Fairness ==
    /\ \A p \in Procs : /\ WF_vars(StopWaited(p)) /\ WF_vars(mixStopped(p))
                        /\ WF_vars(mixStart(p))
    /\ \A d \in Dialogs : /\ WF_vars(mediaUpdated(d)) /\ WF_vars(ReaderEnds(d))
                          /\ WF_vars(ReaderCancelled(d)) /\ WF_vars(Deadline(d))
    /\ WF_vars(MixSingle) /\ WF_vars(MixVisit) /\ WF_vars(MixCheck)
    /\ WF_vars(MixWrite) /\ WF_vars(MixArm) /\ WF_vars(MixRead)
    /\ WF_vars(MixRearm) /\ WF_vars(MixRound) /\ WF_vars(MixEnds)

FairSpec == Spec /\ Fairness

-----------------------------------------------------------------------------
(* Properties *)

(***************************************************************************)
(* The mix touches only dialogs in the bridge: once a dialog has left, no  *)
(* reader and no loop of the bridge reads it, and outside a stop only a    *)
(* direct read's own deadline is set, so whoever reads it next gets every  *)
(* frame (mixStopWait, RemoveDialogSession, mixStart, armDirectRead).      *)
(***************************************************************************)
ReadsOnlyMembers ==
    /\ \A d \in Dialogs : reader[d] # "none" => In(d)
    /\ Mixing \subseteq Range(dialogs)
    /\ \A d \in Dialogs : deadline[d] # "none" /\ mixState # 2 => ~poll /\ In(d)

(***************************************************************************)
(* A mix never runs on with a codec its dialog no longer has: when they    *)
(* differ, the hook that restarts the mix is still to run (mediaUpdated).  *)
(***************************************************************************)
CodecFollowed ==
    \A d \in Dialogs :
        streams[d] \notin {NoCodec, codec[d]} /\ mixState # 2 =>
            call[d].op = "update"

(***************************************************************************)
(* A dialog that hangs up does not end the mix of the others: a loop ends  *)
(* on its own only when no dialog of it can be read any more, its media    *)
(* closed or its jitter buffer ended (mixLoop, mixAllStreams).             *)
(***************************************************************************)
SurvivorsMixed ==
    [][Looping /\ mix'.at = "exit" /\ mixState = 1 => Mixing \subseteq closed \cup dead]_vars

(***************************************************************************)
(* Every join, leave and media update comes to an end, whether or not any  *)
(* dialog sends audio: once no more are made, none is left waiting         *)
(* (mixStopWait).                                                          *)
(***************************************************************************)
Quiet == \A p \in Procs : call[p].at = "idle"
CallsReturn == ~Quiet ~> Quiet
=============================================================================
