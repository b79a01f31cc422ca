------------------------------- MODULE Relay -------------------------------
(***************************************************************************)
(* Operators of linked servers at the transmitter (relay.sessions.c,       *)
(* relay.c, relay.media.c, media.direct.c), composed with transmit control *)
(* (Ptt).  The owner of a rig keeps a session for a remote operator, which *)
(* has no connection whose loss would be noticed: what keeps it on the air *)
(* is its microphone, and what ends it is a watchdog in the main loop.  A  *)
(* session comes into being with its first request.                        *)
(***************************************************************************)
EXTENDS Ptt

CONSTANT Remote   \* the clients that are sessions of linked servers

ASSUME RelayAssumption == Remote \subseteq Clients

\* How the audio of a session reaches the owner.  A session with a direct
\* attachment may have a proxy subscription to fall back on.
Way == {"none", "proxy", "direct"}

VARIABLES
  way,     \* Remote -> Way
  heard,   \* Remote -> the talker keyed or was heard within three seconds
  kept     \* Remote -> the VFO a closed session still holds, or NoVfo

relay == <<way, heard, kept>>

RelayInit ==
  /\ Init
  /\ way = [c \in Remote |-> "none"]
  /\ heard = [c \in Remote |-> FALSE]
  /\ kept = [c \in Remote |-> NoVfo]

\* rrserver_relay_proxy_tx_active: a subscription, authority, and audio.
ProxyActive(c) == way[c] = "proxy" /\ heard[c]

\* What the watchdog asks for.
Alive(c) == way[c] = "direct" \/ ProxyActive(c)

\* proxy_started and proxy_frame count only for the transmission they belong
\* to: the next key-down sets them again.
KeepTime == heard' = [c \in Remote |-> heard[c] /\ talker' = c]

----------------------------------------------------------------------------
(* Media *)

\* The session subscribes or attaches; a session that still holds the
\* transmitter after it was closed is not used again (owner_session).
Subscribe(c, w) ==
  /\ Idle /\ kept[c] = NoVfo /\ way[c] # "direct" /\ way[c] # w
  /\ way' = [way EXCEPT ![c] = w]
  /\ UNCHANGED <<vars, heard, kept>>

\* It unsubscribes, its channel is removed, its authority is withdrawn: left
\* to the watchdog.
Unsubscribe(c) ==
  /\ Idle /\ way[c] = "proxy"
  /\ way' = [way EXCEPT ![c] = "none"]
  /\ UNCHANGED <<vars, heard, kept>>

\* The direct attachment ends (revoke_attachment, poll_media) and w is left.
\* With an explicit direct policy (force) the proxy does not keep the operator
\* on the air.
Detach(c, w, force) ==
  /\ Idle /\ way[c] = "direct" /\ w # "direct"
  /\ way' = [way EXCEPT ![c] = w]
  /\ IF talker = c /\ (force \/ w = "none" \/ ~heard[c]) THEN KeyUp
                                                         ELSE UNCHANGED vars
  /\ KeepTime /\ UNCHANGED kept

\* A key-down needs a way for the audio, and counts as heard.
RemoteKeyDown(c, r, v) ==
  /\ way[c] # "none"
  /\ KeyDown(c, r, v)
  /\ heard' = [heard EXCEPT ![c] = talker' = c]
  /\ UNCHANGED <<way, kept>>

\* rr_relay_proxy_tx_frame
Frame(c) ==
  /\ Idle /\ talker = c /\ way[c] = "proxy" /\ ~heard[c]
  /\ heard' = [heard EXCEPT ![c] = TRUE]
  /\ UNCHANGED <<vars, way, kept>>

\* Three seconds pass without an accepted frame.
Silence(c) ==
  /\ Idle /\ heard[c]
  /\ heard' = [heard EXCEPT ![c] = FALSE]
  /\ UNCHANGED <<vars, way, kept>>

----------------------------------------------------------------------------
(* Ways to lose the transmitter *)

\* Mutant: the watchdog ends with the subscription it watches.
RetrySubscribed(c) ==
  /\ talker = c /\ way[c] = "proxy" /\ ~heard[c]
  /\ KeyUp
  /\ KeepTime /\ UNCHANGED <<way, kept>>

\* retry_remote_ptt, the watchdog of rrserver_relay_poll.
retry_remote_ptt(c) ==
  /\ talker = c /\ ~Alive(c)
  /\ KeyUp
  /\ KeepTime /\ UNCHANGED <<way, kept>>

\* Mutant: the session is freed and its transmitter forgotten.
FreeRemote(c) ==
  /\ Idle
  /\ way' = [way EXCEPT ![c] = "none"]
  /\ IF talker = c THEN talker' = NoClient /\ ptt_vfo' = NoVfo
                   ELSE UNCHANGED <<talker, ptt_vfo>>
  /\ KeepTime
  /\ UNCHANGED <<kept, ptt_rig, switches, pending, off, jobs, log, worker, radio,
                 history>>

\* rr_relay_remove_remote: the remote server closes the session, its route is
\* lost, its account is disabled; and again while the release was refused.
\* informed: ptt_worker_closed hears of it.  It listens to an event of the
\* external protocol library other than the one emitted here.
RemoveRemote(c) ==
  /\ Idle
  /\ \E informed, rejected \in BOOLEAN :
       LET v == IF talker = c THEN ptt_vfo ELSE kept[c]
           q == IF informed THEN Orphan(pending, c) ELSE pending
       IN  /\ IF v # NoVfo
                THEN /\ RequestRelease(q, v, NoClient, rejected)
                     /\ kept' = [kept EXCEPT ![c] = IF rejected THEN v ELSE NoVfo]
                ELSE pending' = q /\ ~rejected /\ UNCHANGED <<kept, worker>>
           /\ IF informed
                THEN \E ok \in BOOLEAN :
                       /\ log' = Forget(LogStopAll(log, c, {w \in VFO : log.owner[w] = c}, ok), c)
                       /\ AfterWrites(ok)
                ELSE UNCHANGED <<log, accounting_locked, stop_pending>>
  /\ IF talker = c THEN talker' = NoClient /\ ptt_vfo' = NoVfo
                   ELSE UNCHANGED <<talker, ptt_vfo>>
  /\ way' = [way EXCEPT ![c] = "none"]
  /\ KeepTime
  /\ UNCHANGED <<ptt_rig, tx_blocked, tot, dying, off, jobs, radio, history>>

----------------------------------------------------------------------------
\* The rest of transmit control.
Control ==
  \/ KeyUp
  \/ ForceOff \/ TalkTimeout \/ RetryStop
  \/ OffVfo \/ EndOff
  \/ \E r \in Rigs : Drain(r)
  \/ Complete
  \/ AccountingFailed
  \/ WorkerStep

RelayNext ==
  \/ Control /\ KeepTime /\ UNCHANGED <<way, kept>>
  \/ \E c \in Remote :
       \/ \E w \in {"proxy", "direct"} : Subscribe(c, w)
       \/ Unsubscribe(c) \/ Frame(c) \/ Silence(c)
       \/ \E w \in Way, force \in BOOLEAN : Detach(c, w, force)
       \/ \E r \in Rigs, v \in VFO : RemoteKeyDown(c, r, v)
       \/ retry_remote_ptt(c) \/ RemoveRemote(c)

RelaySpec == RelayInit /\ [][RelayNext]_<<vars, relay>>

\* The main loop polls the relay every cycle.  The clock need never come round
\* to the talk timeout.
RelayFairSpec ==
  RelaySpec /\ Responsive /\ \A c \in Remote : SF_vars(retry_remote_ptt(c))

----------------------------------------------------------------------------
(* Properties *)

\* Type invariant of remote operators at transmit control.
RelayTypeOK ==
  /\ TypeOK
  /\ way \in [Remote -> Way] /\ heard \in [Remote -> BOOLEAN]
  /\ kept \in [Remote -> VFO \cup {NoVfo}]

\* A confirmed transmission without a talker is being ended: a release of it is
\* underway or will be retried.  The talk timeout is not relied on.
UnattendedEnds ==
  \A r \in Rigs, v \in VFO : confirmed[r][v] /\ talker = NoClient =>
    stop_pending \/ ReleaseUnderway(r, v)

\* "A three-second media-liveness watchdog releases transmit even when the
\* control link still exists" (doc/media-direct.md:88): once the operator of a
\* transmission is not heard it ends, though it is never timed out and the radio
\* refuses releases, unless its operator is heard again.
SilentRemoteEnds ==
  \A c \in Remote, r \in Rigs, v \in VFO :
    (confirmed[r][v] /\ talker = c /\ ~Alive(c))
      ~> (~confirmed[r][v] \/ (talker = c /\ Alive(c)) \/ dying)

\* With the talk timeout every confirmed transmission ends, also that of a
\* remote operator who goes on talking.
TimeoutEnds == SF_vars(TalkTimeout) => EveryTransmissionEnds
=============================================================================
