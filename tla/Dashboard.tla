----------------------------- MODULE Dashboard -----------------------------
(* One browser tab (frontend/app.js) with what it talks to: login and logout,
   GET /api/status, the realtime stream (api/routes_realtime.py) and the
   WebRTC offers (api/routes_webrtc.py).

   A tab runs one callback at a time, so a callback, or what an async function
   does between two awaits, is one action; promises of an earlier login go on
   after a logout.  The server handles a request in one action and the answer
   arrives in a later one.

   A status is represented by its age: the counter's is version now, the copy
   in Redis may lag.  Every status carries the second it was taken in, so the
   stream, which compares and sends once a second, sends each time.  A video
   is supported; the lists of the administrator are left out.  A peer
   connection is closed exactly when it is no longer the tab's. *)
EXTENDS Naturals, Sequences

CONSTANTS Peers, NoPeer,    \* peer connections of the tab
          MaxLogins,        \* bound: times the dashboard is shown
          MaxClicks,        \* bound: logouts, reloads, clicks on the video button
          MaxFaults,        \* bound: failures of any kind
          MaxStatus,        \* bound: changes of the status
          WireCap           \* bound: statuses on their way

ASSUME DashboardAssumption ==
  /\ NoPeer \notin Peers
  /\ {MaxLogins, MaxClicks, MaxFaults, MaxStatus} \subseteq Nat
  /\ WireCap \in Nat \ {0}

VARIABLES authenticated, supportsVideo,
          shown,            \* status on the board, 0 when it is blank
          restoring,        \* restoreSession, once per page
          hydrates,         \* hydrateDashboard, by login
          logins,           \* how often the dashboard was shown
          leaving,          \* POST /logout handled and not answered
          socket, timer,    \* realtimeSocket, reconnectTimer
          wire,             \* statuses sent to the socket
          pc, started, negotiating,  \* peerConnection, webrtcStarted, ...
          calls,            \* startVideoConnection, by peer connection
          session,          \* the session of the tab's cookie is alive
          pcs, stuck,       \* pcs of the server; how many more of an offer that
                            \* raised
          now, cached,      \* the counter's status, the copy in Redis
          clicks, faults,
          connects,         \* history: connectRealtime was called in this login
          lone,             \* history: nothing was pending at this login
          overlapped        \* history: a logout met a negotiation, and some
                            \* negotiation has been in flight ever since

board == <<supportsVideo, shown>>
realtime == <<socket, timer, wire, connects>>
video == <<pc, started, negotiating, calls, overlapped>>
page == <<authenticated, board, restoring, hydrates, logins, leaving, realtime,
          video, lone>>
server == <<session, pcs, stuck, now, cached>>
bounds == <<clicks, faults>>
vars == <<page, server, bounds>>

Idle == [status |-> "none", value |-> 0, waits |-> FALSE]
Asked == [status |-> "asked", value |-> 0, waits |-> TRUE]
InFlight(c) == {p \in Peers : c[p] /= "none"}
NoCalls == [p \in Peers |-> "none"]

Click == clicks < MaxClicks /\ clicks' = clicks + 1 /\ UNCHANGED faults
Fault == faults < MaxFaults /\ faults' = faults + 1 /\ UNCHANGED clicks

-----------------------------------------------------------------------------
(* Functions of app.js that several callbacks share. *)

RenderStatus(s) == shown' = s /\ supportsVideo' = TRUE

\* Mutant: whether the tab is still logged in is not asked.
ConnectRealtimeAlways ==
  /\ socket' = IF socket = "none" THEN "connecting" ELSE socket
  /\ connects' = (connects \/ authenticated)
  /\ UNCHANGED wire

ConnectRealtime ==
  /\ socket' = IF authenticated /\ socket = "none" THEN "connecting" ELSE socket
  /\ connects' = (connects \/ authenticated)
  /\ UNCHANGED wire

\* Mutant: onclose schedules nothing.
SocketClosedNoRetry == socket' = "none" /\ wire' = <<>> /\ UNCHANGED <<timer, connects>>

(* onclose with any code but 4401, and then scheduleRealtimeReconnect. *)
SocketClosed == /\ socket' = "none" /\ wire' = <<>>
                /\ timer' = (timer \/ authenticated)
                /\ UNCHANGED connects

ResetVideo == pc' = NoPeer /\ started' = FALSE /\ negotiating' = FALSE

(* The catch and finally clauses of startVideoConnection: they reset whatever
   connection the tab has by then. *)
NegotiationFails(p) ==
  /\ ResetVideo
  /\ calls' = [calls EXCEPT ![p] = "none"]
  /\ overlapped' = (overlapped /\ InFlight(calls') /= {})

(* startVideoConnection up to its first await; a peer connection that is in
   use nowhere stands for a new one. *)
Free(p) == p /= pc /\ calls[p] = "none" /\ p \notin pcs

\* Mutant: the flag is not set again after resetVideoConnection.
StartVideoFlagLost(supported) ==
  IF started \/ negotiating \/ ~supported \/ ~(\E p \in Peers : Free(p))
    THEN UNCHANGED video
    ELSE \E p \in Peers :
            /\ Free(p)
            /\ pc' = p /\ started' = FALSE /\ negotiating' = FALSE
            /\ calls' = [calls EXCEPT ![p] = "local"]
            /\ UNCHANGED overlapped

StartVideo(supported) ==
  IF started \/ negotiating \/ ~supported \/ ~(\E p \in Peers : Free(p))
    THEN UNCHANGED video
    ELSE \E p \in Peers :
            /\ Free(p)
            /\ pc' = p /\ started' = FALSE /\ negotiating' = TRUE
            /\ calls' = [calls EXCEPT ![p] = "local"]
            /\ UNCHANGED overlapped

ShowDashboard ==
  /\ logins < MaxLogins
  /\ authenticated' = TRUE
  /\ logins' = logins + 1
  /\ hydrates' = [hydrates EXCEPT ![logins + 1] = Asked]
  /\ lone' = (/\ shown = 0 /\ socket = "none" /\ ~timer
              /\ \A n \in 1..MaxLogins : hydrates[n] = Idle)

HideDashboard ==
  /\ authenticated' = FALSE
  /\ shown' = 0
  /\ socket' = "none" /\ timer' = FALSE /\ wire' = <<>> /\ connects' = FALSE
  /\ ResetVideo
  /\ overlapped' = (InFlight(calls) /= {})

-----------------------------------------------------------------------------
Init == /\ authenticated = FALSE /\ supportsVideo = FALSE /\ shown = 0
        /\ restoring = "asked"
        /\ hydrates = [n \in 1..MaxLogins |-> Idle] /\ logins = 0 /\ leaving = 0
        /\ socket = "none" /\ timer = FALSE /\ wire = <<>>
        /\ pc = NoPeer /\ started = FALSE /\ negotiating = FALSE
        /\ calls = NoCalls
        /\ session \in BOOLEAN
        /\ pcs = {} /\ stuck = 0
        /\ now = 1 /\ cached = 1
        /\ clicks = 0 /\ faults = 0
        /\ connects = FALSE /\ lone = FALSE /\ overlapped = FALSE

-----------------------------------------------------------------------------
(* Session. *)

(* restoreSession asks when the page is loaded ... *)
RestoreHandled == /\ restoring = "asked"
                  /\ restoring' = IF session THEN "yes" ELSE "no"
                  /\ UNCHANGED <<authenticated, board, hydrates, logins, leaving,
                                 realtime, video, lone, server, bounds>>

(* ... and shows the dashboard if there is a session. *)
RestoreAnswered ==
  /\ restoring \in {"yes", "no"}
  /\ restoring' = "none"
  /\ IF restoring = "yes" THEN ShowDashboard
     ELSE UNCHANGED <<authenticated, logins, hydrates, lone>>
  /\ UNCHANGED <<board, leaving, realtime, video, server, bounds>>

(* The form may have been submitted at any time before, and more than once. *)
LoginAnswered == /\ ShowDashboard
                 /\ session' = TRUE
                 /\ UNCHANGED <<board, restoring, leaving, realtime, video, pcs,
                                stuck, now, cached, bounds>>

LogoutHandled == /\ authenticated /\ Click
                 /\ session' = FALSE
                 /\ leaving' = leaving + 1
                 /\ UNCHANGED <<authenticated, board, restoring, hydrates, logins,
                                realtime, video, lone, pcs, stuck, now, cached>>

(* The answer deletes the cookie, be it the one of a newer login. *)
LogoutAnswered == /\ leaving > 0
                  /\ leaving' = leaving - 1
                  /\ HideDashboard
                  /\ session' = FALSE
                  /\ UNCHANGED <<supportsVideo, restoring, hydrates, logins, calls,
                                 lone, pcs, stuck, now, cached, bounds>>

(* The session expires, or Redis loses it. *)
SessionEnds == /\ session /\ Fault
               /\ session' = FALSE
               /\ UNCHANGED <<page, pcs, stuck, now, cached>>

Reload == /\ Click
          /\ authenticated' = FALSE /\ supportsVideo' = FALSE /\ shown' = 0
          /\ restoring' = "asked"
          /\ hydrates' = [n \in 1..MaxLogins |-> Idle] /\ leaving' = 0
          /\ socket' = "none" /\ timer' = FALSE /\ wire' = <<>>
          /\ connects' = FALSE /\ lone' = FALSE
          /\ ResetVideo /\ calls' = NoCalls /\ overlapped' = FALSE
          /\ UNCHANGED <<logins, server>>

-----------------------------------------------------------------------------
(* hydrateDashboard: the status, and the administrator's requests beside it. *)

Hydrate(n, h) == hydrates' = [hydrates EXCEPT ![n] = h]

(* GET /api/status: the copy in Redis, or the counter if that cannot be read. *)
StatusHandled(n) ==
  /\ hydrates[n].status = "asked"
  /\ IF session
       THEN \E s \in {cached, now} :
               Hydrate(n, [hydrates[n] EXCEPT !.status = "answered", !.value = s])
       ELSE Hydrate(n, Idle)
  /\ UNCHANGED <<authenticated, board, restoring, logins, leaving, realtime, video,
                 lone, server, bounds>>

StatusArrives(n) ==
  /\ hydrates[n].status = "answered"
  /\ RenderStatus(hydrates[n].value)
  /\ Hydrate(n, IF hydrates[n].waits
                  THEN [status |-> "shown", value |-> 0, waits |-> TRUE] ELSE Idle)
  /\ UNCHANGED <<authenticated, restoring, logins, leaving, realtime, video, lone,
                 server, bounds>>

(* A request fails and the promise is rejected: that of the status, or another one,
   and then a status that is still to come is rendered all the same. *)
HydrateFails(n) ==
  /\ hydrates[n].waits
  /\ IF session THEN Fault ELSE UNCHANGED bounds
  /\ \/ hydrates[n].status /= "answered" /\ Hydrate(n, Idle)
     \/ /\ hydrates[n].status \in {"asked", "answered"}
        /\ Hydrate(n, [hydrates[n] EXCEPT !.waits = FALSE])
  /\ UNCHANGED <<authenticated, board, restoring, logins, leaving, realtime, video,
                 lone, server>>

\* Mutant: hydrateDashboard is not awaited.
HydrateEndsEarly(n) ==
  /\ hydrates[n].waits
  /\ Hydrate(n, IF hydrates[n].status = "shown" THEN Idle
                  ELSE [hydrates[n] EXCEPT !.waits = FALSE])
  /\ ConnectRealtime
  /\ UNCHANGED <<authenticated, board, restoring, logins, leaving, timer, video,
                 lone, server, bounds>>

HydrateEnds(n) ==
  /\ hydrates[n].status = "shown"
  /\ Hydrate(n, Idle)
  /\ ConnectRealtime
  /\ UNCHANGED <<authenticated, board, restoring, logins, leaving, timer, video,
                 lone, server, bounds>>

-----------------------------------------------------------------------------
(* The realtime stream. *)

SocketOpens == /\ socket = "connecting" /\ session
               /\ socket' = "open"
               /\ UNCHANGED <<authenticated, board, restoring, hydrates, logins,
                              leaving, timer, wire, connects, video, lone, server,
                              bounds>>

(* Without a session the server closes before it accepts: the handshake fails
   and the tab sees code 1006, never 4401. *)
HandshakeRefused == /\ socket = "connecting" /\ ~session
                    /\ SocketClosed
                    /\ UNCHANGED <<authenticated, board, restoring, hydrates,
                                   logins, leaving, video, lone, server, bounds>>

SocketLost == /\ socket /= "none" /\ Fault
              /\ SocketClosed
              /\ UNCHANGED <<authenticated, board, restoring, hydrates, logins,
                             leaving, video, lone, server>>

ReconnectTimer == /\ timer
                  /\ timer' = FALSE
                  /\ ConnectRealtime
                  /\ UNCHANGED <<authenticated, board, restoring, hydrates, logins,
                                 leaving, video, lone, server, bounds>>

\* Mutant: sending does not wait for the tab.
PushStatusUnbounded ==
  /\ socket = "open"
  /\ wire' = Append(wire, now)
  /\ UNCHANGED <<authenticated, board, restoring, hydrates, logins, leaving, socket,
                 timer, connects, video, lone, server, bounds>>

(* The session was checked when the socket was opened, and is not again. *)
PushStatus == /\ socket = "open" /\ Len(wire) < WireCap
              /\ wire' = Append(wire, now)
              /\ UNCHANGED <<authenticated, board, restoring, hydrates, logins,
                             leaving, socket, timer, connects, video, lone, server,
                             bounds>>

ReceiveStatus == /\ wire /= <<>>
                 /\ wire' = Tail(wire)
                 /\ RenderStatus(Head(wire))
                 /\ StartVideo(TRUE)
                 /\ UNCHANGED <<authenticated, restoring, hydrates, logins, leaving,
                                socket, timer, connects, lone, server, bounds>>

-----------------------------------------------------------------------------
(* Video. *)

VideoButton == /\ authenticated /\ Click
               /\ StartVideo(supportsVideo)
               /\ UNCHANGED <<authenticated, board, restoring, hydrates, logins,
                              leaving, realtime, lone, server>>

(* The offer is made and posted.  The server adds a connection to pcs and answers;
   if it raises in between, the connection stays there.  A fault loses the
   request, loses the answer, or raises. *)
SendOffer(p) ==
  /\ calls[p] = "local" /\ p = pc
  /\ \/ /\ session /\ UNCHANGED bounds
        /\ pcs' = pcs \cup {p} /\ UNCHANGED stuck
        /\ calls' = [calls EXCEPT ![p] = "answered"]
     \/ /\ session /\ Fault
        /\ \/ UNCHANGED <<pcs, stuck>>
           \/ pcs' = pcs \cup {p} /\ UNCHANGED stuck
           \/ stuck' = stuck + 1 /\ UNCHANGED pcs
        /\ calls' = [calls EXCEPT ![p] = "refused"]
     \/ /\ ~session /\ UNCHANGED <<pcs, stuck, bounds>>
        /\ calls' = [calls EXCEPT ![p] = "refused"]
  /\ UNCHANGED <<authenticated, board, restoring, hydrates, logins, leaving, realtime,
                 pc, started, negotiating, overlapped, lone, session, now, cached>>

\* Mutant: no finally clause, the flag stays set after a success.
AnswerArrivesNoFinally(p) ==
  /\ calls[p] = "answered" /\ p = pc
  /\ started' = TRUE /\ UNCHANGED negotiating
  /\ calls' = [calls EXCEPT ![p] = "none"]
  /\ overlapped' = (overlapped /\ InFlight(calls') /= {})
  /\ UNCHANGED <<authenticated, board, restoring, hydrates, logins, leaving, realtime,
                 pc, lone, server, bounds>>

AnswerArrives(p) ==
  /\ calls[p] = "answered" /\ p = pc
  /\ started' = TRUE /\ negotiating' = FALSE
  /\ calls' = [calls EXCEPT ![p] = "none"]
  /\ overlapped' = (overlapped /\ InFlight(calls') /= {})
  /\ UNCHANGED <<authenticated, board, restoring, hydrates, logins, leaving, realtime,
                 pc, lone, server, bounds>>

(* The offer was refused, or the connection has been closed in the meantime. *)
CallFails(p) ==
  /\ calls[p] = "refused" \/ (calls[p] /= "none" /\ p /= pc)
  /\ NegotiationFails(p)
  /\ UNCHANGED <<authenticated, board, restoring, hydrates, logins, leaving, realtime,
                 lone, server, bounds>>

(* The network fails under a video: one of the two sides notices first. *)
NetworkFails == /\ started /\ pc \in pcs /\ Fault
                /\ \/ started' = FALSE /\ UNCHANGED pcs
                   \/ pcs' = pcs \ {pc} /\ UNCHANGED started
                /\ UNCHANGED <<authenticated, board, restoring, hydrates, logins,
                               leaving, realtime, pc, negotiating, calls,
                               overlapped, lone, session, stuck, now, cached>>

(* onconnectionstatechange in the tab: gone for good, or connected again. *)
VideoGone == /\ started /\ pc \notin pcs
             /\ started' = FALSE
             /\ UNCHANGED <<authenticated, board, restoring, hydrates, logins,
                            leaving, realtime, pc, negotiating, calls, overlapped,
                            lone, server, bounds>>

VideoBack == /\ ~started /\ pc \in pcs /\ calls[pc] = "none"
             /\ started' = TRUE
             /\ UNCHANGED <<authenticated, board, restoring, hydrates, logins,
                            leaving, realtime, pc, negotiating, calls, overlapped,
                            lone, server, bounds>>

\* Mutant: only the failure of the connection in use is handled, not "closed".
PeerGoneIfFailed(p) == /\ p \in pcs
                       /\ p = pc /\ ~started /\ calls[p] = "none"
                       /\ pcs' = pcs \ {p}
                       /\ UNCHANGED <<page, session, stuck, now, cached, bounds>>

(* on_connectionstatechange in the server: the tab's side is closed or gone. *)
PeerGone(p) == /\ p \in pcs
               /\ p = pc => ~started /\ calls[p] = "none"
               /\ pcs' = pcs \ {p}
               /\ UNCHANGED <<page, session, stuck, now, cached, bounds>>

-----------------------------------------------------------------------------
(* The counter refreshes its status; a SET that fails leaves the copy. *)
StatusChanges == /\ now < MaxStatus
                 /\ now' = now + 1
                 /\ \/ cached' = now + 1 /\ UNCHANGED bounds
                    \/ Fault /\ UNCHANGED cached
                 /\ UNCHANGED <<page, session, pcs, stuck>>

(* Shutdown closes every connection and clears pcs; sessions are in Redis. *)
Restart == /\ Fault
           /\ pcs' = {} /\ stuck' = 0
           /\ IF socket = "none" THEN UNCHANGED realtime ELSE SocketClosed
           /\ UNCHANGED <<authenticated, board, restoring, hydrates, logins, leaving,
                          video, lone, session, now, cached>>

Answers(n) == StatusHandled(n) \/ StatusArrives(n) \/ HydrateEnds(n)
Call(p) == SendOffer(p) \/ AnswerArrives(p) \/ CallFails(p)

Next == \/ RestoreHandled \/ RestoreAnswered
        \/ LoginAnswered \/ LogoutHandled \/ LogoutAnswered \/ SessionEnds \/ Reload
        \/ \E n \in 1..MaxLogins : Answers(n) \/ HydrateFails(n)
        \/ SocketOpens \/ HandshakeRefused \/ SocketLost \/ ReconnectTimer
        \/ PushStatus \/ ReceiveStatus
        \/ VideoButton \/ NetworkFails \/ VideoGone \/ VideoBack
        \/ \E p \in Peers : Call(p) \/ PeerGone(p)
        \/ StatusChanges \/ Restart

Spec == Init /\ [][Next]_vars

(* Answers arrive, timers fire, the stream polls, lost peers are noticed.
   Users and failures are not fair. *)
FairSpec == /\ Spec
            /\ \A n \in 1..MaxLogins : WF_vars(Answers(n))
            /\ WF_vars(SocketOpens) /\ WF_vars(ReconnectTimer)
            /\ WF_vars(PushStatus) /\ WF_vars(ReceiveStatus)
            /\ WF_vars(VideoGone)
            /\ \A p \in Peers : WF_vars(Call(p)) /\ WF_vars(PeerGone(p))

-----------------------------------------------------------------------------
HydrateType == [status : {"none", "asked", "answered", "shown"},
                value : Nat, waits : BOOLEAN]

TypeOK ==
  /\ {authenticated, supportsVideo, timer, started, negotiating, session,
      connects, lone, overlapped} \subseteq BOOLEAN
  /\ {shown, logins, leaving, now, cached, clicks, faults, stuck} \subseteq Nat
  /\ restoring \in {"asked", "yes", "no", "none"}
  /\ hydrates \in [1..MaxLogins -> HydrateType] /\ logins <= MaxLogins
  /\ socket \in {"none", "connecting", "open"}
  /\ wire \in Seq(Nat) /\ Len(wire) <= WireCap
  /\ pc \in Peers \cup {NoPeer}
  /\ calls \in [Peers -> {"none", "local", "answered", "refused"}]
  /\ pcs \subseteq Peers

(* After hideDashboard the tab is quiet, whatever promises, timers and answers
   of the login are still under way: no socket, no reconnect timer, no peer
   connection, and nothing on the wire that would start one. *)
LoggedOutIsQuiet ==
  ~authenticated => /\ socket = "none" /\ ~timer /\ wire = <<>>
                    /\ pc = NoPeer /\ ~started /\ ~negotiating

(* At most one negotiation at a time, and it is about the tab's connection:
   startVideoConnection resets the flag it has set and sets it again.  Only a
   negotiation that outlives a logout breaks it: its catch clause closes the
   connection of the next login and lets a third negotiation begin. *)
OneNegotiation ==
  ~overlapped =>
    \A p \in InFlight(calls) : p = pc /\ negotiating /\ ~started

(* The flags that keep startVideoConnection from starting are never left set: a
   negotiation the tab believes in is in flight and about its connection, and a
   video that plays has a connection nobody negotiates.  Unlike OneNegotiation it
   holds through every overlap, with the catch clauses of earlier logins. *)
FlagsAreBacked ==
  /\ negotiating => pc \in InFlight(calls)
  /\ started => pc \in Peers \ InFlight(calls)

(* A login that has connected once is never without a socket and without a timer
   that will open one: however sockets close, timers fire and promises of earlier
   logins end, the tab is on its way back to the stream. *)
StreamIsKept == connects => authenticated /\ (socket /= "none" \/ timer)

(* The status on the board never goes back to an older one while the tab stays
   logged in: the stream is opened after the answer of GET /api/status has been
   rendered, and a reconnect begins with the current status.  It needs that nothing
   of an earlier login was still loading or connected when this one began. *)
StatusNeverGoesBack ==
  [][authenticated /\ authenticated' /\ lone /\ logins' = logins
       => shown' >= shown]_vars

(* A tab that stays logged in, with a session that lives and a hydrate that
   ended well, reconnects after every loss and shows the current status, also
   if the late answer of an earlier login has overwritten it. *)
ScreenCatchesUp ==
  <>[](connects /\ session) => <>[](socket = "open" /\ shown = now)

(* ... and its video starts again after every loss, unless negotiations that
   outlived a logout keep closing each other's connections. *)
VideoSettles == <>[](connects /\ session) /\ []<>(~overlapped) => <>[]started

(* The server keeps no answered connection of a tab that is logged out. *)
PeersReleased == <>[](~authenticated) => <>[](pcs = {})
=============================================================================
