-------------------------- MODULE DashboardProofs ---------------------------
(* For any number of logins, clicks, failures and peer connections: a tab that is
   logged out is quiet, it negotiates once at a time unless a negotiation outlives
   a logout, no flag and no lost socket keeps it from its video and its stream, and
   its status never goes back.

   All but the last are inductive as they stand.  The last needs that what is on its
   way to the board is ordered, and that the stream of a login that began with
   nothing pending is opened by its own hydrate, after the status it asked for. *)
EXTENDS Dashboard, TLAPS

(* TypeOK in parts. *)
SessionOK == /\ authenticated \in BOOLEAN /\ supportsVideo \in BOOLEAN
             /\ restoring \in {"asked", "yes", "no", "none"}
             /\ logins \in Nat /\ logins <= MaxLogins
             /\ connects \in BOOLEAN /\ lone \in BOOLEAN /\ session \in BOOLEAN
CountsOK == /\ leaving \in Nat /\ clicks \in Nat /\ faults \in Nat /\ stuck \in Nat
            /\ now \in Nat /\ cached \in Nat /\ shown \in Nat
HydratesOK == hydrates \in [1..MaxLogins -> HydrateType]
StreamOK == /\ socket \in {"none", "connecting", "open"} /\ timer \in BOOLEAN
            /\ wire \in Seq(Nat) /\ Len(wire) <= WireCap
VideoOK == /\ pc \in Peers \cup {NoPeer} /\ pcs \subseteq Peers
           /\ calls \in [Peers -> {"none", "local", "answered", "refused"}]
           /\ started \in BOOLEAN /\ negotiating \in BOOLEAN /\ overlapped \in BOOLEAN

LEMMA TypeParts ==
  TypeOK <=> SessionOK /\ CountsOK /\ HydratesOK /\ StreamOK /\ VideoOK
  <1>1. {authenticated, supportsVideo, timer, started, negotiating, session,
         connects, lone, overlapped} \subseteq BOOLEAN
        <=> /\ authenticated \in BOOLEAN /\ supportsVideo \in BOOLEAN
            /\ timer \in BOOLEAN /\ started \in BOOLEAN /\ negotiating \in BOOLEAN
            /\ session \in BOOLEAN /\ connects \in BOOLEAN /\ lone \in BOOLEAN
            /\ overlapped \in BOOLEAN
    BY Zenon
  <1>2. {shown, logins, leaving, now, cached, clicks, faults, stuck} \subseteq Nat
        <=> /\ shown \in Nat /\ logins \in Nat /\ leaving \in Nat /\ now \in Nat
            /\ cached \in Nat /\ clicks \in Nat /\ faults \in Nat /\ stuck \in Nat
    BY Zenon
  <1> QED
    BY <1>1, <1>2, Zenon DEF TypeOK, SessionOK, CountsOK, HydratesOK, StreamOK, VideoOK

LEMMA ConstantTypes ==
  /\ NoPeer \notin Peers
  /\ MaxLogins \in Nat /\ MaxClicks \in Nat /\ MaxFaults \in Nat /\ MaxStatus \in Nat
  /\ WireCap \in Nat \ {0}
  BY DashboardAssumption DEF DashboardAssumption

-----------------------------------------------------------------------------
(* What a step does to the video of the tab. *)
VideoStays == UNCHANGED video
VideoReset == /\ ResetVideo
              /\ \/ UNCHANGED calls /\ overlapped' = (InFlight(calls) /= {})
                 \/ calls' = NoCalls /\ overlapped' = FALSE
              /\ authenticated' = FALSE
VideoStarts == \E s \in BOOLEAN : StartVideo(s)
CallGoesOn == \E p \in Peers : Call(p)
VideoFlips == /\ UNCHANGED <<pc, negotiating, calls, overlapped>>
              /\ \/ started /\ started' \in BOOLEAN
                 \/ pc \in pcs /\ calls[pc] = "none" /\ started' = TRUE

LEMMA KindsOfVideoSteps ==
  ASSUME [Next]_vars, SessionOK, VideoOK
  PROVE  /\ \/ VideoStays \/ VideoReset \/ CallGoesOn \/ VideoFlips
            \/ VideoStarts /\ (authenticated \/ wire /= <<>>)
         /\ VideoReset \/ authenticated' = authenticated \/ authenticated' = TRUE
  <1> USE DEF VideoStays, VideoReset, page, video, bounds
  <1>1. CASE RestoreHandled \/ RestoreAnswered \/ LoginAnswered
    BY <1>1 DEF RestoreHandled, RestoreAnswered, LoginAnswered, ShowDashboard
  <1>2. CASE LogoutHandled \/ LogoutAnswered \/ SessionEnds \/ Reload
    BY <1>2 DEF LogoutHandled, LogoutAnswered, SessionEnds, Reload, HideDashboard
  <1>3. ASSUME NEW n \in 1..MaxLogins, Answers(n) \/ HydrateFails(n)
        PROVE  VideoStays /\ authenticated' = authenticated
    BY <1>3 DEF Answers, StatusHandled, StatusArrives, HydrateEnds, HydrateFails
  <1>4. CASE SocketOpens \/ HandshakeRefused \/ SocketLost \/ ReconnectTimer \/ PushStatus
    BY <1>4 DEF SocketOpens, HandshakeRefused, SocketLost, ReconnectTimer, PushStatus
  <1>5. CASE ReceiveStatus
    BY <1>5 DEF ReceiveStatus, VideoStarts
  <1>6. CASE VideoButton
    BY <1>6 DEF VideoButton, VideoStarts, SessionOK
  <1>7. CASE NetworkFails
    BY <1>7 DEF NetworkFails, VideoFlips, VideoOK
  <1>8. CASE VideoGone \/ VideoBack
    BY <1>8 DEF VideoGone, VideoBack, VideoFlips
  <1>9. ASSUME NEW p \in Peers, Call(p)
        PROVE  CallGoesOn /\ authenticated' = authenticated
    BY <1>9 DEF CallGoesOn, Call, SendOffer, AnswerArrives, CallFails
  <1>10. ASSUME NEW p \in Peers, PeerGone(p)
        PROVE  VideoStays /\ authenticated' = authenticated
    BY <1>10 DEF PeerGone
  <1>11. CASE StatusChanges \/ Restart
    BY <1>11 DEF StatusChanges, Restart
  <1>12. CASE UNCHANGED vars
    BY <1>12 DEF vars
  <1> QED
    BY <1>1, <1>2, <1>3, <1>4, <1>5, <1>6, <1>7, <1>8, <1>9, <1>10, <1>11, <1>12
       DEF Next

LEMMA VideoTypeStep ==
  ASSUME SessionOK, VideoOK, [Next]_vars
  PROVE  VideoOK'
  <1>a. pcs' \subseteq Peers
    <2> USE DEF VideoOK, page, server
    <2>1. CASE RestoreHandled \/ RestoreAnswered \/ LoginAnswered
      BY <2>1 DEF RestoreHandled, RestoreAnswered, LoginAnswered
    <2>2. CASE LogoutHandled \/ LogoutAnswered \/ SessionEnds \/ Reload
      BY <2>2 DEF LogoutHandled, LogoutAnswered, SessionEnds, Reload
    <2>3. ASSUME NEW n \in 1..MaxLogins, Answers(n) \/ HydrateFails(n)
          PROVE  pcs' \subseteq Peers
      BY <2>3 DEF Answers, StatusHandled, StatusArrives, HydrateEnds, HydrateFails
    <2>4. CASE SocketOpens \/ HandshakeRefused \/ SocketLost \/ ReconnectTimer
      BY <2>4 DEF SocketOpens, HandshakeRefused, SocketLost, ReconnectTimer
    <2>5. CASE PushStatus \/ ReceiveStatus
      BY <2>5 DEF PushStatus, ReceiveStatus
    <2>6. CASE VideoButton \/ NetworkFails \/ VideoGone \/ VideoBack
      BY <2>6 DEF VideoButton, NetworkFails, VideoGone, VideoBack
    <2>7. ASSUME NEW p \in Peers, Call(p) \/ PeerGone(p)
          PROVE  pcs' \subseteq Peers
      BY <2>7 DEF Call, SendOffer, AnswerArrives, CallFails, PeerGone
    <2>8. CASE StatusChanges \/ Restart
      BY <2>8 DEF StatusChanges, Restart
    <2>9. CASE UNCHANGED vars
      BY <2>9 DEF vars
    <2> QED
      BY <2>1, <2>2, <2>3, <2>4, <2>5, <2>6, <2>7, <2>8, <2>9 DEF Next
  <1>b. /\ pc' \in Peers \cup {NoPeer}
        /\ calls' \in [Peers -> {"none", "local", "answered", "refused"}]
    <2> USE DEF VideoOK, video, ResetVideo
    <2>1. CASE VideoStays
      BY <2>1 DEF VideoStays
    <2>2. CASE VideoReset
      BY <2>2 DEF VideoReset, NoCalls
    <2>3. CASE VideoStarts
      BY <2>3 DEF VideoStarts, StartVideo
    <2>4. ASSUME NEW p \in Peers, Call(p)
          PROVE  /\ pc' \in Peers \cup {NoPeer}
                 /\ calls' \in [Peers -> {"none", "local", "answered", "refused"}]
      BY <2>4 DEF Call, SendOffer, AnswerArrives, CallFails, NegotiationFails
    <2>5. CASE VideoFlips
      BY <2>5 DEF VideoFlips
    <2> QED
      BY <2>1, <2>2, <2>3, <2>4, <2>5, KindsOfVideoSteps DEF CallGoesOn
  <1>c. /\ started' \in BOOLEAN /\ negotiating' \in BOOLEAN /\ overlapped' \in BOOLEAN
    <2> USE DEF VideoOK, video, ResetVideo
    <2>1. CASE VideoStays
      BY <2>1 DEF VideoStays
    <2>2. CASE VideoReset
      BY <2>2, Zenon DEF VideoReset
    <2>3. CASE VideoStarts
      BY <2>3 DEF VideoStarts, StartVideo
    <2>4. ASSUME NEW p \in Peers, Call(p)
          PROVE  /\ started' \in BOOLEAN /\ negotiating' \in BOOLEAN
                 /\ overlapped' \in BOOLEAN
      <3>1. CASE SendOffer(p)
        BY <3>1 DEF SendOffer
      <3>2. CASE AnswerArrives(p)
        BY <3>2, Zenon DEF AnswerArrives
      <3>3. CASE CallFails(p)
        BY <3>3, Zenon DEF CallFails, NegotiationFails
      <3> QED
        BY <2>4, <3>1, <3>2, <3>3 DEF Call
    <2>5. CASE VideoFlips
      BY <2>5 DEF VideoFlips
    <2> QED
      BY <2>1, <2>2, <2>3, <2>4, <2>5, KindsOfVideoSteps DEF CallGoesOn
  <1> QED
    BY <1>a, <1>b, <1>c DEF VideoOK

LEMMA OneNegotiationStep ==
  ASSUME SessionOK, VideoOK, OneNegotiation, [Next]_vars
  PROVE  OneNegotiation'
  <1> USE DEF OneNegotiation, InFlight
  <1>0. /\ overlapped \in BOOLEAN
        /\ calls \in [Peers -> {"none", "local", "answered", "refused"}]
    BY DEF VideoOK
  <1>1. CASE VideoStays
    BY <1>1 DEF VideoStays, video
  <1>2. CASE VideoReset
    BY <1>2 DEF VideoReset, ResetVideo, NoCalls
  <1>3. CASE VideoStarts
    <2>1. PICK b \in BOOLEAN : StartVideo(b)
      BY <1>3 DEF VideoStarts
    <2>2. CASE UNCHANGED video
      BY <2>2 DEF video
    <2>3. CASE ~UNCHANGED video
      <3>1. ~started /\ ~negotiating
        BY <2>1, <2>3 DEF StartVideo
      <3>2. PICK p \in Peers : /\ pc' = p /\ ~started' /\ negotiating'
                               /\ calls' = [calls EXCEPT ![p] = "local"]
                               /\ UNCHANGED overlapped
        BY <2>1, <2>3 DEF StartVideo
      <3> QED
        BY <1>0, <3>1, <3>2
    <2> QED
      BY <2>2, <2>3
  <1>4. ASSUME NEW p \in Peers, Call(p) PROVE OneNegotiation'
    <2>1. CASE SendOffer(p)
      <3>1. /\ calls[p] = "local" /\ UNCHANGED <<pc, started, negotiating, overlapped>>
            /\ \/ calls' = [calls EXCEPT ![p] = "answered"]
               \/ calls' = [calls EXCEPT ![p] = "refused"]
        BY <2>1 DEF SendOffer
      <3> QED
        BY <1>0, <3>1
    <2>2. ASSUME calls[p] /= "none", calls' = [calls EXCEPT ![p] = "none"],
                 overlapped' = (overlapped /\ InFlight(calls') /= {})
          PROVE  OneNegotiation'
      <3>1. CASE overlapped
        BY <2>2, <3>1
      <3>2. CASE ~overlapped
        <4>1. \A q \in Peers : calls[q] /= "none" => q = p
          BY <2>2, <3>2
        <4>2. \A q \in Peers : calls'[q] = "none"
          BY <1>0, <2>2, <4>1
        <4> QED
          BY <4>2
      <3> QED
        BY <3>1, <3>2
    <2>3. CASE AnswerArrives(p)
      <3>1. /\ calls[p] /= "none" /\ calls' = [calls EXCEPT ![p] = "none"]
            /\ overlapped' = (overlapped /\ InFlight(calls') /= {})
        BY <2>3 DEF AnswerArrives
      <3> QED
        BY <2>2, <3>1
    <2>4. CASE CallFails(p)
      <3>1. /\ calls[p] /= "none" /\ calls' = [calls EXCEPT ![p] = "none"]
            /\ overlapped' = (overlapped /\ InFlight(calls') /= {})
        BY <2>4 DEF CallFails, NegotiationFails
      <3> QED
        BY <2>2, <3>1
    <2> QED
      BY <1>4, <2>1, <2>3, <2>4 DEF Call
  <1>5. CASE VideoFlips
    BY <1>5 DEF VideoFlips
  <1> QED
    BY <1>1, <1>2, <1>3, <1>4, <1>5, KindsOfVideoSteps DEF CallGoesOn

-----------------------------------------------------------------------------
(* The flags along the same kinds of steps: the tab's connection is in flight as
   long as the flag is set, whichever call ends. *)
LEMMA FlagsStep ==
  ASSUME SessionOK, VideoOK, FlagsAreBacked, [Next]_vars
  PROVE  FlagsAreBacked'
  <1> USE DEF FlagsAreBacked, InFlight
  <1>0. /\ pc \in Peers \cup {NoPeer} /\ pcs \subseteq Peers
        /\ calls \in [Peers -> {"none", "local", "answered", "refused"}]
    BY DEF VideoOK
  <1>1. CASE VideoStays
    BY <1>1 DEF VideoStays, video
  <1>2. CASE VideoReset
    BY <1>2 DEF VideoReset, ResetVideo
  <1>3. CASE VideoStarts
    <2>1. PICK b \in BOOLEAN : StartVideo(b)
      BY <1>3 DEF VideoStarts
    <2>2. CASE UNCHANGED video
      BY <2>2 DEF video
    <2>3. CASE ~UNCHANGED video
      <3>1. PICK p \in Peers : /\ pc' = p /\ ~started'
                               /\ calls' = [calls EXCEPT ![p] = "local"]
        BY <2>1, <2>3 DEF StartVideo
      <3> QED
        BY <1>0, <3>1
    <2> QED
      BY <2>2, <2>3
  <1>4. ASSUME NEW p \in Peers, Call(p) PROVE FlagsAreBacked'
    <2>1. CASE SendOffer(p)
      <3>1. /\ calls[p] = "local" /\ UNCHANGED <<pc, started, negotiating>>
            /\ \/ calls' = [calls EXCEPT ![p] = "answered"]
               \/ calls' = [calls EXCEPT ![p] = "refused"]
        BY <2>1 DEF SendOffer
      <3> QED
        BY <1>0, <3>1
    <2>2. CASE AnswerArrives(p)
      <3>1. /\ p = pc /\ pc' = pc /\ ~negotiating'
            /\ calls' = [calls EXCEPT ![p] = "none"]
        BY <2>2 DEF AnswerArrives
      <3> QED
        BY <1>0, <3>1
    <2>3. CASE CallFails(p)
      BY <2>3 DEF CallFails, NegotiationFails, ResetVideo
    <2> QED
      BY <1>4, <2>1, <2>2, <2>3 DEF Call
  <1>5. CASE VideoFlips
    BY <1>0, <1>5 DEF VideoFlips
  <1> QED
    BY <1>1, <1>2, <1>3, <1>4, <1>5, KindsOfVideoSteps DEF CallGoesOn

(* What a step does to the stream: the socket, the timer, the wire, and whether
   the login has connected. *)
StreamStays == UNCHANGED <<socket, timer, wire, connects>>
StreamEnds == /\ socket' = "none" /\ timer' = FALSE /\ wire' = <<>>
              /\ authenticated' = FALSE /\ connects' = FALSE
StreamConnects == ConnectRealtime /\ timer' \in {timer, FALSE} /\ UNCHANGED authenticated
StreamOpens == /\ socket = "connecting" /\ socket' = "open"
               /\ UNCHANGED <<timer, wire, connects, authenticated>>
StreamCloses == socket /= "none" /\ SocketClosed /\ UNCHANGED authenticated
StreamPushes == /\ socket = "open" /\ Len(wire) < WireCap /\ wire' = Append(wire, now)
                /\ UNCHANGED <<socket, timer, connects, authenticated>>
StreamReceives == /\ wire /= <<>> /\ wire' = Tail(wire)
                  /\ UNCHANGED <<socket, timer, connects, authenticated>>

LEMMA KindsOfStreamSteps ==
  ASSUME [Next]_vars, SessionOK
  PROVE  /\ \/ StreamStays \/ StreamEnds \/ StreamConnects \/ StreamOpens
            \/ StreamCloses \/ StreamPushes \/ StreamReceives
         /\ StreamEnds \/ authenticated' = authenticated \/ authenticated' = TRUE
  <1> USE DEF page, realtime, bounds
  <1>1. CASE RestoreHandled \/ RestoreAnswered \/ LoginAnswered
    BY <1>1 DEF RestoreHandled, RestoreAnswered, LoginAnswered, ShowDashboard, StreamStays
  <1>2. CASE LogoutHandled \/ SessionEnds
    BY <1>2 DEF LogoutHandled, SessionEnds, StreamStays
  <1>3. CASE LogoutAnswered \/ Reload
    BY <1>3 DEF LogoutAnswered, Reload, HideDashboard, StreamEnds
  <1>4. ASSUME NEW n \in 1..MaxLogins, StatusHandled(n) \/ StatusArrives(n) \/ HydrateFails(n)
        PROVE  StreamStays /\ authenticated' = authenticated
    BY <1>4 DEF StatusHandled, StatusArrives, HydrateFails, StreamStays
  <1>5. ASSUME NEW n \in 1..MaxLogins, HydrateEnds(n)
        PROVE  StreamConnects
    BY <1>5 DEF HydrateEnds, StreamConnects
  <1>6. CASE ReconnectTimer
    BY <1>6 DEF ReconnectTimer, StreamConnects
  <1>7. CASE SocketOpens
    BY <1>7 DEF SocketOpens, StreamOpens
  <1>8. CASE HandshakeRefused \/ SocketLost
    BY <1>8 DEF HandshakeRefused, SocketLost, StreamCloses
  <1>9. CASE PushStatus
    BY <1>9 DEF PushStatus, StreamPushes
  <1>10. CASE ReceiveStatus
    BY <1>10 DEF ReceiveStatus, StreamReceives
  <1>11. CASE VideoButton \/ NetworkFails \/ VideoGone \/ VideoBack
    BY <1>11 DEF VideoButton, NetworkFails, VideoGone, VideoBack, StreamStays
  <1>12. ASSUME NEW p \in Peers, Call(p) \/ PeerGone(p)
         PROVE  StreamStays /\ authenticated' = authenticated
    BY <1>12 DEF Call, SendOffer, AnswerArrives, CallFails, PeerGone, StreamStays
  <1>13. CASE StatusChanges
    BY <1>13 DEF StatusChanges, StreamStays
  <1>14. CASE Restart
    BY <1>14 DEF Restart, StreamStays, StreamCloses
  <1>15. CASE UNCHANGED vars
    BY <1>15 DEF vars, StreamStays
  <1>a. StreamConnects => authenticated' = authenticated
    BY DEF StreamConnects
  <1>b. StreamOpens \/ StreamCloses \/ StreamPushes \/ StreamReceives
          => authenticated' = authenticated
    BY DEF StreamOpens, StreamCloses, StreamPushes, StreamReceives
  <1> QED
    BY <1>1, <1>2, <1>3, <1>4, <1>5, <1>6, <1>7, <1>8, <1>9, <1>10, <1>11, <1>12,
       <1>13, <1>14, <1>15, <1>a, <1>b DEF Next, Answers

LEMMA StreamTypeStep ==
  ASSUME SessionOK, CountsOK, StreamOK, [Next]_vars
  PROVE  StreamOK'
  <1> USE ConstantTypes DEF StreamOK
  <1>1. CASE StreamStays
    BY <1>1 DEF StreamStays
  <1>2. CASE StreamEnds
    <2>1. socket' = "none" /\ timer' = FALSE /\ wire' = <<>> /\ Len(<<>>) = 0
      BY <1>2 DEF StreamEnds
    <2>2. timer' \in BOOLEAN
      BY <2>1, Zenon
    <2> QED
      BY <2>1, <2>2
  <1>3. CASE StreamConnects
    BY <1>3 DEF StreamConnects, ConnectRealtime
  <1>4. CASE StreamOpens
    BY <1>4 DEF StreamOpens
  <1>5. CASE StreamCloses
    <2>1. timer' \in BOOLEAN
      BY <1>5, Zenon DEF StreamCloses, SocketClosed
    <2> QED
      BY <1>5, <2>1 DEF StreamCloses, SocketClosed
  <1>6. CASE StreamPushes
    <2>1. now \in Nat
      BY DEF CountsOK
    <2> QED
      BY <1>6, <2>1 DEF StreamPushes
  <1>7. CASE StreamReceives
    BY <1>7 DEF StreamReceives
  <1> QED
    BY <1>1, <1>2, <1>3, <1>4, <1>5, <1>6, <1>7, KindsOfStreamSteps

LEMMA QuietStep ==
  ASSUME SessionOK, CountsOK, StreamOK, VideoOK, LoggedOutIsQuiet, [Next]_vars
  PROVE  LoggedOutIsQuiet'
  <1>1. ~authenticated' => socket' = "none" /\ ~timer' /\ wire' = <<>>
    <2> SUFFICES ASSUME ~authenticated' PROVE socket' = "none" /\ ~timer' /\ wire' = <<>>
      OBVIOUS
    <2>1. CASE StreamEnds
      BY <2>1 DEF StreamEnds
    <2>2. CASE ~StreamEnds
      <3>1. ~authenticated
        BY <2>2, KindsOfStreamSteps
      <3>2. socket = "none" /\ ~timer /\ wire = <<>>
        BY <3>1 DEF LoggedOutIsQuiet
      <3>3. StreamStays \/ StreamConnects
        BY <2>2, <3>2, KindsOfStreamSteps
           DEF StreamOpens, StreamCloses, StreamPushes, StreamReceives
      <3>4. CASE StreamStays
        BY <3>2, <3>4 DEF StreamStays
      <3>5. CASE StreamConnects
        <4>1. socket' = socket /\ wire' = wire /\ timer' \in {timer, FALSE}
          BY <3>1, <3>2, <3>5 DEF StreamConnects, ConnectRealtime
        <4>2. ~timer'
          BY <3>2, <4>1, Zenon
        <4> QED
          BY <3>2, <4>1, <4>2
      <3> QED
        BY <3>3, <3>4, <3>5
    <2> QED
      BY <2>1, <2>2
  <1>2. ~authenticated' => pc' = NoPeer /\ ~started' /\ ~negotiating'
    <2> SUFFICES ASSUME ~authenticated' PROVE pc' = NoPeer /\ ~started' /\ ~negotiating'
      OBVIOUS
    <2>1. CASE VideoReset
      BY <2>1 DEF VideoReset, ResetVideo
    <2>2. CASE ~VideoReset
      <3>1. ~authenticated
        BY <2>2, KindsOfVideoSteps
      <3>2. pc = NoPeer /\ ~started /\ ~negotiating /\ wire = <<>>
        BY <3>1 DEF LoggedOutIsQuiet
      <3>3. VideoStays \/ CallGoesOn \/ VideoFlips
        BY <2>2, <3>1, <3>2, KindsOfVideoSteps
      <3>4. CASE VideoStays
        BY <3>2, <3>4 DEF VideoStays, video
      <3>5. ASSUME NEW p \in Peers, Call(p)
            PROVE  pc' = NoPeer /\ ~started' /\ ~negotiating'
        BY <3>2, <3>5, ConstantTypes
           DEF Call, SendOffer, AnswerArrives, CallFails, NegotiationFails, ResetVideo
      <3>6. CASE VideoFlips
        BY <3>2, <3>6, ConstantTypes DEF VideoFlips, VideoOK
      <3> QED
        BY <3>3, <3>4, <3>5, <3>6 DEF CallGoesOn
    <2> QED
      BY <2>1, <2>2
  <1> QED
    BY <1>1, <1>2 DEF LoggedOutIsQuiet

(* A socket that closes leaves a timer, a timer that fires leaves a socket. *)
LEMMA StreamIsKeptStep ==
  ASSUME SessionOK, StreamIsKept, [Next]_vars
  PROVE  StreamIsKept'
  <1> SUFFICES ASSUME connects' PROVE authenticated' /\ (socket' /= "none" \/ timer')
    BY DEF StreamIsKept
  <1>1. ~StreamEnds
    BY DEF StreamEnds
  <1>2. CASE StreamConnects
    <2>1. authenticated
      <3>1. connects' = (connects \/ authenticated)
        BY <1>2 DEF StreamConnects, ConnectRealtime
      <3> QED
        BY <3>1, Zenon DEF StreamIsKept
    <2> QED
      BY <1>2, <2>1 DEF StreamConnects, ConnectRealtime
  <1>3. CASE StreamCloses
    <2>1. connects' = connects /\ timer' = (timer \/ authenticated)
      BY <1>3 DEF StreamCloses, SocketClosed
    <2>2. authenticated
      BY <2>1 DEF StreamIsKept
    <2>3. timer' /\ authenticated' = authenticated
      BY <1>3, <2>1, <2>2, Zenon DEF StreamCloses
    <2> QED
      BY <2>2, <2>3
  <1>4. CASE StreamStays \/ StreamOpens \/ StreamPushes \/ StreamReceives
    <2>1. /\ connects' = connects /\ timer' = timer
          /\ socket' = socket \/ socket' = "open"
      BY <1>4 DEF StreamStays, StreamOpens, StreamPushes, StreamReceives
    <2>2. authenticated /\ (socket /= "none" \/ timer)
      BY <2>1 DEF StreamIsKept
    <2>3. authenticated'
      BY <1>1, <2>2, KindsOfStreamSteps
    <2> QED
      BY <2>1, <2>2, <2>3
  <1> QED
    BY <1>1, <1>2, <1>3, <1>4, KindsOfStreamSteps

-----------------------------------------------------------------------------
(* The types of the rest. *)

LEMMA IdleAsked ==
  Idle \in HydrateType /\ Asked \in HydrateType
  BY DEF Idle, Asked, HydrateType

LEMMA SessionTypeStep ==
  ASSUME SessionOK, [Next]_vars
  PROVE  SessionOK'
  <1> USE ConstantTypes DEF SessionOK, page, board, realtime, video, server
  <1>1. CASE RestoreHandled
    BY <1>1 DEF RestoreHandled
  <1>2. CASE RestoreAnswered \/ LoginAnswered
    <2>1. /\ authenticated' \in {authenticated, TRUE} /\ session' \in {session, TRUE}
          /\ logins' \in Nat /\ logins' <= MaxLogins /\ restoring' \in {restoring, "none"}
          /\ UNCHANGED <<supportsVideo, connects>>
      <3>1. CASE RestoreAnswered
        <4>1. CASE restoring = "yes"
          BY <3>1, <4>1 DEF RestoreAnswered, ShowDashboard
        <4>2. CASE restoring /= "yes"
          BY <3>1, <4>2 DEF RestoreAnswered
        <4> QED
          BY <4>1, <4>2
      <3>2. CASE LoginAnswered
        BY <3>2 DEF LoginAnswered, ShowDashboard
      <3> QED
        BY <1>2, <3>1, <3>2
    <2>2. lone' \in BOOLEAN
      BY <1>2, Zenon DEF RestoreAnswered, LoginAnswered, ShowDashboard
    <2>3. authenticated' \in BOOLEAN /\ session' \in BOOLEAN
      BY <2>1, Zenon
    <2> QED
      BY <2>1, <2>2, <2>3
  <1>3. CASE LogoutHandled \/ LogoutAnswered \/ SessionEnds
    BY <1>3, Zenon DEF LogoutHandled, LogoutAnswered, SessionEnds, HideDashboard
  <1>4. CASE Reload
    BY <1>4, Zenon DEF Reload
  <1>5. ASSUME NEW n \in 1..MaxLogins, StatusHandled(n) \/ HydrateFails(n)
        PROVE  SessionOK'
    BY <1>5 DEF StatusHandled, HydrateFails
  <1>6. ASSUME NEW n \in 1..MaxLogins, StatusArrives(n)
        PROVE  SessionOK'
    BY <1>6, Zenon DEF StatusArrives, RenderStatus
  <1>7. ASSUME NEW n \in 1..MaxLogins, HydrateEnds(n)
        PROVE  SessionOK'
    BY <1>7, Zenon DEF HydrateEnds, ConnectRealtime
  <1>8. CASE SocketOpens \/ HandshakeRefused \/ SocketLost \/ PushStatus
    BY <1>8 DEF SocketOpens, HandshakeRefused, SocketLost, PushStatus, SocketClosed
  <1>9. CASE ReconnectTimer
    BY <1>9, Zenon DEF ReconnectTimer, ConnectRealtime
  <1>10. CASE ReceiveStatus
    BY <1>10, Zenon DEF ReceiveStatus, RenderStatus
  <1>11. CASE VideoButton \/ NetworkFails \/ VideoGone \/ VideoBack
    BY <1>11 DEF VideoButton, NetworkFails, VideoGone, VideoBack
  <1>12. ASSUME NEW p \in Peers, Call(p) \/ PeerGone(p)
         PROVE  SessionOK'
    BY <1>12 DEF Call, SendOffer, AnswerArrives, CallFails, PeerGone
  <1>13. CASE StatusChanges \/ Restart
    BY <1>13 DEF StatusChanges, Restart, SocketClosed
  <1>14. CASE UNCHANGED vars
    BY <1>14 DEF vars
  <1> QED
    BY <1>1, <1>2, <1>3, <1>4, <1>5, <1>6, <1>7, <1>8, <1>9, <1>10, <1>11, <1>12,
       <1>13, <1>14 DEF Next, Answers

(* What a step does to the statuses: on the board, on their way, and at their
   source.  rest stands for what it leaves alone. *)
Logs == <<authenticated, lone, logins>>
Shows == ShowDashboard /\ UNCHANGED <<shown, now, cached>> /\ StreamStays
Leaves == /\ StreamEnds /\ shown' = 0 /\ UNCHANGED <<logins, now, cached>>
          /\ hydrates' \in {hydrates, [n \in 1..MaxLogins |-> Idle]}
Answering(n) == /\ hydrates[n].status = "asked"
                /\ \/ \E s \in {cached, now} :
                         Hydrate(n, [hydrates[n] EXCEPT !.status = "answered", !.value = s])
                   \/ Hydrate(n, Idle)
                /\ UNCHANGED <<Logs, shown, now, cached>> /\ StreamStays
Arriving(n) == /\ hydrates[n].status = "answered"
               /\ shown' = hydrates[n].value
               /\ \/ Hydrate(n, [status |-> "shown", value |-> 0, waits |-> TRUE])
                  \/ Hydrate(n, Idle)
               /\ UNCHANGED <<Logs, now, cached>> /\ StreamStays
Failing(n) == /\ \/ hydrates[n].status \in {"asked", "answered"}
                    /\ Hydrate(n, [hydrates[n] EXCEPT !.waits = FALSE])
                 \/ Hydrate(n, Idle)
              /\ UNCHANGED <<Logs, shown, now, cached>> /\ StreamStays
Ending(n) == /\ hydrates[n].status = "shown" /\ Hydrate(n, Idle)
             /\ UNCHANGED <<Logs, shown, now, cached>> /\ StreamConnects
Streaming == /\ UNCHANGED <<Logs, hydrates, shown, now, cached>>
             /\ \/ StreamStays \/ StreamOpens \/ StreamCloses \/ StreamPushes
                \/ timer /\ StreamConnects
Receiving == /\ StreamReceives /\ shown' = Head(wire)
             /\ UNCHANGED <<Logs, hydrates, now, cached>>
Advancing == /\ now' = now + 1 /\ cached' \in {cached, now + 1}
             /\ UNCHANGED <<Logs, hydrates, shown>> /\ StreamStays

LEMMA KindsOfStatusSteps ==
  ASSUME [Next]_vars, SessionOK
  PROVE  \/ Shows \/ Leaves \/ Streaming \/ Receiving \/ Advancing
         \/ \E n \in 1..MaxLogins : Answering(n) \/ Arriving(n) \/ Failing(n) \/ Ending(n)
  <1> USE DEF page, board, realtime, video, server, bounds, Logs
  <1>1. CASE RestoreHandled
    BY <1>1 DEF RestoreHandled, Streaming, StreamStays
  <1>2. CASE RestoreAnswered
    BY <1>2 DEF RestoreAnswered, Shows, Streaming, StreamStays
  <1>3. CASE LoginAnswered
    BY <1>3 DEF LoginAnswered, Shows, StreamStays
  <1>4. CASE LogoutHandled \/ SessionEnds
    BY <1>4 DEF LogoutHandled, SessionEnds, Streaming, StreamStays
  <1>5. CASE LogoutAnswered \/ Reload
    BY <1>5 DEF LogoutAnswered, Reload, HideDashboard, Leaves, StreamEnds
  <1>6. ASSUME NEW n \in 1..MaxLogins, StatusHandled(n)
        PROVE  Answering(n)
    BY <1>6 DEF StatusHandled, Answering, StreamStays
  <1>7. ASSUME NEW n \in 1..MaxLogins, StatusArrives(n)
        PROVE  Arriving(n)
    BY <1>7 DEF StatusArrives, Arriving, RenderStatus, StreamStays
  <1>8. ASSUME NEW n \in 1..MaxLogins, HydrateFails(n)
        PROVE  Failing(n)
    BY <1>8 DEF HydrateFails, Failing, StreamStays
  <1>9. ASSUME NEW n \in 1..MaxLogins, HydrateEnds(n)
        PROVE  Ending(n)
    BY <1>9 DEF HydrateEnds, Ending, StreamConnects
  <1>10. CASE SocketOpens
    BY <1>10 DEF SocketOpens, Streaming, StreamOpens
  <1>11. CASE HandshakeRefused \/ SocketLost
    BY <1>11 DEF HandshakeRefused, SocketLost, Streaming, StreamCloses
  <1>12. CASE ReconnectTimer
    BY <1>12 DEF ReconnectTimer, Streaming, StreamConnects
  <1>13. CASE PushStatus
    BY <1>13 DEF PushStatus, Streaming, StreamPushes
  <1>14. CASE ReceiveStatus
    BY <1>14 DEF ReceiveStatus, Receiving, StreamReceives, RenderStatus
  <1>15. CASE VideoButton \/ NetworkFails \/ VideoGone \/ VideoBack
    BY <1>15 DEF VideoButton, NetworkFails, VideoGone, VideoBack, Streaming, StreamStays
  <1>16. ASSUME NEW p \in Peers, Call(p) \/ PeerGone(p)
         PROVE  Streaming
    BY <1>16 DEF Call, SendOffer, AnswerArrives, CallFails, PeerGone, Streaming, StreamStays
  <1>17. CASE StatusChanges
    BY <1>17 DEF StatusChanges, Advancing, StreamStays
  <1>18. CASE Restart
    BY <1>18 DEF Restart, Streaming, StreamStays, StreamCloses
  <1>19. CASE UNCHANGED vars
    BY <1>19 DEF vars, Streaming, StreamStays
  <1> QED
    BY <1>1, <1>2, <1>3, <1>4, <1>5, <1>6, <1>7, <1>8, <1>9, <1>10, <1>11, <1>12,
       <1>13, <1>14, <1>15, <1>16, <1>17, <1>18, <1>19 DEF Next, Answers

LEMMA CountsTypeStep ==
  ASSUME SessionOK, CountsOK, HydratesOK, StreamOK, [Next]_vars
  PROVE  CountsOK'
  <1>1. shown' \in Nat /\ now' \in Nat /\ cached' \in Nat
    <2> USE DEF CountsOK
    <2>1. CASE Shows \/ Leaves \/ Streaming \/ Advancing
      BY <2>1 DEF Shows, Leaves, Streaming, Advancing
    <2>2. CASE Receiving
      BY <2>2 DEF Receiving, StreamReceives, StreamOK
    <2>3. ASSUME NEW n \in 1..MaxLogins, Arriving(n)
          PROVE  shown' \in Nat /\ now' \in Nat /\ cached' \in Nat
      BY <2>3 DEF Arriving, HydratesOK, HydrateType
    <2>4. ASSUME NEW n \in 1..MaxLogins, Answering(n) \/ Failing(n) \/ Ending(n)
          PROVE  shown' \in Nat /\ now' \in Nat /\ cached' \in Nat
      BY <2>4 DEF Answering, Failing, Ending
    <2> QED
      BY <2>1, <2>2, <2>3, <2>4, KindsOfStatusSteps
  <1>2. leaving' \in Nat /\ clicks' \in Nat /\ faults' \in Nat /\ stuck' \in Nat
    <2> USE DEF CountsOK, page, board, realtime, video, server, bounds, Click, Fault
    <2>1. CASE RestoreHandled \/ RestoreAnswered \/ LoginAnswered
      BY <2>1 DEF RestoreHandled, RestoreAnswered, LoginAnswered
    <2>2. CASE LogoutHandled \/ LogoutAnswered
      BY <2>2 DEF LogoutHandled, LogoutAnswered
    <2>3. CASE SessionEnds \/ Reload
      BY <2>3 DEF SessionEnds, Reload
    <2>4. ASSUME NEW n \in 1..MaxLogins, Answers(n) \/ HydrateFails(n)
          PROVE  leaving' \in Nat /\ clicks' \in Nat /\ faults' \in Nat /\ stuck' \in Nat
      BY <2>4 DEF Answers, StatusHandled, StatusArrives, HydrateEnds, HydrateFails
    <2>5. CASE SocketOpens \/ HandshakeRefused \/ SocketLost \/ ReconnectTimer
      BY <2>5 DEF SocketOpens, HandshakeRefused, SocketLost, ReconnectTimer
    <2>6. CASE PushStatus \/ ReceiveStatus
      BY <2>6 DEF PushStatus, ReceiveStatus
    <2>7. CASE VideoButton \/ NetworkFails \/ VideoGone \/ VideoBack
      BY <2>7 DEF VideoButton, NetworkFails, VideoGone, VideoBack
    <2>8. ASSUME NEW p \in Peers, Call(p) \/ PeerGone(p)
          PROVE  leaving' \in Nat /\ clicks' \in Nat /\ faults' \in Nat /\ stuck' \in Nat
      BY <2>8 DEF Call, SendOffer, AnswerArrives, CallFails, PeerGone
    <2>9. CASE StatusChanges \/ Restart
      BY <2>9 DEF StatusChanges, Restart
    <2>10. CASE UNCHANGED vars
      BY <2>10 DEF vars
    <2> QED
      BY <2>1, <2>2, <2>3, <2>4, <2>5, <2>6, <2>7, <2>8, <2>9, <2>10 DEF Next
  <1> QED
    BY <1>1, <1>2 DEF CountsOK

(* Every step leaves a hydrate of the right type, with a value that was a status. *)
LEMMA HydratesTypeStep ==
  ASSUME SessionOK, CountsOK, HydratesOK, [Next]_vars
  PROVE  HydratesOK'
  <1> USE DEF HydratesOK, Hydrate
  <1>1. CASE Shows
    <2>1. logins + 1 \in 1..MaxLogins
      BY <1>1, ConstantTypes DEF Shows, ShowDashboard, SessionOK
    <2> QED
      BY <1>1, <2>1, IdleAsked DEF Shows, ShowDashboard
  <1>2. CASE Leaves
    BY <1>2, IdleAsked DEF Leaves
  <1>3. CASE Streaming \/ Receiving \/ Advancing
    BY <1>3 DEF Streaming, Receiving, Advancing
  <1>4. ASSUME NEW n \in 1..MaxLogins, NEW h \in HydrateType, Hydrate(n, h)
        PROVE  HydratesOK'
    BY <1>4
  <1>5. ASSUME NEW n \in 1..MaxLogins,
               Answering(n) \/ Arriving(n) \/ Failing(n) \/ Ending(n)
        PROVE  HydratesOK'
    <2> DEFINE h == hydrates[n]
    <2>1. h \in HydrateType
      OBVIOUS
    <2> HIDE DEF h
    <2>2. \A s \in Nat : [h EXCEPT !.status = "answered", !.value = s] \in HydrateType
      BY <2>1 DEF HydrateType
    <2>3. [h EXCEPT !.waits = FALSE] \in HydrateType
      BY <2>1 DEF HydrateType
    <2>4. [status |-> "shown", value |-> 0, waits |-> TRUE] \in HydrateType
      BY DEF HydrateType
    <2>5. cached \in Nat /\ now \in Nat
      BY DEF CountsOK
    <2>6. \E g \in HydrateType : hydrates' = [hydrates EXCEPT ![n] = g]
      <3>1. CASE Answering(n)
        BY <2>2, <2>5, <3>1, IdleAsked DEF Answering, h
      <3>2. CASE Arriving(n)
        BY <2>4, <3>2, IdleAsked DEF Arriving
      <3>3. CASE Failing(n)
        BY <2>3, <3>3, IdleAsked DEF Failing, h
      <3>4. CASE Ending(n)
        BY <3>4, IdleAsked DEF Ending
      <3> QED
        BY <1>5, <3>1, <3>2, <3>3, <3>4
    <2> QED
      BY <1>4, <2>6
  <1> QED
    BY <1>1, <1>2, <1>3, <1>5, KindsOfStatusSteps

LEMMA TypeStep == TypeOK /\ [Next]_vars => TypeOK'
  <1> SUFFICES ASSUME TypeOK, [Next]_vars PROVE TypeOK'
    OBVIOUS
  <1>1. SessionOK /\ CountsOK /\ HydratesOK /\ StreamOK /\ VideoOK
    BY TypeParts
  <1>2. SessionOK' /\ CountsOK' /\ HydratesOK' /\ StreamOK' /\ VideoOK'
    BY <1>1, SessionTypeStep, CountsTypeStep, HydratesTypeStep, StreamTypeStep,
       VideoTypeStep
  <1>3. TypeOK' <=> SessionOK' /\ CountsOK' /\ HydratesOK' /\ StreamOK' /\ VideoOK'
    BY TypeParts, PTL
  <1> QED
    BY <1>2, <1>3

-----------------------------------------------------------------------------
(* The order of the statuses. *)

(* Nothing that is shown or on its way is newer than the counter's status, and the
   wire carries them in order, while the socket is open only. *)
Ordered ==
  /\ cached <= now /\ shown <= now
  /\ \A n \in 1..MaxLogins : hydrates[n].value <= now
  /\ \A i \in 1..Len(wire) : wire[i] <= now
  /\ \A i, j \in 1..Len(wire) : i <= j => wire[i] <= wire[j]
  /\ socket /= "open" => wire = <<>>

(* In a login that began with nothing pending, the stream waits for the hydrate, and
   goes on from what is shown. *)
Loading(h) == h.status \in {"asked", "answered"}
OwnHydrate ==
  authenticated /\ lone =>
    /\ logins \in 1..MaxLogins
    /\ \A n \in 1..MaxLogins : n /= logins => hydrates[n] = Idle
    /\ Loading(hydrates[logins]) =>
         shown = 0 /\ socket = "none" /\ ~timer /\ wire = <<>>
Onward == authenticated /\ lone => \A i \in 1..Len(wire) : shown <= wire[i]

LEMMA OrderedStep ==
  ASSUME TypeOK, Ordered, [Next]_vars
  PROVE  Ordered'
  <1>0. /\ SessionOK /\ CountsOK /\ HydratesOK /\ StreamOK
        /\ now \in Nat /\ cached \in Nat /\ shown \in Nat
        /\ \A n \in 1..MaxLogins : hydrates[n] \in HydrateType
    BY TypeParts DEF CountsOK, HydratesOK
  <1>1. now' \in {now, now + 1} /\ cached' <= now' /\ shown' <= now'
    <2>1. CASE Shows \/ Leaves \/ Streaming \/ Advancing
      BY <1>0, <2>1 DEF Shows, Leaves, Streaming, Advancing, Ordered
    <2>2. CASE Receiving
      <3>1. Head(wire) = wire[1] /\ 1 \in 1..Len(wire)
        BY <1>0, <2>2 DEF Receiving, StreamReceives, StreamOK
      <3> QED
        BY <1>0, <2>2, <3>1 DEF Receiving, Ordered
    <2>3. ASSUME NEW n \in 1..MaxLogins,
                 Answering(n) \/ Arriving(n) \/ Failing(n) \/ Ending(n)
          PROVE  now' \in {now, now + 1} /\ cached' <= now' /\ shown' <= now'
      BY <1>0, <2>3 DEF Answering, Arriving, Failing, Ending, Ordered
    <2> QED
      BY <1>0, <2>1, <2>2, <2>3, KindsOfStatusSteps
  <1>2. \A n \in 1..MaxLogins : hydrates'[n].value <= now'
    <2>1. CASE Shows
      <3>1. \A n \in 1..MaxLogins : hydrates'[n] \in {hydrates[n], Asked}
        BY <2>1 DEF Shows, ShowDashboard, Hydrate, HydratesOK
      <3>2. Asked.value = 0
        BY DEF Asked
      <3>3. now' = now
        BY <2>1 DEF Shows
      <3> QED
        BY <1>0, <3>1, <3>2, <3>3 DEF Ordered
    <2>2. CASE Leaves
      <3>1. \A n \in 1..MaxLogins : hydrates'[n] \in {hydrates[n], Idle}
        BY <2>2 DEF Leaves
      <3>2. Idle.value = 0
        BY DEF Idle
      <3>3. now' = now
        BY <2>2 DEF Leaves
      <3> QED
        BY <1>0, <3>1, <3>2, <3>3 DEF Ordered
    <2>3. CASE Streaming \/ Receiving \/ Advancing
      <3>1. hydrates' = hydrates
        BY <2>3 DEF Streaming, Receiving, Advancing
      <3>2. \A n \in 1..MaxLogins : hydrates[n].value \in Nat
        BY <1>0 DEF HydrateType
      <3> QED
        BY <1>0, <1>1, <3>1, <3>2 DEF Ordered
    <2>4. ASSUME NEW n \in 1..MaxLogins,
                 Answering(n) \/ Arriving(n) \/ Failing(n) \/ Ending(n)
          PROVE  \A m \in 1..MaxLogins : hydrates'[m].value <= now'
      <3> DEFINE h == hydrates[n]
      <3>1. h \in HydrateType /\ h.value <= now /\ now' = now
        BY <1>0, <2>4 DEF Answering, Arriving, Failing, Ending, Ordered
      <3>2. Idle.value = 0
        BY DEF Idle
      <3> HIDE DEF h
      <3>3. \A s : [h EXCEPT !.status = "answered", !.value = s].value = s
        BY <3>1 DEF HydrateType
      <3>4. [h EXCEPT !.waits = FALSE].value = h.value
        BY <3>1 DEF HydrateType
      <3>5. ASSUME NEW g, Hydrate(n, g), g.value <= now
            PROVE  \A m \in 1..MaxLogins : hydrates'[m].value <= now'
        <4>1. \A m \in 1..MaxLogins : hydrates'[m] = IF m = n THEN g ELSE hydrates[m]
          BY <1>0, <3>5 DEF HydratesOK, Hydrate
        <4> QED
          BY <1>0, <3>1, <3>5, <4>1 DEF Ordered
      <3>6. Idle.value <= now
        BY <1>0, <3>2
      <3>7. CASE Hydrate(n, Idle)
        BY <3>5, <3>6, <3>7
      <3>8. CASE Answering(n) /\ ~Hydrate(n, Idle)
        <4>1. PICK s \in {cached, now} :
                Hydrate(n, [h EXCEPT !.status = "answered", !.value = s])
          BY <3>8 DEF Answering, h
        <4>2. s <= now
          BY <1>0 DEF Ordered
        <4> QED
          BY <3>3, <3>5, <4>1, <4>2
      <3>9. CASE Arriving(n) /\ ~Hydrate(n, Idle)
        <4>1. Hydrate(n, [status |-> "shown", value |-> 0, waits |-> TRUE])
          BY <3>9 DEF Arriving
        <4> QED
          BY <1>0, <3>5, <4>1
      <3>10. CASE Failing(n) /\ ~Hydrate(n, Idle)
        <4>1. Hydrate(n, [h EXCEPT !.waits = FALSE])
          BY <3>10 DEF Failing, h
        <4> QED
          BY <3>1, <3>4, <3>5, <4>1
      <3> QED
        BY <2>4, <3>7, <3>8, <3>9, <3>10 DEF Ending
    <2> QED
      BY <1>0, <2>1, <2>2, <2>3, <2>4, KindsOfStatusSteps
  <1>3. /\ \A i \in 1..Len(wire') : wire'[i] <= now'
        /\ \A i, j \in 1..Len(wire') : i <= j => wire'[i] <= wire'[j]
        /\ socket' /= "open" => wire' = <<>>
    <2>0. wire \in Seq(Nat) /\ \A i \in 1..Len(wire) : wire[i] \in Nat
      BY <1>0 DEF StreamOK
    <2>1. CASE StreamStays \/ StreamOpens
      BY <1>0, <1>1, <2>0, <2>1 DEF StreamStays, StreamOpens, Ordered
    <2>2. CASE StreamConnects
      BY <1>0, <1>1, <2>0, <2>2 DEF StreamConnects, ConnectRealtime, Ordered
    <2>3. CASE StreamEnds \/ StreamCloses
      BY <2>3 DEF StreamEnds, StreamCloses, SocketClosed
    <2>4. CASE StreamPushes
      BY <1>0, <1>1, <2>0, <2>4 DEF StreamPushes, Ordered
    <2>5. CASE StreamReceives
      <3>1. /\ wire /= <<>> /\ wire' = Tail(wire) /\ Len(wire') = Len(wire) - 1
            /\ \A i \in 1..Len(wire') : wire'[i] = wire[i + 1] /\ i + 1 \in 1..Len(wire)
        BY <2>0, <2>5 DEF StreamReceives
      <3>2. socket' = socket
        BY <2>5 DEF StreamReceives
      <3> QED
        BY <1>0, <1>1, <2>0, <3>1, <3>2 DEF Ordered
    <2> QED
      BY <1>0, <2>1, <2>2, <2>3, <2>4, <2>5, KindsOfStreamSteps
  <1> QED
    BY <1>1, <1>2, <1>3 DEF Ordered

(* The hydrates of other logins than the current one are over in such a login. *)
LEMMA OnlyOwn ==
  ASSUME OwnHydrate, authenticated, lone, NEW n \in 1..MaxLogins,
         Answering(n) \/ Arriving(n) \/ Ending(n)
  PROVE  n = logins
  <1>1. hydrates[n] /= Idle
    <2>1. hydrates[n].status \in {"asked", "answered", "shown"}
      BY DEF Answering, Arriving, Ending
    <2>2. Idle.status = "none"
      BY DEF Idle
    <2> QED
      BY <2>1, <2>2
  <1> QED
    BY <1>1 DEF OwnHydrate

LEMMA OwnHydrateStep ==
  ASSUME TypeOK, Ordered, OwnHydrate, Onward, [Next]_vars
  PROVE  OwnHydrate'
  <1>0. /\ SessionOK /\ HydratesOK /\ StreamOK
        /\ \A n \in 1..MaxLogins : hydrates[n] \in HydrateType
    BY TypeParts DEF HydratesOK
  <1>i. ~Loading(Idle)
    BY DEF Loading, Idle
  <1>1. CASE Shows
    <2> SUFFICES ASSUME authenticated', lone' PROVE OwnHydrate'
      BY DEF OwnHydrate
    <2>1. /\ shown = 0 /\ socket = "none" /\ ~timer
          /\ \A n \in 1..MaxLogins : hydrates[n] = Idle
      BY <1>1 DEF Shows, ShowDashboard
    <2>2. wire = <<>>
      BY <2>1 DEF Ordered
    <2>3. /\ logins' = logins + 1 /\ logins' \in 1..MaxLogins
          /\ hydrates' = [hydrates EXCEPT ![logins + 1] = Asked]
      BY <1>0, <1>1, ConstantTypes DEF Shows, ShowDashboard, SessionOK
    <2>4. \A n \in 1..MaxLogins : n /= logins' => hydrates'[n] = Idle
      BY <1>0, <2>1, <2>3 DEF HydratesOK
    <2>5. UNCHANGED <<shown, socket, timer, wire>>
      BY <1>1 DEF Shows, StreamStays
    <2> QED
      BY <2>1, <2>2, <2>3, <2>4, <2>5 DEF OwnHydrate
  <1>2. CASE Leaves
    BY <1>2 DEF Leaves, StreamEnds, OwnHydrate
  <1>3. CASE Advancing
    BY <1>3 DEF Advancing, Logs, StreamStays, OwnHydrate
  <1>4. CASE Receiving
    <2> SUFFICES ASSUME authenticated', lone' PROVE OwnHydrate'
      BY DEF OwnHydrate
    <2>1. UNCHANGED <<authenticated, lone, logins, hydrates>> /\ wire /= <<>>
      BY <1>4 DEF Receiving, Logs, StreamReceives
    <2> QED
      BY <2>1 DEF OwnHydrate
  <1>5. CASE Streaming
    <2> SUFFICES ASSUME authenticated', lone' PROVE OwnHydrate'
      BY DEF OwnHydrate
    <2>1. UNCHANGED <<authenticated, lone, logins, hydrates, shown>>
      BY <1>5 DEF Streaming, Logs
    <2>2. /\ logins \in 1..MaxLogins
          /\ \A n \in 1..MaxLogins : n /= logins => hydrates[n] = Idle
      BY <2>1 DEF OwnHydrate
    <2>3. ASSUME Loading(hydrates[logins])
          PROVE  shown' = 0 /\ socket' = "none" /\ ~timer' /\ wire' = <<>>
      <3>1. shown = 0 /\ socket = "none" /\ ~timer /\ wire = <<>>
        BY <2>1, <2>3 DEF OwnHydrate
      <3>2. StreamStays
        BY <1>5, <3>1 DEF Streaming, StreamOpens, StreamCloses, StreamPushes
      <3> QED
        BY <2>1, <3>1, <3>2 DEF StreamStays
    <2> QED
      BY <2>1, <2>2, <2>3 DEF OwnHydrate
  <1>6. ASSUME NEW n \in 1..MaxLogins,
               Answering(n) \/ Arriving(n) \/ Failing(n) \/ Ending(n)
        PROVE  OwnHydrate'
    <2> SUFFICES ASSUME authenticated', lone' PROVE OwnHydrate'
      BY DEF OwnHydrate
    <2>1. UNCHANGED <<authenticated, lone, logins>>
      BY <1>6 DEF Answering, Arriving, Failing, Ending, Logs
    <2>2. /\ logins \in 1..MaxLogins
          /\ \A m \in 1..MaxLogins : m /= logins => hydrates[m] = Idle
          /\ Loading(hydrates[logins]) =>
               shown = 0 /\ socket = "none" /\ ~timer /\ wire = <<>>
      BY <2>1 DEF OwnHydrate
    <2>3. CASE Hydrate(n, Idle)
      <3>1. hydrates' = [hydrates EXCEPT ![n] = Idle]
        BY <2>3 DEF Hydrate
      <3>2. \A m \in 1..MaxLogins : hydrates'[m] \in {hydrates[m], Idle}
        BY <1>0, <3>1 DEF HydratesOK
      <3>3. \A m \in 1..MaxLogins : m /= logins => hydrates'[m] = Idle
        BY <2>2, <3>2
      <3>4. Loading(hydrates'[logins]) => hydrates'[logins] = hydrates[logins] /\ n /= logins
        BY <1>0, <1>i, <2>2, <3>1, <3>2 DEF HydratesOK
      <3>5. ASSUME Loading(hydrates'[logins])
            PROVE  shown' = 0 /\ socket' = "none" /\ ~timer' /\ wire' = <<>>
        <4>1. n /= logins /\ shown = 0 /\ socket = "none" /\ ~timer /\ wire = <<>>
          BY <2>2, <3>4, <3>5
        <4>2. Failing(n)
          BY <1>6, <2>1, <4>1, OnlyOwn
        <4> QED
          BY <4>1, <4>2 DEF Failing, StreamStays
      <3> QED
        BY <2>1, <2>2, <3>3, <3>5 DEF OwnHydrate
    <2>4. ASSUME NEW g, Hydrate(n, g), n = logins, StreamStays, shown' = shown \/ ~Loading(g),
                 Loading(hydrates[n])
          PROVE  OwnHydrate'
      <3>1. \A m \in 1..MaxLogins : hydrates'[m] = IF m = n THEN g ELSE hydrates[m]
        BY <1>0, <2>4 DEF HydratesOK, Hydrate
      <3>2. Loading(g) => shown' = 0 /\ socket' = "none" /\ ~timer' /\ wire' = <<>>
        BY <2>2, <2>4 DEF StreamStays
      <3> QED
        BY <2>1, <2>2, <2>4, <3>1, <3>2 DEF OwnHydrate
    <2>5. CASE Answering(n) /\ ~Hydrate(n, Idle)
      <3>1. n = logins
        BY <2>1, <2>5, OnlyOwn
      <3>2. PICK s \in {cached, now} :
              Hydrate(n, [hydrates[n] EXCEPT !.status = "answered", !.value = s])
        BY <2>5 DEF Answering
      <3>3. StreamStays /\ shown' = shown /\ Loading(hydrates[n])
        BY <2>5 DEF Answering, Loading
      <3> QED
        BY <2>4, <3>1, <3>2, <3>3
    <2>6. CASE Arriving(n) /\ ~Hydrate(n, Idle)
      <3> DEFINE g == [status |-> "shown", value |-> 0, waits |-> TRUE]
      <3>1. n = logins
        BY <2>1, <2>6, OnlyOwn
      <3>2. Hydrate(n, g) /\ StreamStays /\ Loading(hydrates[n])
        BY <2>6 DEF Arriving, Loading
      <3>3. ~Loading(g)
        BY DEF Loading
      <3> HIDE DEF g
      <3> QED
        BY <2>4, <3>1, <3>2, <3>3
    <2>7. CASE Failing(n) /\ ~Hydrate(n, Idle)
      <3>1. /\ hydrates[n].status \in {"asked", "answered"}
            /\ Hydrate(n, [hydrates[n] EXCEPT !.waits = FALSE])
            /\ StreamStays /\ shown' = shown
        BY <2>7 DEF Failing
      <3>2. n = logins
        BY <1>i, <2>2, <3>1 DEF Loading
      <3>3. Loading(hydrates[n])
        BY <3>1 DEF Loading
      <3> QED
        BY <2>4, <3>1, <3>2, <3>3
    <2> QED
      BY <1>6, <2>3, <2>5, <2>6, <2>7 DEF Ending
  <1> QED
    BY <1>0, <1>1, <1>2, <1>3, <1>4, <1>5, <1>6, KindsOfStatusSteps

(* Neither the hydrate nor the stream takes the board back. *)
LEMMA OnwardStep ==
  ASSUME TypeOK, Ordered, OwnHydrate, Onward, [Next]_vars
  PROVE  /\ Onward'
         /\ authenticated /\ authenticated' /\ lone /\ logins' = logins => shown' >= shown
  <1>0. /\ SessionOK /\ CountsOK /\ HydratesOK /\ StreamOK
        /\ shown \in Nat /\ now \in Nat /\ logins \in Nat
        /\ wire \in Seq(Nat) /\ \A i \in 1..Len(wire) : wire[i] \in Nat
        /\ \A n \in 1..MaxLogins : hydrates[n].value \in Nat
    <2>1. SessionOK /\ CountsOK /\ HydratesOK /\ StreamOK
      BY TypeParts
    <2>2. wire \in Seq(Nat)
      BY <2>1 DEF StreamOK
    <2>3. \A i \in 1..Len(wire) : wire[i] \in Nat
      BY <2>2
    <2>4. \A n \in 1..MaxLogins : hydrates[n].value \in Nat
      BY <2>1 DEF HydratesOK, HydrateType
    <2> QED
      BY <2>1, <2>2, <2>3, <2>4 DEF SessionOK, CountsOK
  <1>1. CASE Shows
    <2>1. shown' = shown /\ wire' = wire
      BY <1>1 DEF Shows, StreamStays
    <2>2. lone' => wire = <<>>
      BY <1>1 DEF Shows, ShowDashboard, Ordered
    <2> QED
      BY <1>0, <2>1, <2>2 DEF Onward
  <1>2. CASE Leaves
    BY <1>2 DEF Leaves, StreamEnds, Onward
  <1>3. CASE Advancing
    BY <1>0, <1>3 DEF Advancing, Logs, StreamStays, Onward
  <1>4. CASE Receiving
    <2>1. /\ UNCHANGED <<authenticated, lone>> /\ shown' = Head(wire)
          /\ wire /= <<>> /\ wire' = Tail(wire)
      BY <1>4 DEF Receiving, Logs, StreamReceives
    <2>2. /\ Head(wire) = wire[1] /\ Len(wire') = Len(wire) - 1 /\ 1 \in 1..Len(wire)
          /\ \A i \in 1..Len(wire') : wire'[i] = wire[i + 1] /\ i + 1 \in 1..Len(wire)
      BY <1>0, <2>1
    <2>3. \A i \in 1..Len(wire) : wire[1] <= wire[i]
      BY <1>0, <2>2 DEF Ordered
    <2>4. authenticated /\ lone => wire[1] >= shown
      BY <1>0, <2>2 DEF Onward
    <2>5. Onward'
      BY <2>1, <2>2, <2>3 DEF Onward
    <2> QED
      BY <2>1, <2>2, <2>4, <2>5
  <1>5. CASE Streaming
    <2>1. UNCHANGED <<authenticated, lone, shown>>
      BY <1>5 DEF Streaming, Logs
    <2>2. wire' \in {wire, <<>>, Append(wire, now)}
      BY <1>5 DEF Streaming, StreamStays, StreamOpens, StreamCloses, SocketClosed,
         StreamPushes, StreamConnects, ConnectRealtime
    <2>3. shown <= now
      BY DEF Ordered
    <2>4. ASSUME wire' = wire PROVE Onward'
      BY <1>0, <2>1, <2>4 DEF Onward
    <2>5. ASSUME wire' = <<>> PROVE Onward'
      <3>1. \A i \in 1..Len(wire') : FALSE
        BY <2>5
      <3> QED
        BY <3>1, Zenon DEF Onward
    <2>6. ASSUME wire' = Append(wire, now) PROVE Onward'
      <3>1. \A i \in 1..Len(wire') :
              wire'[i] = now \/ (i \in 1..Len(wire) /\ wire'[i] = wire[i])
        BY <1>0, <2>6
      <3> QED
        BY <1>0, <2>1, <2>3, <3>1 DEF Onward
    <2>7. Onward'
      BY <2>2, <2>4, <2>5, <2>6
    <2> QED
      BY <1>0, <2>1, <2>7
  <1>6. ASSUME NEW n \in 1..MaxLogins, Arriving(n)
        PROVE  /\ Onward'
               /\ authenticated /\ authenticated' /\ lone /\ logins' = logins
                    => shown' >= shown
    <2>1. UNCHANGED <<authenticated, lone, wire>> /\ shown' = hydrates[n].value
      BY <1>6 DEF Arriving, Logs, StreamStays
    <2>2. ASSUME authenticated, lone PROVE shown = 0 /\ wire = <<>>
      <3>1. n = logins /\ Loading(hydrates[n])
        BY <1>6, <2>2, OnlyOwn DEF Arriving, Loading
      <3> QED
        BY <2>2, <3>1 DEF OwnHydrate
    <2> QED
      BY <1>0, <2>1, <2>2 DEF Onward
  <1>7. ASSUME NEW n \in 1..MaxLogins, Answering(n) \/ Failing(n) \/ Ending(n)
        PROVE  /\ Onward'
               /\ authenticated /\ authenticated' /\ lone /\ logins' = logins
                    => shown' >= shown
    <2>1. UNCHANGED <<authenticated, lone, wire, shown>>
      BY <1>7 DEF Answering, Failing, Ending, Logs, StreamStays, StreamConnects,
         ConnectRealtime
    <2> QED
      BY <1>0, <2>1 DEF Onward
  <1> QED
    BY <1>0, <1>1, <1>2, <1>3, <1>4, <1>5, <1>6, <1>7, KindsOfStatusSteps

-----------------------------------------------------------------------------
IInv == /\ TypeOK /\ LoggedOutIsQuiet /\ OneNegotiation /\ FlagsAreBacked
        /\ StreamIsKept /\ Ordered /\ OwnHydrate /\ Onward

LEMMA InitIInv == Init => IInv
  <1> SUFFICES ASSUME Init PROVE IInv
    OBVIOUS
  <1>1. SessionOK /\ CountsOK
    <2>1. SessionOK
      <3>1. /\ authenticated \in BOOLEAN /\ supportsVideo \in BOOLEAN
            /\ connects \in BOOLEAN /\ lone \in BOOLEAN /\ session \in BOOLEAN
        BY Zenon DEF Init
      <3>2. restoring \in {"asked", "yes", "no", "none"} /\ logins \in Nat /\ logins <= MaxLogins
        BY ConstantTypes DEF Init
      <3> QED
        BY <3>1, <3>2 DEF SessionOK
    <2>2. CountsOK
      BY ConstantTypes DEF Init, CountsOK
    <2> QED
      BY <2>1, <2>2
  <1>2. HydratesOK
    BY IdleAsked DEF Init, HydratesOK
  <1>3. StreamOK
    <2>1. timer \in BOOLEAN
      BY Zenon DEF Init
    <2>2. wire \in Seq(Nat) /\ Len(wire) <= WireCap
      BY ConstantTypes DEF Init
    <2> QED
      BY <2>1, <2>2 DEF Init, StreamOK
  <1>4. VideoOK
    BY DEF Init, VideoOK, NoCalls
  <1>5. LoggedOutIsQuiet /\ OneNegotiation
    BY DEF Init, LoggedOutIsQuiet, OneNegotiation, InFlight, NoCalls
  <1>6. Ordered
    <2>1. \A n \in 1..MaxLogins : hydrates[n].value = 0
      BY DEF Init, Idle
    <2> QED
      BY <2>1 DEF Init, Ordered
  <1>7. OwnHydrate /\ Onward
    BY DEF Init, OwnHydrate, Onward
  <1>8. FlagsAreBacked /\ StreamIsKept
    BY DEF Init, FlagsAreBacked, StreamIsKept
  <1> QED
    BY <1>1, <1>2, <1>3, <1>4, <1>5, <1>6, <1>7, <1>8, TypeParts DEF IInv

LEMMA StepIInv == IInv /\ [Next]_vars => IInv'
  <1> SUFFICES ASSUME IInv, [Next]_vars PROVE IInv'
    OBVIOUS
  <1>1. SessionOK /\ CountsOK /\ StreamOK /\ VideoOK
    BY TypeParts DEF IInv
  <1> QED
    BY <1>1, TypeStep, QuietStep, OneNegotiationStep, FlagsStep, StreamIsKeptStep,
       OrderedStep, OwnHydrateStep, OnwardStep DEF IInv

-----------------------------------------------------------------------------
(* Every reachable state is well typed. *)
THEOREM TypeCorrect == Spec => []TypeOK
  <1>1. IInv => TypeOK
    BY DEF IInv
  <1> QED
    BY <1>1, InitIInv, StepIInv, PTL DEF Spec

(* After hideDashboard no promise, timer or answer of an earlier login opens a
   socket or starts a video (app.js). *)
THEOREM LoggedOutIsQuietAlways == Spec => []LoggedOutIsQuiet
  <1>1. IInv => LoggedOutIsQuiet
    BY DEF IInv
  <1> QED
    BY <1>1, InitIInv, StepIInv, PTL DEF Spec

(* startVideoConnection runs once at a time, about the tab's own connection, while
   no negotiation has outlived a logout. *)
THEOREM OneNegotiationAlways == Spec => []OneNegotiation
  <1>1. IInv => OneNegotiation
    BY DEF IInv
  <1> QED
    BY <1>1, InitIInv, StepIInv, PTL DEF Spec

(* The flags that block startVideoConnection are never left set: whatever promise
   of an earlier login ends, and however often logins overlap (app.js:419-474). *)
THEOREM FlagsAreBackedAlways == Spec => []FlagsAreBacked
  <1>1. IInv => FlagsAreBacked
    BY DEF IInv
  <1> QED
    BY <1>1, InitIInv, StepIInv, PTL DEF Spec

(* Once connectRealtime was reached, the login has a socket or a reconnect timer
   until it ends (app.js:346-398). *)
THEOREM StreamIsKeptAlways == Spec => []StreamIsKept
  <1>1. IInv => StreamIsKept
    BY DEF IInv
  <1> QED
    BY <1>1, InitIInv, StepIInv, PTL DEF Spec

(* The board of a login that began with nothing pending never shows an older status
   after a newer one, in spite of stale copies and reconnects. *)
THEOREM StatusNeverGoesBackAlways == Spec => StatusNeverGoesBack
  <1>1. IInv /\ [Next]_vars
          => [authenticated /\ authenticated' /\ lone /\ logins' = logins
                => shown' >= shown]_vars
    BY OnwardStep DEF IInv
  <1> QED
    BY <1>1, InitIInv, StepIInv, PTL DEF Spec, StatusNeverGoesBack
=============================================================================
