------------------------ MODULE TunnelSessionProofs ------------------------
(***************************************************************************)
(* Proofs about TunnelSession for every value of its constants: its type   *)
(* invariant, that without faults a close reaches the peer, and that every *)
(* timer that fires for a half-open session brings its end nearer.         *)
(*                                                                         *)
(* CloseReachesPeer speaks of what is under way when an end has closed; it *)
(* is kept only because the open message has been used up by then (no      *)
(* later handler can serve the session again) and because an answer under  *)
(* way says what became of the session.  UsedUp and Answered state that.   *)
(***************************************************************************)
EXTENDS TunnelSession, TLAPS

USE TunnelAssumption DEF TunnelAssumption

(* Nothing but a repeated open raises the number of copies.                *)
FewCopies ==
    /\ opens + dialing <= 1 + faults
    /\ client = "idle" => opens = 0 /\ dialing = 0

TypeInv == TypeOK /\ FewCopies

(* What follows from the open message comes after it. *)
UsedUp ==
    /\ client = "idle" =>
         ~serving /\ toDevice = {} /\ toClient = {} /\ answer = "none"
    /\ \/ serving \/ toDevice # {} \/ toClient # {} \/ answer # "none"
       \/ client \in {"running", "gone"} \/ (client = "opening" /\ ~known)
       => opens = 0 /\ dialing = 0
    /\ client = "running" => known

(* An answer tells what became of the session. *)
Answered ==
    /\ answer = "nack" \/ "nack" \in toClient => ~serving
    /\ answer = "ok" \/ "ok" \in toClient =>
         (client = "opening" /\ known => serving \/ "close" \in toClient)
    /\ answer = "nack" \/ "nack" \in toClient =>
         answer # "ok" /\ "ok" \notin toClient

ClosesUnderWay ==
    /\ mode # "shell" /\ serving /\ (client = "gone" \/ (client = "opening" /\ ~known))
         => "close" \in toDevice
    /\ client = "running" /\ ~serving => "close" \in toClient

Quiet == up = {"client", "device"} /\ UsedUp /\ Answered /\ ClosesUnderWay

QuietInv == TypeInv /\ (faults = 0 => Quiet)

-----------------------------------------------------------------------------
(* Every step keeps the types and the bound on the copies of the open. *)
LEMMA TypeStep ==
    ASSUME TypeInv, [Next]_vars
    PROVE  TypeInv'
<1> USE DEF TypeInv, TypeOK, FewCopies, clientVars, deviceVars, netVars
<1>1. CASE Open
  <2>1. /\ known' \in BOOLEAN /\ heard' \in BOOLEAN
        /\ serving' \in BOOLEAN /\ touched' \in BOOLEAN /\ throttled' \in BOOLEAN
    BY <1>1 DEF Open
  <2>2. /\ opens' \in 0 .. MaxCopies /\ dialing' \in 0 .. MaxCopies + MaxFaults
        /\ misses' \in 0 .. MaxMisses - 1 /\ faults' \in 0 .. MaxFaults
    BY <1>1 DEF Open
  <2>3. /\ toDevice' \subseteq {"close", "data"}
        /\ toClient' \subseteq {"ok", "nack", "close", "data"}
        /\ up' \subseteq {"client", "device"}
    BY <1>1 DEF Open
  <2>4. FewCopies'
    BY <1>1 DEF Open
  <2> QED
    BY <1>1, <2>1, <2>2, <2>3, <2>4 DEF Open
<1>2. CASE TakeAnswer
    BY <1>2 DEF TakeAnswer
<1>29. CASE SuccessFails
  BY <1>29 DEF SuccessFails
<1>3. CASE OpenTimeout
    BY <1>3 DEF OpenTimeout
<1>4. CASE CloseArrives
    BY <1>4 DEF CloseArrives, Gets, ClientCloses, TellDevice, ClientSays, Sent
<1>5. CASE DataArrives
    BY <1>5 DEF DataArrives, Gets
<1>6. CASE \E m \in {"ok", "nack"} : AckArrives(m)
    BY <1>6 DEF AckArrives, Gets
<1>7. CASE ClientSends
    BY <1>7 DEF ClientSends, ClientSays, Sent
<1>8. CASE ClientEnds
    BY <1>8 DEF ClientEnds, ClientCloses, TellDevice, ClientSays, Sent
<1>9. CASE ClientAges
    BY <1>9 DEF ClientAges
<1>10. CASE ClientStale
    BY <1>10 DEF ClientStale, ClientCloses, TellDevice, ClientSays, Sent
<1>11. CASE PingAnswered
    BY <1>11 DEF PingAnswered
<1>12. CASE PingMissed
  <2>1. /\ known' \in BOOLEAN /\ heard' \in BOOLEAN
        /\ serving' \in BOOLEAN /\ touched' \in BOOLEAN /\ throttled' \in BOOLEAN
    BY <1>12 DEF PingMissed, ClientCloses
  <2>2. /\ opens' \in 0 .. MaxCopies /\ dialing' \in 0 .. MaxCopies + MaxFaults
        /\ misses' \in 0 .. MaxMisses - 1 /\ faults' \in 0 .. MaxFaults
    BY <1>12 DEF PingMissed, ClientCloses
  <2>3. /\ toDevice' \subseteq {"close", "data"}
        /\ toClient' \subseteq {"ok", "nack", "close", "data"}
        /\ up' \subseteq {"client", "device"}
    BY <1>12 DEF PingMissed, ClientCloses
  <2>4. FewCopies'
    BY <1>12 DEF PingMissed, ClientCloses
  <2> QED
    BY <1>12, <2>1, <2>2, <2>3, <2>4 DEF PingMissed, ClientCloses
<1>13. CASE OpenArrives
    BY <1>13 DEF OpenArrives
<1>14. CASE Refuse
    BY <1>14 DEF Refuse, DeviceSays, Sent
<1>15. CASE Serve
  <2>1. /\ known' \in BOOLEAN /\ heard' \in BOOLEAN
        /\ serving' \in BOOLEAN /\ touched' \in BOOLEAN /\ throttled' \in BOOLEAN
    BY <1>15 DEF Serve, DeviceSays, Sent
  <2>2. /\ opens' \in 0 .. MaxCopies /\ dialing' \in 0 .. MaxCopies + MaxFaults
        /\ misses' \in 0 .. MaxMisses - 1 /\ faults' \in 0 .. MaxFaults
    BY <1>15 DEF Serve, DeviceSays, Sent
  <2>3. /\ toDevice' \subseteq {"close", "data"}
        /\ toClient' \subseteq {"ok", "nack", "close", "data"}
        /\ up' \subseteq {"client", "device"}
    BY <1>15 DEF Serve, DeviceSays, Sent
  <2>4. FewCopies'
    BY <1>15 DEF Serve, DeviceSays, Sent
  <2> QED
    BY <1>15, <2>1, <2>2, <2>3, <2>4 DEF Serve, DeviceSays, Sent
<1>16. CASE DeviceCloseArrives
    BY <1>16 DEF DeviceCloseArrives, DeviceGets, DeviceCloses, DeviceSays, Sent
<1>17. CASE DeviceDataArrives
    BY <1>17 DEF DeviceDataArrives, DeviceGets, Reject, DeviceSays, Sent
<1>18. CASE ThrottleExpires
    BY <1>18 DEF ThrottleExpires
<1>19. CASE DeviceSends
    BY <1>19 DEF DeviceSends, DeviceSays, Sent
<1>20. CASE DeviceEnds
    BY <1>20 DEF DeviceEnds, DeviceCloses, DeviceSays, Sent
<1>21. CASE DeviceAges
    BY <1>21 DEF DeviceAges
<1>22. CASE DeviceStale
    BY <1>22 DEF DeviceStale, DeviceCloses, DeviceSays, Sent
<1>23. CASE RepeatOpen
    BY <1>23 DEF RepeatOpen, Fault
<1>24. CASE ClientDisconnects
  <2>1. /\ known' \in BOOLEAN /\ heard' \in BOOLEAN
        /\ serving' \in BOOLEAN /\ touched' \in BOOLEAN /\ throttled' \in BOOLEAN
    BY <1>24 DEF ClientDisconnects, Fault, ClientCloses, TellDevice, ClientSays, Sent
  <2>2. /\ opens' \in 0 .. MaxCopies /\ dialing' \in 0 .. MaxCopies + MaxFaults
        /\ misses' \in 0 .. MaxMisses - 1 /\ faults' \in 0 .. MaxFaults
    BY <1>24 DEF ClientDisconnects, Fault, ClientCloses, TellDevice, ClientSays, Sent
  <2>3. /\ toDevice' \subseteq {"close", "data"}
        /\ toClient' \subseteq {"ok", "nack", "close", "data"}
        /\ up' \subseteq {"client", "device"}
    BY <1>24 DEF ClientDisconnects, Fault, ClientCloses, TellDevice, ClientSays, Sent
  <2>4. FewCopies'
    BY <1>24 DEF ClientDisconnects, Fault, ClientCloses, TellDevice, ClientSays, Sent
  <2> QED
    BY <1>24, <2>1, <2>2, <2>3, <2>4 DEF ClientDisconnects, Fault, ClientCloses, TellDevice,
           ClientSays, Sent
<1>25. CASE DeviceDisconnects
  <2>1. /\ known' \in BOOLEAN /\ heard' \in BOOLEAN
        /\ serving' \in BOOLEAN /\ touched' \in BOOLEAN /\ throttled' \in BOOLEAN
    BY <1>25 DEF DeviceDisconnects, Fault, DeviceSays, Sent
  <2>2. /\ opens' \in 0 .. MaxCopies /\ dialing' \in 0 .. MaxCopies + MaxFaults
        /\ misses' \in 0 .. MaxMisses - 1 /\ faults' \in 0 .. MaxFaults
    BY <1>25 DEF DeviceDisconnects, Fault, DeviceSays, Sent
  <2>3. /\ toDevice' \subseteq {"close", "data"}
        /\ toClient' \subseteq {"ok", "nack", "close", "data"}
        /\ up' \subseteq {"client", "device"}
    BY <1>25 DEF DeviceDisconnects, Fault, DeviceSays, Sent
  <2>4. FewCopies'
    BY <1>25 DEF DeviceDisconnects, Fault, DeviceSays, Sent
  <2> QED
    BY <1>25, <2>1, <2>2, <2>3, <2>4 DEF DeviceDisconnects, Fault, DeviceSays, Sent
<1>26. CASE DeviceDies
  <2>1. /\ known' \in BOOLEAN /\ heard' \in BOOLEAN
        /\ serving' \in BOOLEAN /\ touched' \in BOOLEAN /\ throttled' \in BOOLEAN
    BY <1>26 DEF DeviceDies, Fault
  <2>2. /\ opens' \in 0 .. MaxCopies /\ dialing' \in 0 .. MaxCopies + MaxFaults
        /\ misses' \in 0 .. MaxMisses - 1 /\ faults' \in 0 .. MaxFaults
    BY <1>26 DEF DeviceDies, Fault
  <2>3. /\ toDevice' \subseteq {"close", "data"}
        /\ toClient' \subseteq {"ok", "nack", "close", "data"}
        /\ up' \subseteq {"client", "device"}
    BY <1>26 DEF DeviceDies, Fault
  <2>4. FewCopies'
    BY <1>26 DEF DeviceDies, Fault
  <2> QED
    BY <1>26, <2>1, <2>2, <2>3, <2>4 DEF DeviceDies, Fault
<1>27. CASE \E end \in {"client", "device"} : Reconnect(end)
    BY <1>27 DEF Reconnect
<1>28. CASE UNCHANGED vars
    BY <1>28 DEF vars, clientVars, deviceVars, netVars
<1> QED
    BY <1>1, <1>2, <1>3, <1>4, <1>5, <1>6, <1>7, <1>8, <1>9, <1>10, <1>11, <1>12, <1>13,
       <1>14, <1>15, <1>16, <1>17, <1>18, <1>19, <1>20, <1>21, <1>22, <1>23, <1>24, <1>25,
       <1>26, <1>27, <1>28, <1>29 DEF Next, ClientStep, DeviceStep, FaultStep

-----------------------------------------------------------------------------
(* A step without a fault keeps the invariant of the quiet runs. *)
LEMMA QuietStep ==
    ASSUME TypeInv, faults = 0 => Quiet, [Next]_vars, faults' = 0
    PROVE  Quiet'
<1> USE DEF TypeInv, TypeOK, FewCopies, Quiet, UsedUp, Answered, ClosesUnderWay,
            clientVars, deviceVars, netVars
<1>1. CASE Open
    BY <1>1 DEF Open
<1>2. CASE TakeAnswer
    BY <1>2 DEF TakeAnswer
<1>29. CASE SuccessFails
  BY <1>29 DEF SuccessFails
<1>3. CASE OpenTimeout
    BY <1>3 DEF OpenTimeout
<1>4. CASE CloseArrives
    BY <1>4 DEF CloseArrives, Gets, ClientCloses, TellDevice, ClientSays, Sent
<1>5. CASE DataArrives
    BY <1>5 DEF DataArrives, Gets
<1>6. CASE \E m \in {"ok", "nack"} : AckArrives(m)
    BY <1>6 DEF AckArrives, Gets
<1>7. CASE ClientSends
    BY <1>7 DEF ClientSends, ClientSays, Sent
<1>8. CASE ClientEnds
    BY <1>8 DEF ClientEnds, ClientCloses, TellDevice, ClientSays, Sent
<1>9. CASE ClientAges
    BY <1>9 DEF ClientAges
<1>10. CASE ClientStale
    BY <1>10 DEF ClientStale, ClientCloses, TellDevice, ClientSays, Sent
<1>11. CASE PingAnswered
    BY <1>11 DEF PingAnswered
<1>12. CASE PingMissed
    BY <1>12 DEF PingMissed, ClientCloses
<1>13. CASE OpenArrives
    BY <1>13 DEF OpenArrives
<1>14. CASE Refuse
    BY <1>14 DEF Refuse, DeviceSays, Sent
<1>15. CASE Serve
    BY <1>15 DEF Serve, DeviceSays, Sent
<1>16. CASE DeviceCloseArrives
    BY <1>16 DEF DeviceCloseArrives, DeviceGets, DeviceCloses, DeviceSays, Sent
<1>17. CASE DeviceDataArrives
    BY <1>17 DEF DeviceDataArrives, DeviceGets, Reject, DeviceSays, Sent
<1>18. CASE ThrottleExpires
    BY <1>18 DEF ThrottleExpires
<1>19. CASE DeviceSends
    BY <1>19 DEF DeviceSends, DeviceSays, Sent
<1>20. CASE DeviceEnds
    BY <1>20 DEF DeviceEnds, DeviceCloses, DeviceSays, Sent
<1>21. CASE DeviceAges
    BY <1>21 DEF DeviceAges
<1>22. CASE DeviceStale
    BY <1>22 DEF DeviceStale, DeviceCloses, DeviceSays, Sent
<1>23. CASE RepeatOpen
    BY <1>23 DEF RepeatOpen, Fault
<1>24. CASE ClientDisconnects
    BY <1>24 DEF ClientDisconnects, Fault, ClientCloses, TellDevice, ClientSays, Sent
<1>25. CASE DeviceDisconnects
    BY <1>25 DEF DeviceDisconnects, Fault, DeviceSays, Sent
<1>26. CASE DeviceDies
    BY <1>26 DEF DeviceDies, Fault
<1>27. CASE \E end \in {"client", "device"} : Reconnect(end)
    BY <1>27 DEF Reconnect
<1>28. CASE UNCHANGED vars
    BY <1>28 DEF vars, clientVars, deviceVars, netVars
<1> QED
    BY <1>1, <1>2, <1>3, <1>4, <1>5, <1>6, <1>7, <1>8, <1>9, <1>10, <1>11, <1>12, <1>13,
       <1>14, <1>15, <1>16, <1>17, <1>18, <1>19, <1>20, <1>21, <1>22, <1>23, <1>24, <1>25,
       <1>26, <1>27, <1>28, <1>29 DEF Next, ClientStep, DeviceStep, FaultStep

-----------------------------------------------------------------------------
LEMMA QuietInvariant == Spec => []QuietInv
<1>1. Init => QuietInv
  <2> SUFFICES ASSUME Init PROVE QuietInv
    OBVIOUS
  <2>1. TypeOK
    <3>1. 0 \in 0 .. MaxMisses - 1 /\ 0 \in 0 .. MaxFaults /\ 0 \in 0 .. MaxCopies
          /\ 0 \in 0 .. MaxCopies + MaxFaults
      OBVIOUS
    <3>2. known \in BOOLEAN /\ heard \in BOOLEAN
          /\ serving \in BOOLEAN /\ touched \in BOOLEAN /\ throttled \in BOOLEAN
      BY DEF Init
    <3> QED
      BY <3>1, <3>2, Zenon DEF Init, TypeOK
  <2>2. FewCopies
    BY DEF Init, FewCopies
  <2>3. Quiet
    BY DEF Init, Quiet, UsedUp, Answered, ClosesUnderWay
  <2> QED
    BY <2>1, <2>2, <2>3 DEF QuietInv, TypeInv
<1>2. QuietInv /\ [Next]_vars => QuietInv'
  <2> SUFFICES ASSUME QuietInv, [Next]_vars PROVE QuietInv'
    OBVIOUS
  <2>1. TypeInv'
    BY TypeStep DEF QuietInv
  <2>2. ASSUME faults' = 0 PROVE Quiet'
    BY <2>2, QuietStep DEF QuietInv
  <2> QED
    BY <2>1, <2>2 DEF QuietInv
<1> QED
  BY <1>1, <1>2, PTL DEF Spec

(* Every reachable state is well typed: the misses stay below the limit    *)
(* that closes the session, and the open handlers are no more than the     *)
(* copies of the open message that were ever under way.                    *)
THEOREM TypeCorrect == Spec => []TypeOK
<1>1. QuietInv => TypeOK
  BY DEF QuietInv, TypeInv
<1> QED
  BY <1>1, QuietInvariant, PTL

(* Without faults the end that closed the session is followed by the other *)
(* end: the close message is under way until it has closed too.  The ends  *)
(* that tell nobody ("gaveUp", a shell's client) are exempt; that their    *)
(* sessions fade at the device is HalfOpenFadesAtDevice.                   *)
THEOREM CloseIsDelivered == Spec => []CloseReachesPeer
<1>1. QuietInv => CloseReachesPeer
  BY DEF QuietInv, Quiet, ClosesUnderWay, CloseReachesPeer
<1> QED
  BY <1>1, QuietInvariant, PTL

-----------------------------------------------------------------------------
(* Why no half-open session survives.  NoHalfOpen says that it ends; what  *)
(* that takes is that every firing of its timers brings the end nearer and *)
(* that nothing else, of either end or of the network, puts it off for     *)
(* good.  How near it is, is counted in a rank.                            *)

Weight(condition, n) == IF condition THEN n ELSE 0

(* At the device a session lives on until it aged and was found stale; a   *)
(* frame under way makes it young again, a copy of the open message has it *)
(* served again, and each further fault can bring one such copy.           *)
DeviceRank ==
    4 * (MaxFaults - faults) + 3 * (opens + dialing) + Weight("data" \in toDevice, 2)
        + Weight(serving, 1) + Weight(serving /\ touched, 1)

(* At the client of a TCP session, a frame under way makes it young again. *)
ClientRank == Weight("data" \in toClient, 2) + Weight(heard, 1)

(* The client has left: whatever happens then, also losses, restarts and   *)
(* repeated opens, does not add to what the device's timers have to do,    *)
(* and each time one of them fires there is less of it.                    *)
FadesAtDevice ==
    [][ClientLeft => /\ ClientLeft' /\ DeviceRank' <= DeviceRank
                     /\ DeviceAges \/ DeviceStale => DeviceRank' < DeviceRank]_vars

(* The device does not serve the TCP session: as long as that remains so,  *)
(* the client's timers too have less to do each time one fires, and the    *)
(* stale cleanup ends the session.                                         *)
FadesAtClient ==
    [][mode # "shell" /\ client = "running" /\ ~serving /\ ~serving' =>
          /\ client' = "running" => ClientRank' <= ClientRank
          /\ ClientAges => ClientRank' < ClientRank
          /\ ClientStale => client' = "gone"]_vars

(* The device is away: no step takes a missed ping of a shell back, each   *)
(* adds to them or is one too many and ends the session.                   *)
MissesAddUp ==
    [][client = "running" /\ "device" \notin up =>
          /\ client' = "running" => misses' >= misses
          /\ PingMissed => client' = "gone" \/ misses' = misses + 1]_vars

(* What the device's rank is counted from changes in few ways once the     *)
(* client has left; above all, no frame of the client comes on its way.    *)
LEMMA DeviceRankSteps ==
    ASSUME TypeInv, ClientLeft, [Next]_vars
    PROVE  /\ ClientLeft'
           /\ "data" \in toDevice' => "data" \in toDevice
           /\ \/ /\ faults' = faults + 1 /\ opens' + dialing' <= opens + dialing + 1
                 /\ serving' => serving /\ touched' = touched
              \/ /\ faults' = faults /\ opens' + dialing' = opens + dialing - 1
              \/ /\ faults' = faults /\ opens' + dialing' = opens + dialing
                 /\ serving' => serving /\ "data" \in toDevice /\ "data" \notin toDevice'
              \/ /\ faults' = faults /\ opens' + dialing' = opens + dialing
                 /\ serving' => serving
                 /\ touched' => touched
<1> USE DEF TypeInv, TypeOK, ClientLeft, clientVars, deviceVars, netVars
<1>1. CASE Open
    BY <1>1 DEF Open
<1>2. CASE TakeAnswer
    BY <1>2 DEF TakeAnswer
<1>29. CASE SuccessFails
  BY <1>29 DEF SuccessFails
<1>3. CASE OpenTimeout
    BY <1>3 DEF OpenTimeout
<1>4. CASE CloseArrives
    BY <1>4 DEF CloseArrives, Gets, ClientCloses, TellDevice, ClientSays, Sent
<1>5. CASE DataArrives
    BY <1>5 DEF DataArrives, Gets
<1>6. CASE \E m \in {"ok", "nack"} : AckArrives(m)
    BY <1>6 DEF AckArrives, Gets
<1>7. CASE ClientSends
    BY <1>7 DEF ClientSends, ClientSays, Sent
<1>8. CASE ClientEnds
    BY <1>8 DEF ClientEnds, ClientCloses, TellDevice, ClientSays, Sent
<1>9. CASE ClientAges
    BY <1>9 DEF ClientAges
<1>10. CASE ClientStale
    BY <1>10 DEF ClientStale, ClientCloses, TellDevice, ClientSays, Sent
<1>11. CASE PingAnswered
    BY <1>11 DEF PingAnswered
<1>12. CASE PingMissed
    BY <1>12 DEF PingMissed, ClientCloses
<1>13. CASE OpenArrives
    BY <1>13 DEF OpenArrives
<1>14. CASE Refuse
    BY <1>14 DEF Refuse, DeviceSays, Sent
<1>15. CASE Serve
    BY <1>15 DEF Serve, DeviceSays, Sent
<1>16. CASE DeviceCloseArrives
    BY <1>16 DEF DeviceCloseArrives, DeviceGets, DeviceCloses, DeviceSays, Sent
<1>17. CASE DeviceDataArrives
    BY <1>17 DEF DeviceDataArrives, DeviceGets, Reject, DeviceSays, Sent
<1>18. CASE ThrottleExpires
    BY <1>18 DEF ThrottleExpires
<1>19. CASE DeviceSends
    BY <1>19 DEF DeviceSends, DeviceSays, Sent
<1>20. CASE DeviceEnds
    BY <1>20 DEF DeviceEnds, DeviceCloses, DeviceSays, Sent
<1>21. CASE DeviceAges
    BY <1>21 DEF DeviceAges
<1>22. CASE DeviceStale
    BY <1>22 DEF DeviceStale, DeviceCloses, DeviceSays, Sent
<1>23. CASE RepeatOpen
    BY <1>23 DEF RepeatOpen, Fault
<1>24. CASE ClientDisconnects
    BY <1>24 DEF ClientDisconnects, Fault, ClientCloses, TellDevice, ClientSays, Sent
<1>25. CASE DeviceDisconnects
    BY <1>25 DEF DeviceDisconnects, Fault, DeviceSays, Sent
<1>26. CASE DeviceDies
    BY <1>26 DEF DeviceDies, Fault
<1>27. CASE \E end \in {"client", "device"} : Reconnect(end)
    BY <1>27 DEF Reconnect
<1>28. CASE UNCHANGED vars
    BY <1>28 DEF vars
<1> QED
  BY <1>1, <1>2, <1>3, <1>4, <1>5, <1>6, <1>7, <1>8, <1>9, <1>10, <1>11, <1>12, <1>13,
     <1>14, <1>15, <1>16, <1>17, <1>18, <1>19, <1>20, <1>21, <1>22, <1>23, <1>24, <1>25,
     <1>26, <1>27, <1>28, <1>29 DEF Next, ClientStep, DeviceStep, FaultStep

(* Once the client has left, the device's timers fire at most DeviceRank   *)
(* times for the session, whatever is lost, late, repeated or restarted:   *)
(* no step of the device itself adds to it (the safety that the first part *)
(* of NoHalfOpen rests on).                                                *)
THEOREM HalfOpenFadesAtDevice == Spec => FadesAtDevice
<1>1. ASSUME TypeInv, ClientLeft, [Next]_vars
      PROVE  /\ ClientLeft' /\ DeviceRank' <= DeviceRank
             /\ DeviceAges \/ DeviceStale => DeviceRank' < DeviceRank
  <2> USE <1>1, TypeStep DEF TypeInv, TypeOK
  <2>1. /\ Weight("data" \in toDevice', 2) <= Weight("data" \in toDevice, 2)
        /\ "data" \in toDevice /\ "data" \notin toDevice' =>
              Weight("data" \in toDevice', 2) = Weight("data" \in toDevice, 2) - 2
    BY DeviceRankSteps DEF Weight
  <2> DEFINE Young == Weight(serving, 1) + Weight(serving /\ touched, 1)
             D == Weight("data" \in toDevice, 2)
  <2>2. /\ Young \in 0 .. 2 /\ Young' \in 0 .. 2 /\ D \in {0, 2} /\ D' \in {0, 2}
        /\ serving /\ touched => Young = 2
        /\ serving /\ ~touched => Young = 1
        /\ ~serving => Young = 0
        /\ serving' /\ touched' => Young' = 2
        /\ serving' /\ ~touched' => Young' = 1
        /\ ~serving' => Young' = 0
    BY DEF Weight
  <2>3. /\ DeviceRank = 4 * (MaxFaults - faults) + 3 * (opens + dialing) + D + Young
        /\ DeviceRank' = 4 * (MaxFaults - faults') + 3 * (opens' + dialing') + D' + Young'
    BY DEF DeviceRank, Weight
  <2>4. /\ D' <= D
        /\ "data" \in toDevice /\ "data" \notin toDevice' => D' = D - 2
    BY <2>1
  <2>5. DeviceAges => serving /\ touched /\ ~touched' /\ serving' = serving
    BY DEF DeviceAges
  <2>6. DeviceStale => serving /\ ~serving'
    BY DEF DeviceStale, DeviceCloses
  <2>7. DeviceAges \/ DeviceStale =>
           faults' = faults /\ opens' = opens /\ dialing' = dialing /\ toDevice' = toDevice
    BY DEF DeviceAges, DeviceStale, netVars
  <2> HIDE DEF Young, D
  <2>8. DeviceRank' <= DeviceRank
    <3>1. CASE faults' = faults + 1
      BY <2>2, <2>3, <2>4, <3>1, DeviceRankSteps
    <3>2. CASE faults' = faults /\ opens' + dialing' = opens + dialing - 1
      BY <2>2, <2>3, <2>4, <3>2
    <3>3. CASE faults' = faults /\ opens' + dialing' = opens + dialing
      <4>1. \/ D' = D - 2
            \/ (serving' => serving) /\ ((touched' => touched) \/ ~serving')
        BY <2>4, <3>3, DeviceRankSteps
      <4>2. D' = D - 2 \/ Young' <= Young
        BY <2>2, <4>1
      <4> QED
        BY <2>2, <2>3, <2>4, <3>3, <4>2
    <3> QED
      BY <3>1, <3>2, <3>3, DeviceRankSteps
  <2>9. DeviceAges \/ DeviceStale => DeviceRank' < DeviceRank
    BY <2>2, <2>3, <2>4, <2>5, <2>6, <2>7
  <2> QED
    BY <2>8, <2>9, DeviceRankSteps
<1>2. QuietInv => TypeInv
  BY DEF QuietInv
<1> QED
  BY <1>1, <1>2, QuietInvariant, PTL DEF Spec, FadesAtDevice

(* While the device does not serve a TCP session, the client's timers fire *)
(* at most ClientRank times before its stale cleanup ends it (the safety   *)
(* that the second part of NoHalfOpen rests on).                           *)
THEOREM HalfOpenFadesAtClient == Spec => FadesAtClient
<1> DEFINE Faded == mode # "shell" /\ client = "running" /\ ~serving /\ ~serving' =>
                       /\ client' = "running" => ClientRank' <= ClientRank
                       /\ ClientAges => ClientRank' < ClientRank
                       /\ ClientStale => client' = "gone"
<1>1. ASSUME TypeInv, [Next]_vars
      PROVE  Faded
  <2> USE <1>1 DEF TypeInv, TypeOK
  <2>1. ASSUME client = "running", client' = "running", ~serving, ~serving'
        PROVE  /\ "data" \in toClient' => "data" \in toClient
               /\ heard' => heard \/ ("data" \in toClient /\ "data" \notin toClient')
    <3> USE <2>1 DEF clientVars, deviceVars, netVars
    <3>1. CASE Open
      BY <3>1 DEF Open
    <3>2. CASE TakeAnswer
      BY <3>2 DEF TakeAnswer
    <3>29. CASE SuccessFails
      BY <3>29 DEF SuccessFails
    <3>3. CASE OpenTimeout
      BY <3>3 DEF OpenTimeout
    <3>4. CASE CloseArrives
      BY <3>4 DEF CloseArrives, Gets, ClientCloses, TellDevice, ClientSays, Sent
    <3>5. CASE DataArrives
      BY <3>5 DEF DataArrives, Gets
    <3>6. CASE \E m \in {"ok", "nack"} : AckArrives(m)
      BY <3>6 DEF AckArrives, Gets
    <3>7. CASE ClientSends
      BY <3>7 DEF ClientSends, ClientSays, Sent
    <3>8. CASE ClientEnds
      BY <3>8 DEF ClientEnds, ClientCloses, TellDevice, ClientSays, Sent
    <3>9. CASE ClientAges
      BY <3>9 DEF ClientAges
    <3>10. CASE ClientStale
      BY <3>10 DEF ClientStale, ClientCloses, TellDevice, ClientSays, Sent
    <3>11. CASE PingAnswered
      BY <3>11 DEF PingAnswered
    <3>12. CASE PingMissed
      BY <3>12 DEF PingMissed, ClientCloses
    <3>13. CASE OpenArrives
      BY <3>13 DEF OpenArrives
    <3>14. CASE Refuse
      BY <3>14 DEF Refuse, DeviceSays, Sent
    <3>15. CASE Serve
      BY <3>15 DEF Serve, DeviceSays, Sent
    <3>16. CASE DeviceCloseArrives
      BY <3>16 DEF DeviceCloseArrives, DeviceGets, DeviceCloses, DeviceSays, Sent
    <3>17. CASE DeviceDataArrives
      BY <3>17 DEF DeviceDataArrives, DeviceGets, Reject, DeviceSays, Sent
    <3>18. CASE ThrottleExpires
      BY <3>18 DEF ThrottleExpires
    <3>19. CASE DeviceSends
      BY <3>19 DEF DeviceSends, DeviceSays, Sent
    <3>20. CASE DeviceEnds
      BY <3>20 DEF DeviceEnds, DeviceCloses, DeviceSays, Sent
    <3>21. CASE DeviceAges
      BY <3>21 DEF DeviceAges
    <3>22. CASE DeviceStale
      BY <3>22 DEF DeviceStale, DeviceCloses, DeviceSays, Sent
    <3>23. CASE RepeatOpen
      BY <3>23 DEF RepeatOpen, Fault
    <3>24. CASE ClientDisconnects
      BY <3>24 DEF ClientDisconnects, Fault, ClientCloses, TellDevice, ClientSays, Sent
    <3>25. CASE DeviceDisconnects
      BY <3>25 DEF DeviceDisconnects, Fault, DeviceSays, Sent
    <3>26. CASE DeviceDies
      BY <3>26 DEF DeviceDies, Fault
    <3>27. CASE \E end \in {"client", "device"} : Reconnect(end)
      BY <3>27 DEF Reconnect
    <3>28. CASE UNCHANGED vars
      BY <3>28 DEF vars
    <3> QED
      BY <3>1, <3>2, <3>3, <3>4, <3>5, <3>6, <3>7, <3>8, <3>9, <3>10, <3>11, <3>12, <3>13,
         <3>14, <3>15, <3>16, <3>17, <3>18, <3>19, <3>20, <3>21, <3>22, <3>23, <3>24, <3>25,
         <3>26, <3>27, <3>28, <3>29 DEF Next, ClientStep, DeviceStep, FaultStep
  <2>2. ClientAges => heard /\ ~heard' /\ toClient' = toClient
    BY DEF ClientAges, netVars
  <2>3. ClientStale => client' = "gone"
    BY DEF ClientStale, ClientCloses
  <2> QED
    BY <2>1, <2>2, <2>3 DEF ClientRank, Weight
<1>2. QuietInv => TypeInv
  BY DEF QuietInv
<1> HIDE DEF Faded
<1>3. Spec => [][Faded]_vars
  BY <1>1, <1>2, QuietInvariant, PTL DEF Spec
<1> QED
  BY <1>3 DEF Faded, FadesAtClient

(* While the device is away no message of any kind takes a missed ping of  *)
(* a shell back, so that the session ends when MaxMisses have been missed, *)
(* whatever the limit is (the safety DeadRemoteDetected rests on).         *)
THEOREM MissedPingsAddUp == Spec => MissesAddUp
<1>1. ASSUME TypeInv, [Next]_vars, client = "running", "device" \notin up
      PROVE  /\ client' = "running" => misses' >= misses
             /\ PingMissed => client' = "gone" \/ misses' = misses + 1
  <2> USE <1>1 DEF TypeInv, TypeOK, clientVars
  <2>1. misses \in Nat
    OBVIOUS
  <2>2. client' = "running" => misses' >= misses
    <3>1. CASE Open
      BY <2>1, <3>1 DEF Open
    <3>2. CASE TakeAnswer
      BY <2>1, <3>2 DEF TakeAnswer
    <3>29. CASE SuccessFails
      BY <2>1, <3>29 DEF SuccessFails
    <3>3. CASE OpenTimeout
      BY <2>1, <3>3 DEF OpenTimeout
    <3>4. CASE CloseArrives
      BY <2>1, <3>4 DEF CloseArrives, Gets, ClientCloses, TellDevice, ClientSays, Sent
    <3>5. CASE DataArrives
      BY <2>1, <3>5 DEF DataArrives, Gets
    <3>6. CASE \E m \in {"ok", "nack"} : AckArrives(m)
      BY <2>1, <3>6 DEF AckArrives, Gets
    <3>7. CASE ClientSends
      BY <2>1, <3>7 DEF ClientSends, ClientSays, Sent
    <3>8. CASE ClientEnds
      BY <2>1, <3>8 DEF ClientEnds, ClientCloses, TellDevice, ClientSays, Sent
    <3>9. CASE ClientAges
      BY <2>1, <3>9 DEF ClientAges
    <3>10. CASE ClientStale
      BY <2>1, <3>10 DEF ClientStale, ClientCloses, TellDevice, ClientSays, Sent
    <3>11. CASE PingAnswered
      BY <2>1, <3>11 DEF PingAnswered
    <3>12. CASE PingMissed
      BY <2>1, <3>12 DEF PingMissed, ClientCloses
    <3>13. CASE OpenArrives
      BY <2>1, <3>13 DEF OpenArrives
    <3>14. CASE Refuse
      BY <2>1, <3>14 DEF Refuse, DeviceSays, Sent
    <3>15. CASE Serve
      BY <2>1, <3>15 DEF Serve, DeviceSays, Sent
    <3>16. CASE DeviceCloseArrives
      BY <2>1, <3>16 DEF DeviceCloseArrives, DeviceGets, DeviceCloses, DeviceSays, Sent
    <3>17. CASE DeviceDataArrives
      BY <2>1, <3>17 DEF DeviceDataArrives, DeviceGets, Reject, DeviceSays, Sent
    <3>18. CASE ThrottleExpires
      BY <2>1, <3>18 DEF ThrottleExpires
    <3>19. CASE DeviceSends
      BY <2>1, <3>19 DEF DeviceSends, DeviceSays, Sent
    <3>20. CASE DeviceEnds
      BY <2>1, <3>20 DEF DeviceEnds, DeviceCloses, DeviceSays, Sent
    <3>21. CASE DeviceAges
      BY <2>1, <3>21 DEF DeviceAges
    <3>22. CASE DeviceStale
      BY <2>1, <3>22 DEF DeviceStale, DeviceCloses, DeviceSays, Sent
    <3>23. CASE RepeatOpen
      BY <2>1, <3>23 DEF RepeatOpen, Fault
    <3>24. CASE ClientDisconnects
      BY <2>1, <3>24 DEF ClientDisconnects, Fault, ClientCloses, TellDevice, ClientSays, Sent
    <3>25. CASE DeviceDisconnects
      BY <2>1, <3>25 DEF DeviceDisconnects, Fault, DeviceSays, Sent
    <3>26. CASE DeviceDies
      BY <2>1, <3>26 DEF DeviceDies, Fault
    <3>27. CASE \E end \in {"client", "device"} : Reconnect(end)
      BY <2>1, <3>27 DEF Reconnect
    <3>28. CASE UNCHANGED vars
      BY <2>1, <3>28 DEF vars
    <3> QED
      BY <3>1, <3>2, <3>3, <3>4, <3>5, <3>6, <3>7, <3>8, <3>9, <3>10, <3>11, <3>12, <3>13,
         <3>14, <3>15, <3>16, <3>17, <3>18, <3>19, <3>20, <3>21, <3>22, <3>23, <3>24, <3>25,
         <3>26, <3>27, <3>28, <3>29 DEF Next, ClientStep, DeviceStep, FaultStep
  <2>3. PingMissed => client' = "gone" \/ misses' = misses + 1
    BY DEF PingMissed, ClientCloses
  <2> QED
    BY <2>2, <2>3
<1>2. QuietInv => TypeInv
  BY DEF QuietInv
<1> QED
  BY <1>1, <1>2, QuietInvariant, PTL DEF Spec, MissesAddUp

=============================================================================
