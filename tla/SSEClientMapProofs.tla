-------------------------- MODULE SSEClientMapProofs -------------------------
(***************************************************************************)
(* No page misses a message or gets one twice while the pump, the pages    *)
(* that come and the pages that go share the map, for any number of pages  *)
(* and messages.                                                           *)
(***************************************************************************)
EXTENDS SSEClientMap, TLAPS

(* What the mutex protects: only while the pump holds it there are clients *)
(* it has yet to come to or sends to, all of them in the map; and a client *)
(* is in the map from the end of AddClient to the end of RemoveClient.     *)
Registered == {"polling", "asleep", "removing", "inRemove"}

MapInv ==
    /\ received \in [Clients -> Seq(1 .. MaxMessages)]
    /\ holder # "pump" => pending = {} /\ target = Nobody
    /\ holder = "pump" => sent > 0
    /\ pending \subseteq clients /\ target \notin pending
    /\ target # Nobody => target \in clients
    /\ \A c \in Clients :
          /\ c \in clients => state[c] \in Registered
          /\ state[c] \in {"new", "adding", "inAdd"} => received[c] = <<>>

(* A client has the messages since its registration in order, all of them  *)
(* but the one that the pump still has to send to it.                      *)
StreamInv ==
    \A c \in Clients :
        /\ received[c] = [i \in 1 .. Len(received[c]) |-> since[c] + i]
        /\ c \in clients =>
               since[c] + Len(received[c]) =
                   IF c \in pending \/ c = target THEN sent - 1 ELSE sent

PagesInv == TypeOK /\ MapInv /\ StreamInv

-----------------------------------------------------------------------------
(* A sequence of consecutive numbers stays one when the next is appended. *)
LEMMA NextNumber ==
  ASSUME NEW S, NEW s \in Seq(S), NEW k \in Nat, NEW x \in S,
         s = [i \in 1 .. Len(s) |-> k + i], x = k + Len(s) + 1
  PROVE  /\ Append(s, x) = [i \in 1 .. Len(Append(s, x)) |-> k + i]
         /\ Len(Append(s, x)) = Len(s) + 1
<1>1. Len(Append(s, x)) = Len(s) + 1 /\ Len(s) \in Nat
  OBVIOUS
<1>2. \A i \in 1 .. Len(s) + 1 :
         Append(s, x)[i] = IF i <= Len(s) THEN s[i] ELSE x
  OBVIOUS
<1>3. \A i \in 1 .. Len(s) + 1 : Append(s, x)[i] = k + i
  BY <1>1, <1>2
<1> QED BY <1>1, <1>3

(* Nothing is registered or sent at first. *)
LEMMA InitHolds ==
  ASSUME Init
  PROVE  PagesInv
<1> USE ClientMapAssumption DEF Init
<1>1. TypeOK
  <2>1. \A c \in Clients : received[c] \in Seq(1 .. MaxMessages)
    <3>1. <<>> \in Seq(1 .. MaxMessages)
      OBVIOUS
    <3> QED BY <3>1
  <2>2. since \in [Clients -> 0 .. MaxMessages] /\ sent \in 0 .. MaxMessages
    OBVIOUS
  <2>3. state \in [Clients -> States]
        /\ \A c \in Clients : holder = c <=> state[c] \in {"inAdd", "inRemove"}
    BY DEF States
  <2> QED BY <2>1, <2>2, <2>3 DEF TypeOK
<1>2. MapInv
  BY DEF MapInv
<1>3. StreamInv
  <2>1. ASSUME NEW c \in Clients
        PROVE  received[c] = [i \in 1 .. Len(received[c]) |-> since[c] + i]
    <3>1. received[c] = <<>>
      OBVIOUS
    <3> QED BY <3>1
  <2> QED BY <2>1 DEF StreamInv
<1> QED BY <1>1, <1>2, <1>3 DEF PagesInv

(* Every step keeps the types. *)
LEMMA StepTyped ==
  ASSUME TypeOK, MapInv, [Next]_vars
  PROVE  TypeOK'
<1> USE ClientMapAssumption DEF TypeOK, MapInv, States, pump, handlers
<1>1. CASE SendToClients
  BY <1>1 DEF SendToClients
<1>2. CASE NextClient
  BY <1>2 DEF NextClient
<1>3. CASE SendReturns
  BY <1>3 DEF SendReturns
<1>4. ASSUME NEW c \in Clients, Open(c) PROVE TypeOK'
  BY <1>4 DEF Open, Become
<1>5. ASSUME NEW c \in Clients, AddClient(c) PROVE TypeOK'
  BY <1>5 DEF AddClient, Become, Lock
<1>6. ASSUME NEW c \in Clients, ClientAdded(c) PROVE TypeOK'
  BY <1>6 DEF ClientAdded, Become
<1>7. ASSUME NEW c \in Clients, Receive(c) PROVE TypeOK'
  <2>1. sent \in 1 .. MaxMessages /\ received[c] \in Seq(1 .. MaxMessages)
    BY <1>7 DEF Receive
  <2>2. Append(received[c], sent) \in Seq(1 .. MaxMessages)
    BY <2>1
  <2>3. received' \in [Clients -> Seq(1 .. MaxMessages)]
    BY <1>7, <2>2 DEF Receive
  <2> QED BY <1>7, <2>3 DEF Receive
<1>8. ASSUME NEW c \in Clients, Leave(c) PROVE TypeOK'
  BY <1>8 DEF Leave, Become
<1>9. ASSUME NEW c \in Clients, Sleep(c) PROVE TypeOK'
  BY <1>9 DEF Sleep, Become
<1>10. ASSUME NEW c \in Clients, Wake(c) PROVE TypeOK'
  BY <1>10 DEF Wake, Become
<1>11. ASSUME NEW c \in Clients, MapRace(c) PROVE TypeOK'
  BY <1>11 DEF MapRace
<1>12. ASSUME NEW c \in Clients, RemoveClient(c) PROVE TypeOK'
  BY <1>12 DEF RemoveClient, Become, Lock
<1>13. ASSUME NEW c \in Clients, ClientRemoved(c) PROVE TypeOK'
  BY <1>13 DEF ClientRemoved, Become
<1>14. ASSUME NEW c \in Clients, Disconnect(c) PROVE TypeOK'
  BY <1>14 DEF Disconnect
<1>15. CASE UNCHANGED vars
  BY <1>15 DEF vars
<1> QED
  BY <1>1, <1>2, <1>3, <1>4, <1>5, <1>6, <1>7, <1>8, <1>9,
     <1>10, <1>11, <1>12, <1>13, <1>14, <1>15
  DEF Next, Pump, Handler

(* Every step keeps the map with the mutex. *)
LEMMA StepMap ==
  ASSUME TypeOK, MapInv, [Next]_vars
  PROVE  MapInv'
<1> USE ClientMapAssumption DEF TypeOK, MapInv, Registered, States, pump, handlers
<1>1. CASE SendToClients
  BY <1>1 DEF SendToClients
<1>2. CASE NextClient
  BY <1>2 DEF NextClient
<1>3. CASE SendReturns
  BY <1>3 DEF SendReturns
<1>4. ASSUME NEW c \in Clients, Open(c) PROVE MapInv'
  BY <1>4 DEF Open, Become
<1>5. ASSUME NEW c \in Clients, AddClient(c) PROVE MapInv'
  BY <1>5 DEF AddClient, Become, Lock
<1>6. ASSUME NEW c \in Clients, ClientAdded(c) PROVE MapInv'
  BY <1>6 DEF ClientAdded, Become
<1>7. ASSUME NEW c \in Clients, Receive(c) PROVE MapInv'
  BY <1>7 DEF Receive
<1>8. ASSUME NEW c \in Clients, Leave(c) PROVE MapInv'
  BY <1>8 DEF Leave, Become
<1>9. ASSUME NEW c \in Clients, Sleep(c) PROVE MapInv'
  BY <1>9 DEF Sleep, Become
<1>10. ASSUME NEW c \in Clients, Wake(c) PROVE MapInv'
  BY <1>10 DEF Wake, Become
<1>11. ASSUME NEW c \in Clients, MapRace(c) PROVE MapInv'
  BY <1>11 DEF MapRace
<1>12. ASSUME NEW c \in Clients, RemoveClient(c) PROVE MapInv'
  BY <1>12 DEF RemoveClient, Become, Lock
<1>13. ASSUME NEW c \in Clients, ClientRemoved(c) PROVE MapInv'
  BY <1>13 DEF ClientRemoved, Become
<1>14. ASSUME NEW c \in Clients, Disconnect(c) PROVE MapInv'
  BY <1>14 DEF Disconnect
<1>15. CASE UNCHANGED vars
  BY <1>15 DEF vars
<1> QED
  BY <1>1, <1>2, <1>3, <1>4, <1>5, <1>6, <1>7, <1>8, <1>9,
     <1>10, <1>11, <1>12, <1>13, <1>14, <1>15
  DEF Next, Pump, Handler

(* Every step keeps the streams without gap and repetition. *)
LEMMA StepStreams ==
  ASSUME TypeOK, MapInv, StreamInv, [Next]_vars
  PROVE  StreamInv'
<1> USE ClientMapAssumption DEF TypeOK, MapInv, StreamInv, Registered, pump, handlers
<1>1. CASE SendToClients
  BY <1>1 DEF SendToClients
<1>2. CASE NextClient
  <2>1. \A d \in Clients : d \in pending \/ d = target <=> d \in pending' \/ d = target'
    BY <1>2 DEF NextClient
  <2>2. UNCHANGED <<clients, sent, received, since>>
    BY <1>2 DEF NextClient
  <2> QED BY <2>1, <2>2
<1>3. CASE SendReturns
  BY <1>3 DEF SendReturns
<1>4. ASSUME NEW c \in Clients, Open(c) PROVE StreamInv'
  BY <1>4 DEF Open, Become
<1>5. ASSUME NEW c \in Clients, AddClient(c) PROVE StreamInv'
  BY <1>5 DEF AddClient, Become, Lock
<1>6. ASSUME NEW c \in Clients, ClientAdded(c) PROVE StreamInv'
  <2>1. received[c] = <<>> /\ holder = c /\ pending = {} /\ target = Nobody
    BY <1>6 DEF ClientAdded
  <2>2. \A d \in Clients \ {c} : since'[d] = since[d] /\ (d \in clients' => d \in clients)
    BY <1>6 DEF ClientAdded, Become
  <2>3. since'[c] = sent /\ UNCHANGED <<received, sent, pending, target>>
    BY <1>6 DEF ClientAdded, Become
  <2>4. received'[c] = [i \in 1 .. Len(received'[c]) |-> since'[c] + i]
        /\ Len(received'[c]) = 0
    BY <2>1, <2>3
  <2>5. since'[c] + Len(received'[c]) = sent'
    BY <2>3, <2>4
  <2>6. c \notin pending' /\ c # target'
    BY <2>1, <2>3
  <2>7. ASSUME NEW d \in Clients \ {c}
        PROVE  /\ received'[d] = [i \in 1 .. Len(received'[d]) |-> since'[d] + i]
               /\ d \in clients' =>
                      since'[d] + Len(received'[d]) =
                          IF d \in pending' \/ d = target' THEN sent' - 1 ELSE sent'
    <3>1. UNCHANGED <<received[d], since[d], sent>> /\ (d \in clients' => d \in clients)
      BY <2>2, <2>3
    <3>2. d \in pending' \/ d = target' <=> d \in pending \/ d = target
      BY <2>2, <2>3
    <3> QED BY <3>1, <3>2
  <2> QED BY <2>7, <2>3, <2>4, <2>5, <2>6
<1>7. ASSUME NEW c \in Clients, Receive(c) PROVE StreamInv'
  <2>1. /\ received[c] \in Seq(1 .. MaxMessages) /\ since[c] \in Nat
        /\ sent \in 1 .. MaxMessages /\ target = c /\ c \in clients
        /\ Len(received[c]) \in Nat
    BY <1>7 DEF Receive
  <2>2. received[c] = [i \in 1 .. Len(received[c]) |-> since[c] + i]
        /\ sent = since[c] + Len(received[c]) + 1
    BY <2>1
  <2>3. /\ received'[c] = Append(received[c], sent) /\ target' = Nobody
        /\ \A d \in Clients \ {c} : received'[d] = received[d]
        /\ UNCHANGED <<clients, sent, pending, since>>
    BY <1>7 DEF Receive
  <2>4. /\ received'[c] = [i \in 1 .. Len(received'[c]) |-> since[c] + i]
        /\ Len(received'[c]) = Len(received[c]) + 1
    BY <2>1, <2>2, <2>3, NextNumber
  <2>5. since[c] + Len(received'[c]) = sent
    BY <2>1, <2>2, <2>4
  <2>6. ASSUME NEW d \in Clients \ {c}
        PROVE  /\ received'[d] = [i \in 1 .. Len(received'[d]) |-> since'[d] + i]
               /\ d \in clients' =>
                      since'[d] + Len(received'[d]) =
                          IF d \in pending' \/ d = target' THEN sent' - 1 ELSE sent'
    <3>1. UNCHANGED <<received[d], since[d], sent>> /\ (d \in clients' => d \in clients)
      BY <2>1, <2>3
    <3>2. d \in pending' \/ d = target' <=> d \in pending \/ d = target
      BY <2>1, <2>3
    <3> QED BY <3>1, <3>2
  <2>7. /\ received'[c] = [i \in 1 .. Len(received'[c]) |-> since'[c] + i]
        /\ c \in clients' =>
               since'[c] + Len(received'[c]) =
                   IF c \in pending' \/ c = target' THEN sent' - 1 ELSE sent'
    <3>1. c \notin pending' /\ c # target'
      BY <2>1, <2>3
    <3> QED BY <2>3, <2>4, <2>5, <3>1
  <2> HIDE DEF TypeOK, MapInv
  <2> QED BY <2>6, <2>7
<1>8. ASSUME NEW c \in Clients, Leave(c) PROVE StreamInv'
  BY <1>8 DEF Leave, Become
<1>9. ASSUME NEW c \in Clients, Sleep(c) PROVE StreamInv'
  BY <1>9 DEF Sleep, Become
<1>10. ASSUME NEW c \in Clients, Wake(c) PROVE StreamInv'
  BY <1>10 DEF Wake, Become
<1>11. ASSUME NEW c \in Clients, MapRace(c) PROVE StreamInv'
  BY <1>11 DEF MapRace
<1>12. ASSUME NEW c \in Clients, RemoveClient(c) PROVE StreamInv'
  BY <1>12 DEF RemoveClient, Become, Lock
<1>13. ASSUME NEW c \in Clients, ClientRemoved(c) PROVE StreamInv'
  BY <1>13 DEF ClientRemoved, Become
<1>14. ASSUME NEW c \in Clients, Disconnect(c) PROVE StreamInv'
  BY <1>14 DEF Disconnect
<1>15. CASE UNCHANGED vars
  BY <1>15 DEF vars
<1> QED
  BY <1>1, <1>2, <1>3, <1>4, <1>5, <1>6, <1>7, <1>8, <1>9,
     <1>10, <1>11, <1>12, <1>13, <1>14, <1>15
  DEF Next, Pump, Handler

-----------------------------------------------------------------------------
(* The invariant of every behaviour. *)
LEMMA PagesInvariant ==
  Spec => []PagesInv
<1>1. PagesInv /\ [Next]_vars => PagesInv'
  BY StepTyped, StepMap, StepStreams DEF PagesInv
<1> QED BY InitHolds, <1>1, PTL DEF Spec

(* Pump, map and handlers keep their types, and the mutex its one holder.  *)
THEOREM PagesTypeCorrect ==
  Spec => []TypeOK
<1>1. PagesInv => TypeOK
  BY DEF PagesInv
<1> QED BY <1>1, PagesInvariant, PTL

(* A page shows every message from its registration on, in order and once, *)
(* however pages come and go while the pump goes through the map.          *)
THEOREM NoPageMissesAMessage ==
  Spec => []NoGapNoRepeat
<1>1. PagesInv => NoGapNoRepeat
  BY ClientMapAssumption DEF PagesInv, MapInv, StreamInv, NoGapNoRepeat
<1> QED BY <1>1, PagesInvariant, PTL

(* The pump sends on no channel that is closed. *)
THEOREM ChannelsAreOpen ==
  Spec => []SendsToOpenChannels
<1>1. PagesInv => SendsToOpenChannels
  BY ClientMapAssumption DEF PagesInv, MapInv, SendsToOpenChannels
<1> QED BY <1>1, PagesInvariant, PTL
=============================================================================
