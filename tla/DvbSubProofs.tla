---------------------------- MODULE DvbSubProofs ----------------------------
(***************************************************************************)
(* Subtitles are only shown while they are not paused, and a reader that   *)
(* sleeps although subtitles have been started has missed its wake-up: for *)
(* every set of pids, and any number of calls and of packets.              *)
(***************************************************************************)
EXTENDS DvbSub, TLAPS

\* Where the threads are.
PcType ==
    /\ pc \in [Threads -> ClientPlaces \cup ReaderPlaces \cup DecoderPlaces]
    /\ \A c \in Clients : pc[c] \in ClientPlaces
    /\ pc["reader"] \in ReaderPlaces /\ pc["decoder"] \in DecoderPlaces

\* The lists and what the threads hold.
Lists == bitmaps \in Seq(Packets) /\ packet_queue \in Seq(Packets)
Held ==
    /\ packets \in 0..MaxPackets /\ MaxPackets \in Nat
    /\ pc["reader"] = "push"     => got \in Packets
    /\ pc["decoder"] = "convert" => packet \in Packets
    /\ pc["decoder"] = "asleep"  => sb \in Packets

\* From its decision to stop on, the reader waits for the one who has started subtitles,
\* or has missed the wake-up.
Gap ==
    /\ ~dvbsub_paused /\ pc["reader"] \in {"stop", "lock", "wait"}
    /\ \A c \in Clients : pc[c] \notin {"resume", "wake"}
    => missed

IInv == TypeOK /\ Lists /\ Held /\ PausedShowsNothing /\ Gap

LEMMA InitInvariant == Init => IInv
<1> SUFFICES ASSUME Init PROVE IInv
  OBVIOUS
<1> USE ConstantsAssumption DEF Init
<1>1. TypeOK
  <2>1. PcType
    BY DEF PcType, ClientPlaces, ReaderPlaces, DecoderPlaces, Threads, Clients
  <2>2. then \in [Clients -> {"idle", "start", "pid", "close"}] /\ arg \in [Clients -> Pids \cup {None}]
    OBVIOUS
  <2>3. ToSet(bitmaps) \cup ToSet(packet_queue) \subseteq Packets
    BY DEF ToSet
  <2> QED BY <2>1, <2>2, <2>3 DEF TypeOK, PcType
<1>2. Lists /\ Held /\ PausedShowsNothing
  BY DEF Lists, Held, PausedShowsNothing, Threads
<1>3. Gap
  BY DEF Gap
<1> QED BY <1>1, <1>2, <1>3 DEF IInv

\* What is in a list of packets.
LEMMA Elements == ASSUME NEW s \in Seq(Packets) PROVE ToSet(s) \subseteq Packets
  BY DEF ToSet

LEMMA WithoutType == ASSUME Lists, NEW b PROVE Without(b) \in Seq(Packets)
<1>1. CASE \E i \in DOMAIN bitmaps : bitmaps[i] = b
  <2> DEFINE i == CHOOSE i \in DOMAIN bitmaps : bitmaps[i] = b
  <2>1. i \in 1..Len(bitmaps) /\ bitmaps \in Seq(Packets)
    BY <1>1 DEF Lists
  <2> HIDE DEF i
  <2>2. SubSeq(bitmaps, 1, i - 1) \in Seq(Packets) /\ SubSeq(bitmaps, i + 1, Len(bitmaps)) \in Seq(Packets)
    BY <2>1
  <2>3. RemoveAt(bitmaps, i) \in Seq(Packets)
    BY <2>2 DEF RemoveAt
  <2> QED BY <1>1, <2>3 DEF Without, i
<1>2. CASE ~\E i \in DOMAIN bitmaps : bitmaps[i] = b
  BY <1>2 DEF Without, Lists
<1> QED BY <1>1, <1>2

-----------------------------------------------------------------------------
\* One thread goes on.
LEMMA ClientAt ==
    ASSUME PcType, NEW c \in Clients, NEW at \in ClientPlaces, At(c, at)
    PROVE  /\ PcType' /\ pc'[c] = at
           /\ \A t \in Threads : t # c => pc'[t] = pc[t]
           /\ pc'["reader"] = pc["reader"] /\ pc'["decoder"] = pc["decoder"]
  BY DEF At, PcType, Threads, Clients

LEMMA ReaderAt ==
    ASSUME PcType, NEW at \in ReaderPlaces, At("reader", at)
    PROVE  /\ PcType' /\ pc'["reader"] = at /\ pc'["decoder"] = pc["decoder"]
           /\ \A c \in Clients : pc'[c] = pc[c]
  BY DEF At, PcType, Threads, Clients

LEMMA DecoderAt ==
    ASSUME PcType, NEW at \in DecoderPlaces, At("decoder", at)
    PROVE  /\ PcType' /\ pc'["decoder"] = at /\ pc'["reader"] = pc["reader"]
           /\ \A c \in Clients : pc'[c] = pc[c]
  BY DEF At, PcType, Threads, Clients

\* A broadcast: a client goes on, and a reader that waits does.
LEMMA BroadcastAt ==
    ASSUME PcType, NEW c \in Clients, NEW at \in ClientPlaces, Broadcast(c, at)
    PROVE  /\ PcType' /\ missed' \in BOOLEAN /\ pc'[c] = at
           /\ \A d \in Clients : d # c => pc'[d] = pc[d]
           /\ pc'["reader"] = IF pc["reader"] = "wait" THEN "woken" ELSE pc["reader"]
           /\ pc'["decoder"] = pc["decoder"]
           /\ missed' = (pc["reader"] \in {"stop", "lock"})
<1>1. pc' = [pc EXCEPT ![c] = at, !["reader"] = IF pc["reader"] = "wait" THEN "woken" ELSE pc["reader"]]
  BY DEF Broadcast, PcType, Threads, Clients
<1>2. /\ PcType' /\ pc'[c] = at
      /\ \A d \in Clients : d # c => pc'[d] = pc[d]
      /\ pc'["reader"] = IF pc["reader"] = "wait" THEN "woken" ELSE pc["reader"]
      /\ pc'["decoder"] = pc["decoder"]
  BY <1>1 DEF PcType, Threads, Clients, ReaderPlaces, DecoderPlaces
<1>3. missed' \in BOOLEAN /\ missed' = (pc["reader"] \in {"stop", "lock"})
  BY DEF Broadcast
<1> QED BY <1>2, <1>3

-----------------------------------------------------------------------------
\* The steps of the clients.
Moves(c) ==
    \/ Call(c) \/ Pause(c) \/ ClearScreen(c) \/ Reset(c) \/ Paused(c) \/ Start(c) \/ SetPid(c)
    \/ Spin(c) \/ Resume(c) \/ Stop(c) \/ Close(c) \/ Join(c) \/ JoinDecoder(c)

\* Where a client goes: it never leaves the way from Spin to its broadcast, and subtitles
\* that are started have one who is on that way.
LEMMA ClientGoes ==
    ASSUME IInv, NEW c \in Clients, Moves(c)
    PROVE  /\ PcType' /\ pc'["reader"] = pc["reader"] /\ pc'["decoder"] = pc["decoder"]
           /\ \A d \in Clients : d # c => pc'[d] = pc[d]
           /\ pc[c] # "wake" /\ (pc[c] = "resume" => pc'[c] = "wake")
           /\ (dvbsub_paused => dvbsub_paused') \/ pc'[c] = "resume"
<1>0. PcType /\ then[c] \in ClientPlaces
  BY DEF IInv, TypeOK, PcType, ClientPlaces
<1>1. ASSUME NEW at \in ClientPlaces, At(c, at)
      PROVE  /\ PcType' /\ pc'["reader"] = pc["reader"] /\ pc'["decoder"] = pc["decoder"]
             /\ \A d \in Clients : d # c => pc'[d] = pc[d]
             /\ pc'[c] = at
  BY <1>0, <1>1, ClientAt DEF Threads, Clients
<1>2. ASSUME NEW at \in ClientPlaces, At(c, at), pc[c] \notin {"wake", "resume"},
             dvbsub_paused => dvbsub_paused'
      PROVE  /\ PcType' /\ pc'["reader"] = pc["reader"] /\ pc'["decoder"] = pc["decoder"]
             /\ \A d \in Clients : d # c => pc'[d] = pc[d]
             /\ pc[c] # "wake" /\ (pc[c] = "resume" => pc'[c] = "wake")
             /\ (dvbsub_paused => dvbsub_paused') \/ pc'[c] = "resume"
  BY <1>1, <1>2
<1> USE DEF control, ClientPlaces
<1>3. CASE Call(c)
  BY <1>0, <1>2, <1>3 DEF Call
<1>4. CASE Pause(c)
  BY <1>0, <1>2, <1>4 DEF Pause
<1>5. CASE ClearScreen(c)
  BY <1>0, <1>2, <1>5 DEF ClearScreen
<1>6. CASE Reset(c)
  BY <1>0, <1>2, <1>6 DEF Reset
<1>7. CASE Paused(c)
  BY <1>0, <1>2, <1>7 DEF Paused
<1>8. CASE Start(c)
  BY <1>0, <1>2, <1>8 DEF Start
<1>9. CASE SetPid(c)
  BY <1>0, <1>2, <1>9 DEF SetPid
<1>10. CASE Stop(c)
  BY <1>0, <1>2, <1>10 DEF Stop
<1>11. CASE Close(c)
  BY <1>0, <1>2, <1>11 DEF Close
<1>12. CASE Join(c)
  BY <1>0, <1>2, <1>12 DEF Join
<1>13. CASE JoinDecoder(c)
  BY <1>0, <1>2, <1>13 DEF JoinDecoder
<1>14. CASE Spin(c)
  <2>1. (At(c, "idle") /\ UNCHANGED dvbsub_paused) \/ At(c, "resume")
    BY <1>14 DEF Spin
  <2> QED BY <1>1, <1>14, <2>1 DEF Spin
<1>15. CASE Resume(c)
  <2>1. At(c, "wake") /\ UNCHANGED dvbsub_paused
    BY <1>15 DEF Resume
  <2> QED BY <1>1, <1>15, <2>1 DEF Resume
<1> QED BY <1>3, <1>4, <1>5, <1>6, <1>7, <1>8, <1>9, <1>10, <1>11, <1>12, <1>13, <1>14, <1>15 DEF Moves

\* The types are kept by what the clients change.
LEMMA ClientTypes == ASSUME IInv, NEW c \in Clients, Moves(c) PROVE TypeOK' /\ Lists'
<1>0. TypeOK /\ Lists
  BY DEF IInv
<1>1. PcType'
  BY ClientGoes
<1> USE DEF call, control, shown, stream, decode, memory
<1>2. CASE Call(c)
  BY <1>0, <1>1, <1>2 DEF Call, TypeOK, PcType, Lists
<1>3. CASE Pause(c)
  BY <1>0, <1>1, <1>3 DEF Pause, TypeOK, PcType, Lists
<1>4. CASE ClearScreen(c)
  BY <1>0, <1>1, <1>4 DEF ClearScreen, TypeOK, PcType, Lists
<1>5. CASE Reset(c)
  <2>1. bitmaps' = <<>> /\ bitmaps' \in Seq(Packets) /\ ToSet(bitmaps') = {}
    BY <1>5 DEF Reset, ToSet
  <2> QED BY <1>0, <1>1, <1>5, <2>1 DEF Reset, TypeOK, PcType, Lists
<1>6. CASE Paused(c)
  BY <1>0, <1>1, <1>6 DEF Paused, TypeOK, PcType, Lists
<1>7. CASE Start(c)
  BY <1>0, <1>1, <1>7 DEF Start, TypeOK, PcType, Lists
<1>8. CASE SetPid(c)
  BY <1>0, <1>1, <1>8 DEF SetPid, TypeOK, PcType, Lists
<1>9. CASE Spin(c)
  BY <1>0, <1>1, <1>9 DEF Spin, TypeOK, PcType, Lists
<1>10. CASE Resume(c)
  BY <1>0, <1>1, <1>10 DEF Resume, TypeOK, PcType, Lists
<1>11. CASE Stop(c)
  BY <1>0, <1>1, <1>11 DEF Stop, TypeOK, PcType, Lists
<1>12. CASE Close(c)
  BY <1>0, <1>1, <1>12 DEF Close, TypeOK, PcType, Lists
<1>13. CASE Join(c)
  BY <1>0, <1>1, <1>13 DEF Join, TypeOK, PcType, Lists
<1>14. CASE JoinDecoder(c)
  BY <1>0, <1>1, <1>14 DEF JoinDecoder, TypeOK, PcType, Lists
<1> QED BY <1>2, <1>3, <1>4, <1>5, <1>6, <1>7, <1>8, <1>9, <1>10, <1>11, <1>12, <1>13, <1>14 DEF Moves

LEMMA ClientKept == ASSUME IInv, NEW c \in Clients, Call(c) \/ ClientStep(c) PROVE IInv'
<1>0. TypeOK /\ PcType /\ Lists /\ Held /\ PausedShowsNothing /\ Gap
  BY DEF IInv, TypeOK, PcType
<1> USE DEF call, control, shown, stream, decode, memory
<1>1. CASE Moves(c)
  <2>1. /\ PcType' /\ pc'["reader"] = pc["reader"] /\ pc'["decoder"] = pc["decoder"]
        /\ \A d \in Clients : d # c => pc'[d] = pc[d]
        /\ pc[c] # "wake" /\ (pc[c] = "resume" => pc'[c] = "wake")
        /\ (dvbsub_paused => dvbsub_paused') \/ pc'[c] = "resume"
    BY <1>1, ClientGoes
  <2>2. UNCHANGED <<packets, got, packet, sb, missed>>
    BY <1>1 DEF Moves, Call, Pause, ClearScreen, Reset, Paused, Start, SetPid, Spin, Resume, Stop, Close,
       Join, JoinDecoder
  <2>3. /\ UNCHANGED running /\ (screen' = screen \/ screen' = None)
        \/ screen' = None \/ running' = TRUE
    BY <1>1 DEF Moves, Call, Pause, ClearScreen, Reset, Paused, Start, SetPid, Spin, Resume, Stop, Close,
       Join, JoinDecoder
  <2>4. Held' /\ PausedShowsNothing'
    BY <1>0, <2>1, <2>2, <2>3 DEF Held, PausedShowsNothing
  <2>5. Gap'
    <3> SUFFICES ASSUME ~dvbsub_paused', pc'["reader"] \in {"stop", "lock", "wait"},
                        \A d \in Clients : pc'[d] \notin {"resume", "wake"}
                 PROVE  missed'
      BY DEF Gap
    <3>1. \A d \in Clients : pc[d] \notin {"resume", "wake"}
      BY <2>1
    <3>2. ~dvbsub_paused
      BY <2>1
    <3> QED BY <1>0, <2>1, <2>2, <3>1, <3>2 DEF Gap
  <2> QED BY <1>1, <2>4, <2>5, ClientTypes DEF IInv
<1>2. ASSUME NEW at \in ClientPlaces, Broadcast(c, at),
             UNCHANGED <<call, control, converter, shown, packet_queue, stream, decode, dead, users>>
      PROVE  IInv'
  <2>1. /\ PcType' /\ missed' \in BOOLEAN
        /\ pc'["reader"] = IF pc["reader"] = "wait" THEN "woken" ELSE pc["reader"]
        /\ pc'["decoder"] = pc["decoder"]
        /\ missed' = (pc["reader"] \in {"stop", "lock"})
    BY <1>0, <1>2, BroadcastAt
  <2>2. TypeOK' /\ Lists'
    BY <1>0, <1>2, <2>1 DEF TypeOK, PcType, Lists
  <2>3. Held' /\ PausedShowsNothing'
    BY <1>0, <1>2, <2>1 DEF Held, PausedShowsNothing
  <2>4. Gap'
    BY <2>1 DEF Gap
  <2> QED BY <2>2, <2>3, <2>4 DEF IInv
<1>3. CASE Wake(c)
  BY <1>2, <1>3 DEF Wake, ClientPlaces
<1>4. CASE Unblock(c)
  BY <1>2, <1>4 DEF Unblock, ClientPlaces
<1> QED BY <1>1, <1>3, <1>4 DEF ClientStep, Moves

\* The steps of the reader.
LEMMA ReaderKept == ASSUME IInv, Reader PROVE IInv'
<1>0. TypeOK /\ PcType /\ Lists /\ Held /\ PausedShowsNothing /\ Gap
  BY DEF IInv, TypeOK, PcType
<1>p. ASSUME NEW at \in ReaderPlaces, At("reader", at)
      PROVE  /\ PcType' /\ pc'["reader"] = at /\ \A d \in Clients : pc'[d] = pc[d]
             /\ pc'["decoder"] = pc["decoder"]
  BY <1>0, <1>p, ReaderAt
<1> USE DEF call, control, shown, stream, decode, memory
<1>1. CASE ReaderTop
  <2>1. PcType'
    BY <1>0, <1>1, <1>p DEF ReaderTop, ReaderPlaces
  <2>2. TypeOK'
    BY <1>0, <1>1, <2>1 DEF ReaderTop, TypeOK, PcType
  <2>3. Lists' /\ Held' /\ PausedShowsNothing'
    BY <1>0, <1>1, <1>p DEF ReaderTop, Lists, Held, PausedShowsNothing, ReaderPlaces
  <2>4. Gap'
    BY <1>0, <1>1, <1>p DEF ReaderTop, Gap, ReaderPlaces
  <2> QED BY <2>2, <2>3, <2>4 DEF IInv
<1>2. CASE ReaderStop
  <2>1. PcType'
    BY <1>0, <1>2, <1>p DEF ReaderStop, ReaderPlaces
  <2>2. TypeOK'
    BY <1>0, <1>2, <2>1 DEF ReaderStop, TypeOK, PcType
  <2>3. Lists' /\ Held' /\ PausedShowsNothing'
    BY <1>0, <1>2, <1>p DEF ReaderStop, Lists, Held, PausedShowsNothing, ReaderPlaces
  <2>4. Gap'
    BY <1>0, <1>2, <1>p DEF ReaderStop, Gap, ReaderPlaces
  <2> QED BY <2>2, <2>3, <2>4 DEF IInv
<1>3. CASE ReaderWait
  <2>1. PcType'
    BY <1>0, <1>3, <1>p DEF ReaderWait, ReaderPlaces
  <2>2. TypeOK'
    BY <1>0, <1>3, <2>1 DEF ReaderWait, TypeOK, PcType
  <2>3. Lists' /\ Held' /\ PausedShowsNothing'
    BY <1>0, <1>3, <1>p DEF ReaderWait, Lists, Held, PausedShowsNothing, ReaderPlaces
  <2>4. Gap'
    BY <1>0, <1>3, <1>p DEF ReaderWait, Gap, ReaderPlaces
  <2> QED BY <2>2, <2>3, <2>4 DEF IInv
<1>4. CASE ReaderWoken
  <2>1. PcType'
    BY <1>0, <1>4, <1>p DEF ReaderWoken, ReaderPlaces
  <2>2. TypeOK'
    BY <1>0, <1>4, <2>1 DEF ReaderWoken, TypeOK, PcType
  <2>3. Lists' /\ Held' /\ PausedShowsNothing'
    BY <1>0, <1>4, <1>p DEF ReaderWoken, Lists, Held, PausedShowsNothing, ReaderPlaces
  <2>4. Gap'
    BY <1>0, <1>4, <1>p DEF ReaderWoken, Gap, ReaderPlaces
  <2> QED BY <2>2, <2>3, <2>4 DEF IInv
<1>5. CASE ReaderStarted
  <2>1. PcType'
    BY <1>0, <1>5, <1>p DEF ReaderStarted, ReaderPlaces
  <2>2. TypeOK'
    BY <1>0, <1>5, <2>1 DEF ReaderStarted, TypeOK, PcType
  <2>3. Lists' /\ Held' /\ PausedShowsNothing'
    BY <1>0, <1>5, <1>p DEF ReaderStarted, Lists, Held, PausedShowsNothing, ReaderPlaces
  <2>4. Gap'
    BY <1>0, <1>5, <1>p DEF ReaderStarted, Gap, ReaderPlaces
  <2> QED BY <2>2, <2>3, <2>4 DEF IInv
<1>6. CASE ReaderRead
  <2>0. dvbsub_paused \/ (/\ packets' \in 1..MaxPackets /\ packets' \in Nat
                           /\ filter \in Pids /\ got' = Bitmap(packets', filter))
    <3> SUFFICES ASSUME ~dvbsub_paused
                 PROVE  /\ packets' \in 1..MaxPackets /\ packets' \in Nat
                        /\ filter \in Pids /\ got' = Bitmap(packets', filter)
      OBVIOUS
    <3>1. filter # None /\ packets < MaxPackets /\ packets' = packets + 1
          /\ got' = Bitmap(packets', filter)
      BY <1>6 DEF ReaderRead
    <3> QED BY <1>0, <3>1 DEF TypeOK, Held
  <2>1. got' = got \/ got' \in Packets
    BY <1>6, <2>0 DEF ReaderRead, Bitmap, Packets
  <2>2. PcType' /\ pc'["decoder"] = pc["decoder"] /\ (\A d \in Clients : pc'[d] = pc[d])
        /\ pc'["reader"] \in {"top", "push"} /\ (pc'["reader"] = "push" => got' \in Packets)
    <3>1. At("reader", "top") \/ (At("reader", "push") /\ ~dvbsub_paused)
      BY <1>6 DEF ReaderRead
    <3>2. dvbsub_paused => At("reader", "top")
      BY <1>6 DEF ReaderRead
    <3> QED BY <1>p, <1>6, <2>0, <2>1, <3>1, <3>2 DEF ReaderPlaces, Bitmap, Packets
  <2>3. packets' \in 0..MaxPackets /\ MaxPackets \in Nat
    BY <1>0, <1>6, <2>0 DEF ReaderRead, Held
  <2>4. TypeOK'
    BY <1>0, <1>6, <2>1, <2>2 DEF ReaderRead, TypeOK, PcType
  <2>5. Lists' /\ Held' /\ PausedShowsNothing'
    BY <1>0, <1>6, <2>2, <2>3 DEF ReaderRead, Lists, Held, PausedShowsNothing
  <2>6. Gap'
    BY <1>0, <1>6, <2>2 DEF ReaderRead, Gap
  <2> QED BY <2>4, <2>5, <2>6 DEF IInv
<1>7. CASE ReaderPush
  <2>1. PcType' /\ pc'["reader"] = "signal" /\ pc'["decoder"] = pc["decoder"]
    BY <1>p, <1>7 DEF ReaderPush, ReaderPlaces
  <2>2. packet_queue' \in Seq(Packets)
    BY <1>0, <1>7 DEF ReaderPush, Lists, Held
  <2>3. TypeOK'
    BY <1>0, <1>7, <2>1, <2>2, Elements DEF ReaderPush, TypeOK, PcType
  <2>4. Lists' /\ Held' /\ PausedShowsNothing'
    BY <1>0, <1>7, <2>1, <2>2 DEF ReaderPush, Lists, Held, PausedShowsNothing
  <2>5. Gap'
    BY <2>1 DEF Gap
  <2> QED BY <2>3, <2>4, <2>5 DEF IInv
<1>8. CASE ReaderSignal
  <2>1. PcType' /\ pc'["reader"] = "top" /\ pc'["decoder"] \in {pc["decoder"], "awake"}
    <3>1. pc' = [pc EXCEPT !["reader"] = "top",
                           !["decoder"] = IF pc["decoder"] = "wait" THEN "awake" ELSE pc["decoder"]]
      BY <1>0, <1>8 DEF ReaderSignal, PcType, Threads
    <3> QED BY <1>0, <3>1 DEF PcType, Threads, Clients, ReaderPlaces, DecoderPlaces
  <2>2. TypeOK'
    BY <1>0, <1>8, <2>1 DEF ReaderSignal, TypeOK, PcType
  <2>3. Lists' /\ Held' /\ PausedShowsNothing'
    BY <1>0, <1>8, <2>1 DEF ReaderSignal, Lists, Held, PausedShowsNothing
  <2>4. Gap'
    BY <2>1 DEF Gap
  <2> QED BY <2>2, <2>3, <2>4 DEF IInv
<1> QED BY <1>1, <1>2, <1>3, <1>4, <1>5, <1>6, <1>7, <1>8 DEF Reader

\* The steps of the decoder.
LEMMA DecoderKept == ASSUME IInv, Decoder PROVE IInv'
<1>0. TypeOK /\ PcType /\ Lists /\ Held /\ PausedShowsNothing /\ Gap
  BY DEF IInv, TypeOK, PcType
<1>p. ASSUME NEW at \in DecoderPlaces, At("decoder", at)
      PROVE  /\ PcType' /\ pc'["decoder"] = at /\ \A d \in Clients : pc'[d] = pc[d]
             /\ pc'["reader"] = pc["reader"]
  BY <1>0, <1>p, DecoderAt
<1> USE DEF call, control, shown, stream, decode, memory
<1>1. CASE DecoderNew
  <2>1. PcType'
    BY <1>0, <1>1, <1>p DEF DecoderNew, DecoderPlaces
  <2>2. TypeOK'
    BY <1>0, <1>1, <2>1 DEF DecoderNew, TypeOK, PcType
  <2>3. Lists' /\ Held' /\ PausedShowsNothing'
    BY <1>0, <1>1, <1>p DEF DecoderNew, Lists, Held, PausedShowsNothing, DecoderPlaces
  <2>4. Gap'
    BY <1>0, <1>1, <1>p DEF DecoderNew, Gap, DecoderPlaces
  <2> QED BY <2>2, <2>3, <2>4 DEF IInv
<1>2. CASE DecoderTop
  <2>1. PcType'
    BY <1>0, <1>2, <1>p DEF DecoderTop, DecoderPlaces
  <2>2. TypeOK'
    BY <1>0, <1>2, <2>1 DEF DecoderTop, TypeOK, PcType
  <2>3. Lists' /\ Held' /\ PausedShowsNothing'
    BY <1>0, <1>2, <1>p DEF DecoderTop, Lists, Held, PausedShowsNothing, DecoderPlaces
  <2>4. Gap'
    BY <1>0, <1>2, <1>p DEF DecoderTop, Gap, DecoderPlaces
  <2> QED BY <2>2, <2>3, <2>4 DEF IInv
<1>3. CASE DecoderWait
  <2>1. PcType'
    BY <1>0, <1>3, <1>p DEF DecoderWait, DecoderPlaces
  <2>2. TypeOK'
    BY <1>0, <1>3, <2>1 DEF DecoderWait, TypeOK, PcType
  <2>3. Lists' /\ Held' /\ PausedShowsNothing'
    BY <1>0, <1>3, <1>p DEF DecoderWait, Lists, Held, PausedShowsNothing, DecoderPlaces
  <2>4. Gap'
    BY <1>0, <1>3, <1>p DEF DecoderWait, Gap, DecoderPlaces
  <2> QED BY <2>2, <2>3, <2>4 DEF IInv
<1>4. CASE DecoderTimeout
  <2>1. PcType'
    BY <1>0, <1>4, <1>p DEF DecoderTimeout, DecoderPlaces
  <2>2. TypeOK'
    BY <1>0, <1>4, <2>1 DEF DecoderTimeout, TypeOK, PcType
  <2>3. Lists' /\ Held' /\ PausedShowsNothing'
    BY <1>0, <1>4, <1>p DEF DecoderTimeout, Lists, Held, PausedShowsNothing, DecoderPlaces
  <2>4. Gap'
    BY <1>0, <1>4, <1>p DEF DecoderTimeout, Gap, DecoderPlaces
  <2> QED BY <2>2, <2>3, <2>4 DEF IInv
<1>5. CASE DecoderAwake
  <2>1. \/ /\ At("decoder", "top") /\ UNCHANGED packet
           /\ (packet_queue' = <<>> \/ packet_queue' = packet_queue)
        \/ /\ At("decoder", "convert") /\ packet_queue # <<>>
           /\ packet' = Head(packet_queue) /\ packet_queue' = Tail(packet_queue)
    BY <1>5 DEF DecoderAwake
  <2>a. packet_queue \in Seq(Packets)
    BY <1>0 DEF Lists
  <2>b. packet_queue # <<>> => Head(packet_queue) \in Packets /\ Tail(packet_queue) \in Seq(Packets)
    BY <2>a
  <2>2. packet_queue' \in Seq(Packets)
    <3>1. <<>> \in Seq(Packets)
      OBVIOUS
    <3>2. \/ packet_queue' = <<>> \/ packet_queue' = packet_queue
          \/ packet_queue # <<>> /\ packet_queue' = Tail(packet_queue)
      BY <2>1
    <3> QED BY <2>a, <2>b, <3>1, <3>2, Zenon
  <2>3. /\ PcType' /\ pc'["reader"] = pc["reader"] /\ (\A d \in Clients : pc'[d] = pc[d])
        /\ \/ pc'["decoder"] = "top" /\ packet' = packet
           \/ pc'["decoder"] = "convert" /\ packet' \in Packets
    <3>1. CASE At("decoder", "top") /\ packet' = packet
      BY <1>p, <3>1 DEF DecoderPlaces
    <3>2. CASE At("decoder", "convert") /\ packet' \in Packets
      BY <1>p, <3>2 DEF DecoderPlaces
    <3> QED BY <2>1, <2>b, <3>1, <3>2
  <2>4. dead' \in BOOLEAN
    BY <1>0, <1>5 DEF DecoderAwake, TypeOK
  <2>5. TypeOK'
    BY <1>0, <1>5, <2>2, <2>3, <2>4, Elements DEF DecoderAwake, TypeOK, PcType
  <2>6. Lists' /\ Held' /\ PausedShowsNothing'
    BY <1>0, <1>5, <2>2, <2>3 DEF DecoderAwake, Lists, Held, PausedShowsNothing
  <2>7. Gap'
    BY <1>0, <1>5, <2>3 DEF DecoderAwake, Gap
  <2> QED BY <2>5, <2>6, <2>7 DEF IInv
<1>6. CASE DecoderConvert
  <2>1. \/ At("decoder", "action") /\ bitmaps' \in {bitmaps, Append(bitmaps, packet)}
        \/ At("decoder", "top") /\ UNCHANGED bitmaps
    BY <1>6 DEF DecoderConvert
  <2>2. bitmaps' \in Seq(Packets)
    BY <1>0, <1>6, <2>1 DEF DecoderConvert, Lists, Held
  <2>3. /\ PcType' /\ pc'["reader"] = pc["reader"] /\ \A d \in Clients : pc'[d] = pc[d]
        /\ pc'["decoder"] \in {"action", "top"}
    BY <1>p, <2>1 DEF DecoderPlaces
  <2>4. TypeOK'
    BY <1>0, <1>6, <2>2, <2>3, Elements DEF DecoderConvert, TypeOK, PcType
  <2>5. Lists' /\ Held' /\ PausedShowsNothing'
    BY <1>0, <1>6, <2>2, <2>3 DEF DecoderConvert, Lists, Held, PausedShowsNothing
  <2>6. Gap'
    BY <1>0, <1>6, <2>3 DEF DecoderConvert, Gap
  <2> QED BY <2>4, <2>5, <2>6 DEF IInv
<1>7. CASE DecoderAction
  <2>1. PcType'
    BY <1>0, <1>7, <1>p DEF DecoderAction, DecoderPlaces
  <2>2. TypeOK'
    BY <1>0, <1>7, <2>1 DEF DecoderAction, TypeOK, PcType
  <2>3. Lists' /\ Held' /\ PausedShowsNothing'
    BY <1>0, <1>7, <1>p DEF DecoderAction, Lists, Held, PausedShowsNothing, DecoderPlaces
  <2>4. Gap'
    BY <1>0, <1>7, <1>p DEF DecoderAction, Gap, DecoderPlaces
  <2> QED BY <2>2, <2>3, <2>4 DEF IInv
<1>8. CASE DecoderShow
  <2>1. \/ /\ At("decoder", "top") /\ screen' \in {screen, None} /\ UNCHANGED <<bitmaps, sb>>
        \/ /\ At("decoder", "top") /\ bitmaps # <<>> /\ Draw(Head(bitmaps)) /\ UNCHANGED sb
        \/ /\ At("decoder", "asleep") /\ bitmaps # <<>> /\ sb' = Head(bitmaps)
           /\ UNCHANGED <<bitmaps, screen>>
    BY <1>8 DEF DecoderShow
  <2>2. bitmaps' \in Seq(Packets)
    BY <1>0, <2>1, WithoutType DEF Lists, Draw
  <2>3. bitmaps # <<>> => Head(bitmaps) \in Packets
    BY <1>0 DEF Lists
  <2>4. screen' \in {screen, None} \/ (running /\ screen' \in Packets)
    BY <2>1, <2>3 DEF Draw
  <2>5. sb' = sb \/ sb' \in Packets
    BY <2>1, <2>3
  <2>6. /\ PcType' /\ pc'["reader"] = pc["reader"] /\ (\A d \in Clients : pc'[d] = pc[d])
        /\ pc'["decoder"] = "top" \/ (pc'["decoder"] = "asleep" /\ sb' \in Packets)
    BY <1>p, <2>1, <2>3 DEF DecoderPlaces
  <2>7. TypeOK'
    BY <1>0, <1>8, <2>2, <2>4, <2>5, <2>6, Elements DEF DecoderShow, TypeOK, PcType
  <2>8. Lists' /\ Held' /\ PausedShowsNothing'
    BY <1>0, <1>8, <2>2, <2>4, <2>6 DEF DecoderShow, Lists, Held, PausedShowsNothing
  <2>9. Gap'
    BY <1>0, <1>8, <2>6 DEF DecoderShow, Gap
  <2> QED BY <2>7, <2>8, <2>9 DEF IInv
<1>9. CASE DecoderAfterSleep
  <2>1. /\ (bitmaps' = Without(sb) \/ bitmaps' = bitmaps)
        /\ (screen' = screen \/ (running /\ screen' = sb))
        /\ dead' \in BOOLEAN /\ sb' = None
    BY <1>9 DEF DecoderAfterSleep, Draw
  <2>2. bitmaps' \in Seq(Packets) /\ sb \in Packets
    BY <1>0, <1>9, <2>1, WithoutType DEF DecoderAfterSleep, Lists, Held
  <2>3. /\ PcType' /\ pc'["reader"] = pc["reader"] /\ pc'["decoder"] = "top"
        /\ \A d \in Clients : pc'[d] = pc[d]
    BY <1>p, <1>9 DEF DecoderAfterSleep, DecoderPlaces
  <2>4. TypeOK'
    BY <1>0, <1>9, <2>1, <2>2, <2>3, Elements DEF DecoderAfterSleep, TypeOK, PcType
  <2>5. Lists' /\ Held' /\ PausedShowsNothing'
    BY <1>0, <1>9, <2>1, <2>2, <2>3 DEF DecoderAfterSleep, Lists, Held, PausedShowsNothing
  <2>6. Gap'
    BY <1>0, <1>9, <2>3 DEF DecoderAfterSleep, Gap
  <2> QED BY <2>4, <2>5, <2>6 DEF IInv
<1> QED BY <1>1, <1>2, <1>3, <1>4, <1>5, <1>6, <1>7, <1>8, <1>9 DEF Decoder

LEMMA NextInvariant == ASSUME IInv, [Next]_vars PROVE IInv'
<1>1. CASE Next
  BY <1>1, ClientKept, ReaderKept, DecoderKept DEF Next
<1>2. CASE UNCHANGED vars
  BY <1>2 DEF vars, call, control, shown, stream, decode, memory, IInv, TypeOK, Lists, Held,
     PausedShowsNothing, Gap
<1> QED BY <1>1, <1>2

LEMMA Invariance == Spec => []IInv
<1>1. IInv /\ [Next]_vars => IInv'
  BY NextInvariant
<1> QED BY <1>1, InitInvariant, PTL DEF Spec

-----------------------------------------------------------------------------
\* The variables have their types (dvbsub.cpp, dvbsubtitle.cpp:815-975).
THEOREM TypeCorrect == Spec => []TypeOK
<1>1. IInv => TypeOK
  BY DEF IInv
<1> QED BY <1>1, Invariance, PTL

\* A paused converter shows nothing (dvbsubtitle.cpp:828-842, 918-975).
THEOREM PausedIsDark == Spec => []PausedShowsNothing
<1>1. IInv => PausedShowsNothing
  BY DEF IInv
<1> QED BY <1>1, Invariance, PTL

\* A reader that waits although subtitles have been started has missed the broadcast
\* (dvbsub.cpp:134-190, 330-370).
THEOREM HangsAreMisses == Spec => []HangsOnlyIfMissed
<1>1. IInv => HangsOnlyIfMissed
  BY DEF IInv, Gap, HangsOnlyIfMissed
<1> QED BY <1>1, Invariance, PTL
=============================================================================
