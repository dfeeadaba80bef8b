------------------------- MODULE CurrentNextProofs -------------------------
(***************************************************************************)
(* The current and the next event are those of the channel that is         *)
(* watched, and the pauses of the demultiplexer are counted right: for any *)
(* channels and blacklists, any number of versions and any sequence of     *)
(* channel changes, pauses, questions and exits.                           *)
(***************************************************************************)
EXTENDS CurrentNext, SequenceTheorems, TLAPS

\* What the main loop may have before it: the commands and what remains of them, ordered by
\* what is still to be done to the counter of pauses and to scanning.
Stopped == {<<"settime", "broadcast", "pause", "count", "join", "joined">>,
            <<"broadcast", "pause", "count", "join", "joined">>,
            <<"pause", "count", "join", "joined">>, <<"count", "join", "joined">>,
            <<"join", "joined">>, <<"joined">>}
TurningOff == {<<"pause", "count", "off">>, <<"count", "off">>, <<"off">>}
TurningOn  == {<<"uncount", "unpause", "on", "change">>, <<"unpause", "on", "change">>,
               <<"on", "change">>}
Changing == {<<"pause", "count", "clear", "key", "service">>,
             <<"count", "clear", "key", "service">>,
             <<"uncount", "unpause", "clear", "key", "service">>,
             <<"unpause", "clear", "key", "service">>,
             <<"clear", "key", "service">>, <<"key", "service">>}
Counting == {<<"pause", "count">>, <<"count">>,
             <<"pause", "count", "clear", "key", "service">>,
             <<"count", "clear", "key", "service">>,
             <<"pause", "count", "off">>, <<"count", "off">>,
             <<"settime", "broadcast", "pause", "count", "join", "joined">>,
             <<"broadcast", "pause", "count", "join", "joined">>,
             <<"pause", "count", "join", "joined">>, <<"count", "join", "joined">>}
Uncounting == {<<"uncount", "unpause">>, <<"uncount", "unpause", "clear", "key", "service">>,
               <<"uncount", "unpause", "on", "change">>}
Others == {<<>>, <<"change">>, <<"service">>, <<"unpause">>}
Mains  == Stopped \cup TurningOff \cup TurningOn \cup Changing \cup Counting \cup Uncounting
              \cup Others

Pending == One(main \in Counting) - One(main \in Uncounting)
Off     == main \in TurningOff \/ (~scanning /\ main \notin TurningOn)

\* All that the history may hold.
Troubles == {"missed", "gaveup", "twice", "overtaken", "turned"}

\* The steps of the main loop belong to one command, and one that changes the channel has a
\* channel to change to.
Control ==
    /\ main \in Mains
    /\ main \in Changing => zapTo \in Channels
    /\ main \in TurningOff => scanning
    /\ main \in TurningOn => ~scanning

\* The thread has counted a pause of its own.
Twice == "twice" \in trouble

\* The pauses that are counted, with those to come, are one for a blacklisted channel, one
\* while scanning is off, one for the exit and the thread's own.
Account ==
    IF main \in Stopped
    THEN (real_pauseCounter + Pending) - (One(channel_is_blacklisted) + One(Twice)) \in {1, 2}
    ELSE real_pauseCounter + Pending = One(channel_is_blacklisted) + One(Off) + One(Twice)

\* It counts it once.
Once == cn \in Starting \ {"begin"} => ~Twice

\* The section in the buffer.
Held ==
    /\ cn \in {"check", "store"} => section # None
    /\ section # None => section.event.channel = section.channel

\* The events of the channel, and what is about to change them.
Watched ==
    /\ NowNextIsOfChannel
    /\ cn = "store" => section.channel = current_servicekey \/ "overtaken" \in trouble
    /\ main = <<"key", "service">> =>
          /\ (myCurrentEvent = None /\ myNextEvent = None) \/ "overtaken" \in trouble
          /\ cn = "store" => "overtaken" \in trouble

IInv == TypeOK /\ Control /\ Account /\ Once /\ Held /\ Watched

-----------------------------------------------------------------------------
\* The commands are sequences of steps.
LEMMA MainsAreSteps ==
    Mains \subseteq Seq({"pause", "count", "uncount", "unpause", "change", "service",
                         "settime", "broadcast", "clear", "key", "off", "on", "join", "joined"})
  BY DEF Mains, Stopped, TurningOff, TurningOn, Changing, Counting, Uncounting, Others

\* What remains of a command after its first step.
Steps(m, rest) ==
    /\ rest \in Mains
    /\ rest \in Stopped    <=> m \in Stopped
    /\ rest \in TurningOff <=> m \in TurningOff /\ Head(m) # "off"
    /\ rest \in TurningOn  <=> m \in TurningOn /\ Head(m) # "on"
    /\ rest \in Counting   <=> m \in Counting /\ Head(m) # "count"
    /\ rest \in Uncounting <=> m \in Uncounting /\ Head(m) # "uncount"
    /\ rest \in Changing    => m \in Changing
    /\ rest = <<"key", "service">> => Head(m) = "clear"
    /\ Head(m) = "off"     => m \in TurningOff
    /\ Head(m) = "on"      => m \in TurningOn
    /\ Head(m) = "count"   => m \in Counting
    /\ Head(m) = "uncount" => m \in Uncounting
    /\ Head(m) = "key"     => m = <<"key", "service">>

LEMMA StepsOfCommand ==
    ASSUME NEW m \in Mains, m # <<>>, Head(m) # "joined"
    PROVE  Steps(m, Tail(m))
<1> USE DEF Steps, Mains, Stopped, TurningOff, TurningOn, Changing, Counting, Uncounting, Others
<1>1. CASE m = <<"broadcast", "pause", "count", "join", "joined">>
  <2>1. Head(m) = "broadcast" /\ Tail(m) = <<"pause", "count", "join", "joined">>
    BY <1>1
  <2> QED BY <1>1, <2>1
<1>2. CASE m = <<"pause", "count", "join", "joined">>
  <2>1. Head(m) = "pause" /\ Tail(m) = <<"count", "join", "joined">>
    BY <1>2
  <2> QED BY <1>2, <2>1
<1>3. CASE m = <<"count", "join", "joined">>
  <2>1. Head(m) = "count" /\ Tail(m) = <<"join", "joined">>
    BY <1>3
  <2> QED BY <1>3, <2>1
<1>4. CASE m = <<"join", "joined">>
  <2>1. Head(m) = "join" /\ Tail(m) = <<"joined">>
    BY <1>4
  <2> QED BY <1>4, <2>1
<1>5. CASE m = <<"pause", "count", "off">>
  <2>1. Head(m) = "pause" /\ Tail(m) = <<"count", "off">>
    BY <1>5
  <2> QED BY <1>5, <2>1
<1>6. CASE m = <<"count", "off">>
  <2>1. Head(m) = "count" /\ Tail(m) = <<"off">>
    BY <1>6
  <2> QED BY <1>6, <2>1
<1>7. CASE m = <<"off">>
  <2>1. Head(m) = "off" /\ Tail(m) = <<>>
    BY <1>7
  <2> QED BY <1>7, <2>1
<1>8. CASE m = <<"uncount", "unpause", "on", "change">>
  <2>1. Head(m) = "uncount" /\ Tail(m) = <<"unpause", "on", "change">>
    BY <1>8
  <2> QED BY <1>8, <2>1
<1>9. CASE m = <<"unpause", "on", "change">>
  <2>1. Head(m) = "unpause" /\ Tail(m) = <<"on", "change">>
    BY <1>9
  <2> QED BY <1>9, <2>1
<1>10. CASE m = <<"on", "change">>
  <2>1. Head(m) = "on" /\ Tail(m) = <<"change">>
    BY <1>10
  <2> QED BY <1>10, <2>1
<1>11. CASE m = <<"change">>
  <2>1. Head(m) = "change" /\ Tail(m) = <<>>
    BY <1>11
  <2> QED BY <1>11, <2>1
<1>12. CASE m = <<"pause", "count", "clear", "key", "service">>
  <2>1. Head(m) = "pause" /\ Tail(m) = <<"count", "clear", "key", "service">>
    BY <1>12
  <2> QED BY <1>12, <2>1
<1>13. CASE m = <<"count", "clear", "key", "service">>
  <2>1. Head(m) = "count" /\ Tail(m) = <<"clear", "key", "service">>
    BY <1>13
  <2> QED BY <1>13, <2>1
<1>14. CASE m = <<"uncount", "unpause", "clear", "key", "service">>
  <2>1. Head(m) = "uncount" /\ Tail(m) = <<"unpause", "clear", "key", "service">>
    BY <1>14
  <2> QED BY <1>14, <2>1
<1>15. CASE m = <<"unpause", "clear", "key", "service">>
  <2>1. Head(m) = "unpause" /\ Tail(m) = <<"clear", "key", "service">>
    BY <1>15
  <2> QED BY <1>15, <2>1
<1>16. CASE m = <<"clear", "key", "service">>
  <2>1. Head(m) = "clear" /\ Tail(m) = <<"key", "service">>
    BY <1>16
  <2> QED BY <1>16, <2>1
<1>17. CASE m = <<"key", "service">>
  <2>1. Head(m) = "key" /\ Tail(m) = <<"service">>
    BY <1>17
  <2> QED BY <1>17, <2>1
<1>18. CASE m = <<"service">>
  <2>1. Head(m) = "service" /\ Tail(m) = <<>>
    BY <1>18
  <2> QED BY <1>18, <2>1
<1>19. CASE m = <<"pause", "count">>
  <2>1. Head(m) = "pause" /\ Tail(m) = <<"count">>
    BY <1>19
  <2> QED BY <1>19, <2>1
<1>20. CASE m = <<"count">>
  <2>1. Head(m) = "count" /\ Tail(m) = <<>>
    BY <1>20
  <2> QED BY <1>20, <2>1
<1>21. CASE m = <<"uncount", "unpause">>
  <2>1. Head(m) = "uncount" /\ Tail(m) = <<"unpause">>
    BY <1>21
  <2> QED BY <1>21, <2>1
<1>22. CASE m = <<"unpause">>
  <2>1. Head(m) = "unpause" /\ Tail(m) = <<>>
    BY <1>22
  <2> QED BY <1>22, <2>1
<1>23. CASE m = <<"settime", "broadcast", "pause", "count", "join", "joined">>
  <2>1. Head(m) = "settime" /\ Tail(m) = <<"broadcast", "pause", "count", "join", "joined">>
    BY <1>23
  <2> QED BY <1>23, <2>1
<1>24. m # <<"joined">>
  BY Head(<<"joined">>) = "joined"
<1> HIDE DEF Steps
<1> QED BY <1>1, <1>2, <1>3, <1>4, <1>5, <1>6, <1>7, <1>8, <1>9, <1>10, <1>11, <1>12, <1>13, <1>14,
           <1>15, <1>16, <1>17, <1>18, <1>19, <1>20, <1>21, <1>22, <1>23, <1>24

\* Two sequences in a row.
LEMMA Joined ==
    ASSUME NEW S, NEW s \in Seq(S), NEW t \in Seq(S), NEW u \in Seq(S), Len(u) = Len(s) + Len(t),
           \A i \in 1..Len(s) : u[i] = s[i], \A i \in 1..Len(t) : u[Len(s) + i] = t[i]
    PROVE  s \o t = u
<1>1. s \o t \in Seq(S) /\ Len(s \o t) = Len(s) + Len(t)
  OBVIOUS
<1>2. ASSUME NEW i \in 1..Len(s \o t) PROVE (s \o t)[i] = u[i]
  <2>1. CASE i <= Len(s)
    BY <1>1, <2>1, ConcatProperties
  <2>2. CASE i > Len(s)
    <3>1. i - Len(s) \in 1..Len(t) /\ Len(s) + (i - Len(s)) = i
      BY <1>1, <2>2
    <3>2. (s \o t)[i] = t[i - Len(s)]
      BY <1>1, <2>2, ConcatProperties
    <3> QED BY <3>1, <3>2
  <2> QED BY <1>1, <2>1, <2>2
<1> QED BY <1>1, <1>2, SeqEqual

\* The commands as they begin.
LEMMA Commands ==
    /\ request_pause = <<"pause", "count">> /\ request_unpause = <<"uncount", "unpause">>
    /\ request_pause \o <<>> = <<"pause", "count">>
    /\ request_unpause \o <<>> = <<"uncount", "unpause">>
    /\ <<>> \o <<>> = <<>>
    /\ <<>> \o <<"clear", "key", "service">> = <<"clear", "key", "service">>
    /\ request_pause \o <<"clear", "key", "service">> =
           <<"pause", "count", "clear", "key", "service">>
    /\ request_unpause \o <<"clear", "key", "service">> =
           <<"uncount", "unpause", "clear", "key", "service">>
    /\ request_pause \o <<"off">> = <<"pause", "count", "off">>
    /\ request_unpause \o <<"on", "change">> = <<"uncount", "unpause", "on", "change">>
    /\ <<"settime", "broadcast">> \o request_pause \o <<"join", "joined">> =
           <<"settime", "broadcast", "pause", "count", "join", "joined">>
<1> DEFINE S == {"pause", "count", "uncount", "unpause", "change", "service", "settime",
                 "broadcast", "clear", "key", "off", "on", "join", "joined"}
<1> USE DEF request_pause, request_unpause
<1>1. /\ request_pause \in Seq(S) /\ request_unpause \in Seq(S)
      /\ <<>> \in Seq(S) /\ <<"clear", "key", "service">> \in Seq(S)
  OBVIOUS
<1>2. /\ request_pause \o <<>> = <<"pause", "count">>
      /\ request_unpause \o <<>> = <<"uncount", "unpause">>
      /\ <<>> \o <<>> = <<>>
      /\ <<>> \o <<"clear", "key", "service">> = <<"clear", "key", "service">>
  <2> HIDE DEF S
  <2> QED BY <1>1, ConcatEmptySeq
<1>3. request_pause \o <<"clear", "key", "service">> =
        <<"pause", "count", "clear", "key", "service">>
  <2> DEFINE s == <<"pause", "count">>
             t == <<"clear", "key", "service">>
             u == <<"pause", "count", "clear", "key", "service">>
  <2>1. s \in Seq(S) /\ t \in Seq(S) /\ u \in Seq(S)
    OBVIOUS
  <2>2. Len(s) = 2 /\ Len(t) = 3 /\ Len(u) = 5
    OBVIOUS
  <2>3. \A i \in 1..2 : u[i] = s[i]
    OBVIOUS
  <2>4. \A i \in 1..3 : u[2 + i] = t[i]
    OBVIOUS
  <2> HIDE DEF s, t, u, S
  <2>5. Len(u) = Len(s) + Len(t) /\ \A i \in 1..Len(s) : u[i] = s[i]
    BY <2>2, <2>3
  <2>6. \A i \in 1..Len(t) : u[Len(s) + i] = t[i]
    BY <2>2, <2>4
  <2>7. s \o t = u
    BY ONLY <2>1, <2>5, <2>6, Joined
  <2> QED BY <2>7 DEF s, t, u
<1>4. request_unpause \o <<"clear", "key", "service">> =
        <<"uncount", "unpause", "clear", "key", "service">>
  <2> DEFINE s == <<"uncount", "unpause">>
             t == <<"clear", "key", "service">>
             u == <<"uncount", "unpause", "clear", "key", "service">>
  <2>1. s \in Seq(S) /\ t \in Seq(S) /\ u \in Seq(S)
    OBVIOUS
  <2>2. Len(s) = 2 /\ Len(t) = 3 /\ Len(u) = 5
    OBVIOUS
  <2>3. \A i \in 1..2 : u[i] = s[i]
    OBVIOUS
  <2>4. \A i \in 1..3 : u[2 + i] = t[i]
    OBVIOUS
  <2> HIDE DEF s, t, u, S
  <2>5. Len(u) = Len(s) + Len(t) /\ \A i \in 1..Len(s) : u[i] = s[i]
    BY <2>2, <2>3
  <2>6. \A i \in 1..Len(t) : u[Len(s) + i] = t[i]
    BY <2>2, <2>4
  <2>7. s \o t = u
    BY ONLY <2>1, <2>5, <2>6, Joined
  <2> QED BY <2>7 DEF s, t, u
<1>5. request_pause \o <<"off">> =
        <<"pause", "count", "off">>
  <2> DEFINE s == <<"pause", "count">>
             t == <<"off">>
             u == <<"pause", "count", "off">>
  <2>1. s \in Seq(S) /\ t \in Seq(S) /\ u \in Seq(S)
    OBVIOUS
  <2>2. Len(s) = 2 /\ Len(t) = 1 /\ Len(u) = 3
    OBVIOUS
  <2>3. \A i \in 1..2 : u[i] = s[i]
    OBVIOUS
  <2>4. \A i \in 1..1 : u[2 + i] = t[i]
    OBVIOUS
  <2> HIDE DEF s, t, u, S
  <2>5. Len(u) = Len(s) + Len(t) /\ \A i \in 1..Len(s) : u[i] = s[i]
    BY <2>2, <2>3
  <2>6. \A i \in 1..Len(t) : u[Len(s) + i] = t[i]
    BY <2>2, <2>4
  <2>7. s \o t = u
    BY ONLY <2>1, <2>5, <2>6, Joined
  <2> QED BY <2>7 DEF s, t, u
<1>6. request_unpause \o <<"on", "change">> =
        <<"uncount", "unpause", "on", "change">>
  <2> DEFINE s == <<"uncount", "unpause">>
             t == <<"on", "change">>
             u == <<"uncount", "unpause", "on", "change">>
  <2>1. s \in Seq(S) /\ t \in Seq(S) /\ u \in Seq(S)
    OBVIOUS
  <2>2. Len(s) = 2 /\ Len(t) = 2 /\ Len(u) = 4
    OBVIOUS
  <2>3. \A i \in 1..2 : u[i] = s[i]
    OBVIOUS
  <2>4. \A i \in 1..2 : u[2 + i] = t[i]
    OBVIOUS
  <2> HIDE DEF s, t, u, S
  <2>5. Len(u) = Len(s) + Len(t) /\ \A i \in 1..Len(s) : u[i] = s[i]
    BY <2>2, <2>3
  <2>6. \A i \in 1..Len(t) : u[Len(s) + i] = t[i]
    BY <2>2, <2>4
  <2>7. s \o t = u
    BY ONLY <2>1, <2>5, <2>6, Joined
  <2> QED BY <2>7 DEF s, t, u
<1>7. <<"settime", "broadcast">> \o request_pause =
        <<"settime", "broadcast", "pause", "count">>
  <2> DEFINE s == <<"settime", "broadcast">>
             t == <<"pause", "count">>
             u == <<"settime", "broadcast", "pause", "count">>
  <2>1. s \in Seq(S) /\ t \in Seq(S) /\ u \in Seq(S)
    OBVIOUS
  <2>2. Len(s) = 2 /\ Len(t) = 2 /\ Len(u) = 4
    OBVIOUS
  <2>3. \A i \in 1..2 : u[i] = s[i]
    OBVIOUS
  <2>4. \A i \in 1..2 : u[2 + i] = t[i]
    OBVIOUS
  <2> HIDE DEF s, t, u, S
  <2>5. Len(u) = Len(s) + Len(t) /\ \A i \in 1..Len(s) : u[i] = s[i]
    BY <2>2, <2>3
  <2>6. \A i \in 1..Len(t) : u[Len(s) + i] = t[i]
    BY <2>2, <2>4
  <2>7. s \o t = u
    BY ONLY <2>1, <2>5, <2>6, Joined
  <2> QED BY <2>7 DEF s, t, u
<1>8. <<"settime", "broadcast", "pause", "count">> \o <<"join", "joined">> =
        <<"settime", "broadcast", "pause", "count", "join", "joined">>
  <2> DEFINE s == <<"settime", "broadcast", "pause", "count">>
             t == <<"join", "joined">>
             u == <<"settime", "broadcast", "pause", "count", "join", "joined">>
  <2>1. s \in Seq(S) /\ t \in Seq(S) /\ u \in Seq(S)
    OBVIOUS
  <2>2. Len(s) = 4 /\ Len(t) = 2 /\ Len(u) = 6
    OBVIOUS
  <2>3. \A i \in 1..4 : u[i] = s[i]
    OBVIOUS
  <2>4. \A i \in 1..2 : u[4 + i] = t[i]
    OBVIOUS
  <2> HIDE DEF s, t, u, S
  <2>5. Len(u) = Len(s) + Len(t) /\ \A i \in 1..Len(s) : u[i] = s[i]
    BY <2>2, <2>3
  <2>6. \A i \in 1..Len(t) : u[Len(s) + i] = t[i]
    BY <2>2, <2>4
  <2>7. s \o t = u
    BY ONLY <2>1, <2>5, <2>6, Joined
  <2> QED BY <2>7 DEF s, t, u
<1> HIDE DEF S
<1> QED BY <1>2, <1>3, <1>4, <1>5, <1>6, <1>7, <1>8

-----------------------------------------------------------------------------
LEMMA InitInvariant == Init => IInv
<1> SUFFICES ASSUME Init PROVE IInv
  OBVIOUS
<1>1. main = <<>> /\ zapTo = None /\ scanning = TRUE /\ channel_is_blacklisted = FALSE
      /\ real_pauseCounter = 0 /\ trouble = {}
  BY DEF Init
<1>2. main \in Mains /\ main \notin Stopped /\ main \notin TurningOff /\ main \notin TurningOn
      /\ main \notin Changing /\ main \notin Counting /\ main \notin Uncounting
      /\ main # <<"key", "service">>
  BY <1>1 DEF Mains, Stopped, TurningOff, TurningOn, Changing, Counting, Uncounting, Others
<1>3. Control
  BY <1>2 DEF Control
<1>4. Account
  BY <1>1, <1>2 DEF Account, Pending, Off, Twice, One
<1>5. Once /\ Held /\ Watched
  BY <1>1, <1>2 DEF Init, Once, Twice, Held, Watched, NowNextIsOfChannel
<1>6. TypeOK
  <2>1. main \in Seq({"pause", "count", "uncount", "unpause", "change", "service",
                     "settime", "broadcast", "clear", "key", "off", "on", "join", "joined"})
    BY <1>2, MainsAreSteps
  <2>2. broadcast \in [Channels -> Versions \cup {None}]
    BY ConstantsAssumption DEF Init, Versions
  <2>3. {current_service, current_servicekey} \subseteq Channels \cup {None}
    BY DEF Init
  <2>4. inputs \in 0..MaxInputs
    BY ConstantsAssumption DEF Init
  <2>5. blacklist \in Blacklists
    BY DEF Init
  <2>6. cn \in Places /\ section \in Sections \cup {None}
        /\ filter \in [channel : Channels \cup {None}, parity : {0, 1}] \cup {None}
        /\ {myCurrentEvent, myNextEvent} \subseteq Events \cup {None}
        /\ eit_version \in Versions \cup {None} /\ zapTo \in Channels \cup {None}
    BY ConstantsAssumption DEF Init, Places, Starting, Versions
  <2>7. {sendToSleepNow, dmx, open, need_eit_version, scanning, channel_is_blacklisted,
         sectionsd_stop, timeset} \subseteq BOOLEAN
    BY DEF Init
  <2>8. real_pauseCounter \in 0..4 /\ got_CN \subseteq Both /\ trouble = {} /\ asker = "idle"
    BY DEF Init
  <2> QED BY <2>1, <2>2, <2>3, <2>4, <2>5, <2>6, <2>7, <2>8 DEF TypeOK
<1> QED BY <1>3, <1>4, <1>5, <1>6 DEF IInv

-----------------------------------------------------------------------------
\* What is broadcast are sections, with events of their channel.
LEMMA OnAirType ==
    ASSUME TypeOK, NEW s \in OnAir
    PROVE  s \in Sections /\ s.event.channel = s.channel
<1>1. PICK c \in Channels, kind \in Both : broadcast[c] # None /\ s = Section(c, kind)
  BY DEF OnAir
<1>2. broadcast[c] \in 0..MaxVersion
  BY <1>1 DEF TypeOK, Versions
<1> DEFINE n == broadcast[c] + IF kind = "next" THEN 1 ELSE 0
<1>3. n \in 0..(MaxVersion + 1)
  BY <1>2, ConstantsAssumption
<1>4. s = [channel |-> c, version |-> broadcast[c], kind |-> kind,
           event |-> [channel |-> c, number |-> n]]
  BY <1>1 DEF Section, Event
<1> HIDE DEF n
<1>5. [channel |-> c, number |-> n] \in Events
  BY <1>3 DEF Events
<1> QED BY <1>2, <1>4, <1>5 DEF Sections, Versions

\* The state of the commands is left alone.
LEMMA CommandKept ==
    ASSUME Control, Account,
           main' = main, zapTo' = zapTo, scanning' = scanning,
           channel_is_blacklisted' = channel_is_blacklisted,
           real_pauseCounter' = real_pauseCounter,
           "twice" \in trouble' <=> "twice" \in trouble
    PROVE  Control' /\ Account'
  BY DEF Control, Account, Pending, Off, Twice, One

\* The thread's own pause is left alone.
LEMMA OnceKept ==
    ASSUME Once, "twice" \in trouble' <=> "twice" \in trouble,
           cn' \in Starting \ {"begin"} => cn \in Starting \ {"begin"}
    PROVE  Once'
  BY DEF Once, Twice

\* The events and their channel are left alone, and nothing new is about to be stored.
LEMMA WatchedKept ==
    ASSUME Watched,
           myCurrentEvent' = myCurrentEvent, myNextEvent' = myNextEvent,
           current_servicekey' = current_servicekey,
           "overtaken" \in trouble => "overtaken" \in trouble',
           cn' = "store" => cn = "store" /\ section' = section,
           main' = <<"key", "service">> => main = <<"key", "service">>
    PROVE  Watched'
  BY DEF Watched, NowNextIsOfChannel

\* The section in the buffer is left alone or dropped.
LEMMA HeldKept ==
    ASSUME Held, section' \in {section, None}, cn' \in {"check", "store"} => section' # None
    PROVE  Held'
  BY DEF Held

-----------------------------------------------------------------------------
(* The thread that reads the sections *)

\* The start of the thread, and its wait for the time: it may count a pause of its own.
LEMMA StartKeeps ==
    ASSUME IInv, Start \/ Own \/ OwnPause \/ OwnCount \/ Begin \/ TestTime \/ WaitForTime
    PROVE  IInv'
<1>1. TypeOK /\ Control /\ Account /\ Once /\ Held /\ Watched
  BY DEF IInv
<1>2. UNCHANGED <<main, zapTo, scanning, channel_is_blacklisted, section, sendToSleepNow,
                  current_service, filter, messaging, events, switches, blacklist, asker,
                  broadcast, inputs>>
  BY DEF Start, Own, OwnPause, OwnCount, Begin, TestTime, WaitForTime, switches, server
<1>3. /\ cn' \in {"own", "ownpause", "owncount", "begin", "time", "top", "timegap", "timewait"}
      /\ cn' \in {"own", "ownpause", "owncount"} => cn \in {"start", "own", "ownpause"}
      /\ dmx' \in BOOLEAN /\ open' \in BOOLEAN /\ eit_version' \in Versions \cup {None}
      /\ need_eit_version' \in BOOLEAN
  BY <1>1 DEF Start, Own, OwnPause, OwnCount, Begin, TestTime, WaitForTime, ImmediateStart,
     RealPause, demux, TypeOK
<1>4. /\ Control' /\ Account' /\ Once' /\ real_pauseCounter' \in 0..4
      /\ trouble' \subseteq Troubles /\ ("overtaken" \in trouble => "overtaken" \in trouble')
  <2>1. CASE OwnCount
    <3>1. /\ real_pauseCounter' = real_pauseCounter + 1 /\ ~Twice /\ Twice'
          /\ trouble' = trouble \cup {"twice"} /\ cn' = "begin"
      BY <1>1, <2>1 DEF OwnCount, Once, Twice, Starting
    <3>2. Control' /\ Once' /\ trouble' \subseteq Troubles
      BY <1>1, <1>2, <3>1 DEF Control, Once, TypeOK, Troubles
    <3>3. /\ One(Twice) = 0 /\ One(Twice)' = 1
          /\ Pending' = Pending /\ Pending \in {-1, 0, 1}
          /\ One(Off)' = One(Off) /\ One(Off) \in {0, 1}
          /\ One(channel_is_blacklisted)' = One(channel_is_blacklisted)
          /\ One(channel_is_blacklisted) \in {0, 1}
      BY <1>2, <3>1 DEF One, Pending, Off
    <3>4. real_pauseCounter \in 0..4
      BY <1>1 DEF TypeOK
    <3> DEFINE n == real_pauseCounter
               b == One(channel_is_blacklisted)
    <3>5. IF main \in Stopped THEN (n + Pending) - (b + 0) \in {1, 2}
          ELSE n + Pending = b + One(Off) + 0
      BY <1>1, <3>3 DEF Account
    <3>6. IF main \in Stopped THEN (n' + Pending') - (b' + 1) \in {1, 2}
          ELSE n' + Pending' = b' + One(Off)' + 1
      BY <3>1, <3>3, <3>4, <3>5
    <3>7. Account'
      BY <1>2, <3>3, <3>6 DEF Account
    <3>8. real_pauseCounter' \in 0..4
      <4>1. n' = n + 1 /\ n \in 0..4
        BY <3>1, <3>4
      <4>2. n <= 3
        <5>1. main \in Uncounting => main \notin Stopped
          BY DEF Uncounting, Stopped
        <5>2. Pending = -1 => main \in Uncounting
          BY DEF Pending, One
        <5>3. main \in Stopped => Pending \in {0, 1}
          BY <3>3, <5>1, <5>2
        <5> QED BY <3>3, <3>5, <4>1, <5>3
      <4> QED BY <4>1, <4>2
    <3> QED BY <3>1, <3>2, <3>7, <3>8
  <2>2. CASE Start \/ Own \/ OwnPause \/ Begin \/ TestTime \/ WaitForTime
    <3>1. UNCHANGED <<real_pauseCounter, trouble>>
      BY <2>2 DEF Start, Own, OwnPause, Begin, TestTime, WaitForTime, ImmediateStart, RealPause,
         demux
    <3>2. Control' /\ Account'
      BY <1>1, <1>2, <3>1, CommandKept
    <3>3. Once'
      BY <1>1, <1>3, <3>1, OnceKept DEF Starting
    <3> QED BY <1>1, <3>1, <3>2, <3>3 DEF TypeOK, Troubles
  <2> QED BY <2>1, <2>2
<1>5. Held'
  BY <1>1, <1>2, <1>3, HeldKept
<1>6. Watched'
  BY <1>1, <1>2, <1>3, <1>4, WatchedKept DEF messaging, events
<1>7. TypeOK'
  BY <1>1, <1>2, <1>3, <1>4 DEF TypeOK, Troubles, Places, Starting, messaging, events, switches
<1> QED BY <1>4, <1>5, <1>6, <1>7 DEF IInv

\* Reading touches the buffer and the demultiplexer.
LEMMA ReadKeeps == ASSUME IInv, Read \/ Reopen PROVE IInv'
<1>1. TypeOK /\ Control /\ Account /\ Once /\ Held /\ Watched
  BY DEF IInv
<1>2. UNCHANGED <<main, zapTo, scanning, channel_is_blacklisted, real_pauseCounter, myCurrentEvent,
                  myNextEvent, current_servicekey, trouble>>
  BY DEF Read, ReadSection, ReadUnmade, ReadNothing, ReadGarbage, Reopen, RealPause, RealUnpause,
         ImmediateStart, demux, switches, server, events, messaging
<1>3. cn' \in {"version", "reopen", "crashed"}
  BY DEF Read, ReadSection, ReadUnmade, ReadNothing, ReadGarbage, Reopen
<1>4. Control' /\ Account'
  BY <1>1, <1>2, CommandKept
<1>5. Watched' /\ Once'
  BY <1>1, <1>2, <1>3, WatchedKept, OnceKept DEF Starting
<1>6. TypeOK' /\ Held'
  <2> USE DEF demux, messaging, events, switches, server, TypeOK, Places, Held
  <2>1. CASE Reopen
    <3>1. CASE real_pauseCounter = 0
      BY <1>1, <1>3, <2>1, <3>1 DEF Reopen, RealUnpause, ImmediateStart
    <3>2. CASE real_pauseCounter # 0
      BY <1>1, <1>3, <2>1, <3>2 DEF Reopen, RealUnpause
    <3> QED BY <3>1, <3>2
  <2>2. CASE ReadNothing
    BY <1>1, <1>3, <2>2 DEF ReadNothing
  <2>3. CASE ReadGarbage
    BY <1>1, <1>3, <2>3 DEF ReadGarbage, RealPause
  <2>4. CASE ReadUnmade
    BY <1>1, <1>3, <2>4 DEF ReadUnmade
  <2>5. ASSUME NEW s \in OnAir, ReadSection(s) PROVE TypeOK' /\ Held'
    <3>1. s \in Sections /\ s.event.channel = s.channel /\ s.version \in Versions
      BY <1>1, OnAirType DEF Sections
    <3>2. Held'
      BY <3>1, <2>5 DEF ReadSection
    <3>3. TypeOK'
      BY <1>1, <3>1, <2>5 DEF ReadSection
    <3> QED BY <3>2, <3>3
  <2> QED BY <2>1, <2>2, <2>3, <2>4, <2>5 DEF Read
<1> QED BY <1>1, <1>4, <1>5, <1>6 DEF IInv

\* The thread decides whether to sleep, and sleeps.
LEMMA SleepKeeps ==
    ASSUME IInv, Top \/ Version \/ Have \/ Decide \/ Pause \/ Wait \/ Woken PROVE IInv'
<1>1. TypeOK /\ Control /\ Account /\ Once /\ Held /\ Watched
  BY DEF IInv
<1>2. UNCHANGED <<main, zapTo, scanning, channel_is_blacklisted, real_pauseCounter, myCurrentEvent,
                  myNextEvent, current_servicekey>>
  BY DEF Top, Version, Have, Decide, Pause, Wait, Woken, RealPause, demux, switches, server,
         events, messaging
<1>3. /\ section' \in {section, None} /\ cn' # "store" /\ (cn' = "check" => section' # None)
      /\ cn' \notin Starting
  BY DEF Top, Version, Have, Decide, Pause, Wait, Woken, Starting
<1>4. trouble \subseteq trouble' /\ trouble' \subseteq trouble \cup {"gaveup"}
  BY DEF Top, Version, Have, Decide, Pause, Wait, Woken, GivesUp
<1>5. Control' /\ Account' /\ Once'
  BY <1>1, <1>2, <1>3, <1>4, CommandKept, OnceKept
<1>6. Watched'
  BY <1>1, <1>2, <1>3, <1>4, WatchedKept
<1>7. Held'
  BY <1>1, <1>3, HeldKept
<1>8. TypeOK'
  <2>1. trouble' \subseteq {"missed", "gaveup", "twice", "overtaken", "turned"}
    BY <1>1, <1>4 DEF TypeOK
  <2> USE DEF demux, messaging, events, switches, server, TypeOK, Places
  <2>2. CASE Top
    BY <1>1, <2>1, <2>2 DEF Top
  <2>3. CASE Version
    BY <1>1, <2>1, <2>3 DEF Version
  <2>4. CASE Have
    BY <1>1, <2>1, <2>4 DEF Have
  <2>5. CASE Decide
    BY <1>1, <2>1, <2>5 DEF Decide
  <2>6. CASE Pause
    BY <1>1, <2>1, <2>6 DEF Pause, RealPause
  <2>7. CASE Wait
    <3>1. (eit_version # None => (eit_version + 1) % 2 \in {0, 1})
      BY <1>1, ConstantsAssumption DEF Versions
    <3>2. filter' \in [channel : Channels \cup {None}, parity : {0, 1}] \cup {None}
      BY <1>1, <2>7, <3>1 DEF Wait, eit_set_update_filter
    <3> QED BY <1>1, <2>1, <2>7, <3>2 DEF Wait
  <2>8. CASE Woken
    BY <1>1, <2>1, <2>8 DEF Woken
  <2> QED BY <2>2, <2>3, <2>4, <2>5, <2>6, <2>7, <2>8
<1> QED BY <1>5, <1>6, <1>7, <1>8 DEF IInv

\* The look at the key, and the store.  A store whose channel is no longer the one that is
\* watched has been overtaken.
LEMMA CheckKeeps == ASSUME IInv, Check PROVE IInv'
<1>1. TypeOK /\ Control /\ Account /\ Once /\ Held /\ Watched
  BY DEF IInv
<1>2. UNCHANGED <<main, zapTo, scanning, channel_is_blacklisted, real_pauseCounter, myCurrentEvent,
                  myNextEvent, current_servicekey>>
  BY DEF Check, demux, switches, server, events, messaging
<1>3. trouble \subseteq trouble' /\ trouble' \subseteq trouble \cup {"overtaken"}
      /\ cn' \notin Starting
  BY DEF Check, Overtaken, Starting
<1>4. Control' /\ Account' /\ Once'
  BY <1>1, <1>2, <1>3, CommandKept, OnceKept
<1>5. section' \in {section, None} /\ (cn' \in {"check", "store"} => section' # None)
  BY <1>1 DEF Check, Held
<1>6. cn' = "store" => section' = section /\ section.channel = current_servicekey
  BY DEF Check, IsWanted
<1>7. cn' = "store" /\ main = <<"key", "service">> => "overtaken" \in trouble'
  <2>1. main = <<"key", "service">> => main # <<>> /\ Head(main) = "key"
    OBVIOUS
  <2> QED BY <2>1 DEF Check, Overtaken
<1>8. Watched'
  BY <1>1, <1>2, <1>3, <1>6, <1>7 DEF Watched, NowNextIsOfChannel
<1>9. Held'
  BY <1>1, <1>5, HeldKept
<1>10. TypeOK'
  BY <1>1 DEF Check, Overtaken, demux, messaging, events, switches, server, TypeOK, Places
<1> QED BY <1>4, <1>8, <1>9, <1>10 DEF IInv

LEMMA StoreKeeps == ASSUME IInv, Store PROVE IInv'
<1>1. TypeOK /\ Control /\ Account /\ Once /\ Held /\ Watched
  BY DEF IInv
<1>2. UNCHANGED <<main, zapTo, scanning, channel_is_blacklisted, real_pauseCounter, trouble,
                  current_servicekey>>
  BY DEF Store, StoreCurrent, StoreNext, demux, switches, server, events, messaging
<1>3. Control' /\ Account' /\ Once'
  <2>1. cn' \notin Starting
    BY DEF Store, Starting
  <2> QED BY <1>1, <1>2, <2>1, CommandKept, OnceKept
<1>4. cn = "store" /\ cn' = "top" /\ section' = None
  BY DEF Store
<1>5. Held'
  BY <1>4 DEF Held
<1> DEFINE e == section.event
<1>6. section \in Sections /\ e \in Events
  BY <1>1, <1>4 DEF Held, TypeOK, Sections
<1>7. e.channel = current_servicekey \/ "overtaken" \in trouble
  BY <1>1, <1>4 DEF Held, Watched
<1>8. \A x \in {myCurrentEvent', myNextEvent'} \ {None} : x \in {myCurrentEvent, myNextEvent, e}
  BY DEF Store, StoreCurrent, StoreNext, events
<1>9. Watched'
  <2>1. NowNextIsOfChannel'
    BY <1>1, <1>2, <1>7, <1>8 DEF Watched, NowNextIsOfChannel
  <2>2. main = <<"key", "service">> => "overtaken" \in trouble
    BY <1>1, <1>4 DEF Watched
  <2> QED BY <2>1, <2>2, <1>2, <1>4 DEF Watched
<1>10. {myCurrentEvent', myNextEvent'} \subseteq Events \cup {None} /\ got_CN' \subseteq Both
  BY <1>1, <1>6, <1>8 DEF TypeOK, Store, StoreCurrent, StoreNext, events, Both
<1>11. TypeOK'
  <2>1. inputs' = inputs
    BY DEF Store, StoreCurrent, StoreNext
  <2> QED BY <1>1, <1>2, <1>4, <1>10, <2>1
       DEF Store, demux, messaging, events, switches, server, TypeOK, Places
<1> QED BY <1>3, <1>5, <1>9, <1>11 DEF IInv

LEMMA ThreadKeeps == ASSUME IInv, cnThread PROVE IInv'
  BY StartKeeps, ReadKeeps, SleepKeeps, CheckKeeps, StoreKeeps DEF cnThread

-----------------------------------------------------------------------------
(* The main loop *)

\* A command begins when there is none.  What it counts and uncounts is what is to change of
\* the blacklist and of scanning.
LEMMA Idle ==
    ASSUME Control, Account, real_pauseCounter \in Int, main = <<>>
    PROVE  real_pauseCounter = One(channel_is_blacklisted) + One(~scanning) + One(Twice)
<1>1. /\ main \notin Stopped /\ main \notin TurningOff /\ main \notin TurningOn
      /\ main \notin Counting /\ main \notin Uncounting
  BY DEF Stopped, TurningOff, TurningOn, Counting, Uncounting
<1>2. Pending = 0
  BY <1>1 DEF Pending, One
<1>3. One(Off) = One(~scanning)
  BY <1>1 DEF Off, One
<1>4. real_pauseCounter + Pending = One(channel_is_blacklisted) + One(Off) + One(Twice)
  BY <1>1 DEF Account
<1> QED BY <1>2, <1>3, <1>4

\* What is true of a command as it begins.
LEMMA Beginnings ==
    /\ {<<>>, <<"change">>, <<"pause", "count">>, <<"uncount", "unpause">>,
        <<"clear", "key", "service">>, <<"pause", "count", "clear", "key", "service">>,
        <<"uncount", "unpause", "clear", "key", "service">>, <<"pause", "count", "off">>,
        <<"uncount", "unpause", "on", "change">>,
        <<"settime", "broadcast", "pause", "count", "join", "joined">>}
           \subseteq Mains \ {<<"key", "service">>}
    /\ {<<>>, <<"change">>, <<"pause", "count">>, <<"uncount", "unpause">>} \cap Changing = {}
    /\ {<<"pause", "count", "off">>, <<"uncount", "unpause", "on", "change">>,
        <<"settime", "broadcast", "pause", "count", "join", "joined">>} \cap Changing = {}
    /\ {<<>>, <<"change">>, <<"clear", "key", "service">>}
           \cap (Stopped \cup TurningOff \cup TurningOn \cup Counting \cup Uncounting) = {}
    /\ {<<"pause", "count">>, <<"pause", "count", "clear", "key", "service">>}
           \subseteq Counting \ (Stopped \cup TurningOff \cup TurningOn \cup Uncounting)
    /\ {<<"uncount", "unpause">>, <<"uncount", "unpause", "clear", "key", "service">>}
           \subseteq Uncounting \ (Stopped \cup TurningOff \cup TurningOn \cup Counting)
    /\ <<"pause", "count", "off">>
           \in (Counting \cap TurningOff) \ (Stopped \cup TurningOn \cup Uncounting)
    /\ <<"uncount", "unpause", "on", "change">>
           \in (Uncounting \cap TurningOn) \ (Stopped \cup TurningOff \cup Counting)
    /\ <<"settime", "broadcast", "pause", "count", "join", "joined">>
           \in (Counting \cap Stopped) \ (TurningOff \cup TurningOn \cup Uncounting)
  BY DEF Mains, Stopped, TurningOff, TurningOn, Changing, Counting, Uncounting, Others

\* A command that begins disturbs nothing else.
LEMMA BeginKeeps ==
    ASSUME IInv, Control', Account', inputs' \in 0..MaxInputs, zapTo' \in Channels \cup {None},
           {scanning', channel_is_blacklisted'} \subseteq BOOLEAN, got_CN' \subseteq Both,
           main' # <<"key", "service">>,
           UNCHANGED <<thread, demux, current_service, filter, current_servicekey,
                       need_eit_version, events, sectionsd_stop, timeset, blacklist, asker,
                       broadcast, trouble>>
    PROVE  IInv'
<1>1. TypeOK /\ Once /\ Held /\ Watched
  BY DEF IInv
<1>2. Held' /\ Once'
  BY <1>1, HeldKept, OnceKept DEF thread, Held
<1>3. Watched'
  BY <1>1, WatchedKept DEF thread, events
<1>4. main' \in Mains
  BY DEF Control
<1>5. TypeOK'
  BY <1>1, <1>4, MainsAreSteps DEF TypeOK, thread, demux, events
<1> QED BY <1>2, <1>3, <1>5 DEF IInv

LEMMA ZapKeeps ==
    ASSUME IInv, NEW c \in Channels, commandserviceChanged(c) PROVE IInv'
<1>1. TypeOK /\ Control /\ Account /\ main = <<>>
  BY DEF IInv, commandserviceChanged, Begins
<1>2. real_pauseCounter = One(channel_is_blacklisted) + One(~scanning) + One(Twice)
  BY <1>1, Idle DEF TypeOK
<1>3. /\ channel_is_blacklisted' = (c \in blacklist) /\ scanning' = scanning
      /\ real_pauseCounter' = real_pauseCounter /\ trouble' = trouble
      /\ zapTo' = IF c = current_servicekey THEN None ELSE c
  BY DEF commandserviceChanged, demux
<1>4. /\ {channel_is_blacklisted, scanning} \subseteq BOOLEAN /\ real_pauseCounter \in Int
  BY <1>1 DEF TypeOK
<1> DEFINE first == CASE c \in blacklist /\ ~channel_is_blacklisted -> request_pause
                      [] c \notin blacklist /\ channel_is_blacklisted -> request_unpause
                      [] OTHER -> <<>>
           rest  == IF c = current_servicekey THEN <<>> ELSE <<"clear", "key", "service">>
<1>5. main' = first \o rest
  BY DEF commandserviceChanged, Begins
<1>6. rest = <<>> \/ (rest = <<"clear", "key", "service">> /\ zapTo' \in Channels)
  BY <1>3
<1>7. ASSUME c \in blacklist, ~channel_is_blacklisted
      PROVE  Control' /\ Account' /\ main' # <<"key", "service">>
  <2>1. first = request_pause
    BY <1>7
  <2> HIDE DEF first, rest
  <2>2. main' \in {<<"pause", "count">>, <<"pause", "count", "clear", "key", "service">>}
        /\ (main' \in Changing => zapTo' \in Channels)
    BY <2>1, <1>5, <1>6, Commands, Beginnings
  <2>3. /\ main' \in Counting /\ main' \notin Stopped /\ main' \notin TurningOff
        /\ main' \notin TurningOn /\ main' \notin Uncounting
        /\ main' \in Mains /\ main' # <<"key", "service">>
    BY <2>2, Beginnings
  <2>4. Account'
    <3>1. One(channel_is_blacklisted) = 0 /\ One(channel_is_blacklisted)' = 1
      BY <1>3, <1>7 DEF One
    <3>2. Pending' = 1
      BY <2>3 DEF Pending, One
    <3>3. One(Off)' = One(~scanning)
      BY <1>3, <2>3 DEF Off, One
    <3>4. One(~scanning) \in {0, 1} /\ One(Twice) \in {0, 1} /\ One(Twice)' = One(Twice)
      BY <1>3 DEF One, Twice
    <3> QED BY <1>2, <1>3, <2>3, <3>1, <3>2, <3>3, <3>4 DEF Account
  <2> QED BY <2>2, <2>3, <2>4 DEF Control
<1>8. ASSUME c \notin blacklist, channel_is_blacklisted
      PROVE  Control' /\ Account' /\ main' # <<"key", "service">>
  <2>1. first = request_unpause
    BY <1>8
  <2> HIDE DEF first, rest
  <2>2. main' \in {<<"uncount", "unpause">>, <<"uncount", "unpause", "clear", "key", "service">>}
        /\ (main' \in Changing => zapTo' \in Channels)
    BY <2>1, <1>5, <1>6, Commands, Beginnings
  <2>3. /\ main' \in Uncounting /\ main' \notin Stopped /\ main' \notin TurningOff
        /\ main' \notin TurningOn /\ main' \notin Counting
        /\ main' \in Mains /\ main' # <<"key", "service">>
    BY <2>2, Beginnings
  <2>4. Account'
    <3>1. One(channel_is_blacklisted) = 1 /\ One(channel_is_blacklisted)' = 0
      BY <1>3, <1>8 DEF One
    <3>2. Pending' = -1
      BY <2>3 DEF Pending, One
    <3>3. One(Off)' = One(~scanning)
      BY <1>3, <2>3 DEF Off, One
    <3>4. One(~scanning) \in {0, 1} /\ One(Twice) \in {0, 1} /\ One(Twice)' = One(Twice)
      BY <1>3 DEF One, Twice
    <3> QED BY <1>2, <1>3, <2>3, <3>1, <3>2, <3>3, <3>4 DEF Account
  <2> QED BY <2>2, <2>3, <2>4 DEF Control
<1>9. ASSUME (c \in blacklist) <=> channel_is_blacklisted
      PROVE  Control' /\ Account' /\ main' # <<"key", "service">>
  <2>1. first = <<>>
    BY <1>9, <1>4
  <2> HIDE DEF first, rest
  <2>2. main' \in {<<>>, <<"clear", "key", "service">>}
        /\ (main' \in Changing => zapTo' \in Channels)
    BY <2>1, <1>5, <1>6, Commands, Beginnings
  <2>3. /\ main' \notin Counting /\ main' \notin Stopped /\ main' \notin TurningOff
        /\ main' \notin TurningOn /\ main' \notin Uncounting
        /\ main' \in Mains /\ main' # <<"key", "service">>
    BY <2>2, Beginnings
  <2>4. Account'
    BY <1>2, <1>3, <1>4, <1>9, <2>3 DEF Account, Pending, Off, Twice, One
  <2> QED BY <2>2, <2>3, <2>4 DEF Control
<1> HIDE DEF first, rest
<1>10. Control' /\ Account' /\ main' # <<"key", "service">>
  <2>1. (c \in blacklist) \in BOOLEAN
    OBVIOUS
  <2> QED BY <1>4, <1>7, <1>8, <1>9, <2>1
<1>11. inputs' \in 0..MaxInputs
  BY <1>1, ConstantsAssumption DEF TypeOK, commandserviceChanged, Input
<1>12. UNCHANGED <<thread, demux, current_service, filter, current_servicekey, need_eit_version,
                   events, sectionsd_stop, timeset, blacklist, asker, broadcast, trouble>>
  BY DEF commandserviceChanged, messaging
<1>13. got_CN' \subseteq Both /\ {scanning', channel_is_blacklisted'} \subseteq BOOLEAN
       /\ zapTo' \in Channels \cup {None}
  BY <1>1, <1>3, <1>4 DEF commandserviceChanged, messaging, TypeOK
<1> QED BY <1>10, <1>11, <1>12, <1>13, BeginKeeps

\* Scanning is stopped and continued.
LEMMA ScanningKeeps == ASSUME IInv, StopScanning \/ ContinueScanning PROVE IInv'
<1>1. TypeOK /\ Control /\ Account /\ main = <<>>
  BY DEF IInv, StopScanning, ContinueScanning, Begins
<1>2. real_pauseCounter = One(channel_is_blacklisted) + One(~scanning) + One(Twice)
  BY <1>1, Idle DEF TypeOK
<1>3. UNCHANGED <<channel_is_blacklisted, scanning, real_pauseCounter, zapTo, got_CN, thread, demux,
                  current_service, filter, current_servicekey, need_eit_version, events,
                  sectionsd_stop, timeset, blacklist, asker, broadcast, trouble>>
  BY DEF StopScanning, ContinueScanning, demux, switches, messaging
<1>4. inputs' \in 0..MaxInputs
  BY <1>1, ConstantsAssumption DEF TypeOK, StopScanning, ContinueScanning, Input
<1>5. CASE StopScanning
  <2>1. main' = <<"pause", "count", "off">> /\ scanning
    BY <1>5, Commands DEF StopScanning, Begins
  <2>2. /\ main' \in Counting /\ main' \notin Stopped /\ main' \in TurningOff
        /\ main' \notin TurningOn /\ main' \notin Uncounting /\ main' \notin Changing
        /\ main' \in Mains /\ main' # <<"key", "service">>
    BY <2>1, Beginnings
  <2>3. Control' /\ Account'
    BY <1>2, <1>3, <2>1, <2>2 DEF Control, Account, Pending, Off, Twice, One
  <2> QED BY <1>1, <1>3, <1>4, <2>2, <2>3, BeginKeeps DEF TypeOK
<1>6. CASE ContinueScanning
  <2>1. main' = <<"uncount", "unpause", "on", "change">> /\ ~scanning
    BY <1>6, Commands DEF ContinueScanning, Begins
  <2>2. /\ main' \in Uncounting /\ main' \notin Stopped /\ main' \notin TurningOff
        /\ main' \in TurningOn /\ main' \notin Counting /\ main' \notin Changing
        /\ main' \in Mains /\ main' # <<"key", "service">>
    BY <2>1, Beginnings
  <2>3. Control' /\ Account'
    BY <1>2, <1>3, <2>1, <2>2 DEF Control, Account, Pending, Off, Twice, One
  <2> QED BY <1>1, <1>3, <1>4, <2>2, <2>3, BeginKeeps DEF TypeOK
<1> QED BY <1>5, <1>6

\* A new version, and the exit.
LEMMA UpdateKeeps == ASSUME IInv, EitUpdate PROVE IInv'
<1>1. TypeOK /\ Control /\ Account /\ main = <<>> /\ main' = <<"change">>
  BY DEF IInv, EitUpdate, Begins
<1>2. real_pauseCounter = One(channel_is_blacklisted) + One(~scanning) + One(Twice)
  BY <1>1, Idle DEF TypeOK
<1>3. UNCHANGED <<channel_is_blacklisted, scanning, real_pauseCounter, zapTo, inputs, thread, demux,
                  current_service, filter, current_servicekey, need_eit_version, events,
                  sectionsd_stop, timeset, blacklist, asker, broadcast, trouble>>
      /\ got_CN' \subseteq Both
  BY DEF EitUpdate, demux, switches
<1>4. /\ main' \notin Counting /\ main' \notin Stopped /\ main' \notin TurningOff
      /\ main' \notin TurningOn /\ main' \notin Uncounting /\ main' \notin Changing
      /\ main' \in Mains /\ main' # <<"key", "service">>
  BY <1>1, Beginnings
<1>5. Control' /\ Account'
  BY <1>2, <1>3, <1>4 DEF Control, Account, Pending, Off, Twice, One
<1> QED BY <1>1, <1>3, <1>4, <1>5, BeginKeeps DEF TypeOK

LEMMA StoppingKeeps == ASSUME IInv, Stopping PROVE IInv'
<1>1. TypeOK /\ Control /\ Account /\ main = <<>>
      /\ main' = <<"settime", "broadcast", "pause", "count", "join", "joined">>
  BY Commands DEF IInv, Stopping, Begins
<1>2. real_pauseCounter = One(channel_is_blacklisted) + One(~scanning) + One(Twice)
  BY <1>1, Idle DEF TypeOK
<1>3. UNCHANGED <<channel_is_blacklisted, real_pauseCounter, zapTo, got_CN, inputs, thread, demux,
                  current_service, filter, current_servicekey, need_eit_version, events,
                  sectionsd_stop, timeset, blacklist, asker, broadcast, trouble>>
      /\ scanning' = FALSE
  BY DEF Stopping, demux, messaging
<1>4. /\ main' \in Counting /\ main' \in Stopped /\ main' \notin TurningOff
      /\ main' \notin TurningOn /\ main' \notin Uncounting /\ main' \notin Changing
      /\ main' \in Mains /\ main' # <<"key", "service">>
  BY <1>1, Beginnings
<1>5. Control' /\ Account'
  BY <1>2, <1>3, <1>4 DEF Control, Account, Pending, Off, Twice, One
<1> QED BY <1>1, <1>3, <1>4, <1>5, BeginKeeps DEF TypeOK

\* A step of a command leaves a command, and the account right.
LEMMA CommandSteps ==
    ASSUME IInv, NEW step \in {"pause", "count", "uncount", "unpause", "change", "service",
                               "settime", "broadcast", "clear", "key", "off", "on", "join"},
           Does(step),
           channel_is_blacklisted' = channel_is_blacklisted,
           real_pauseCounter' = real_pauseCounter + One(step = "count") - One(step = "uncount"),
           scanning' = IF step = "off" THEN FALSE ELSE IF step = "on" THEN TRUE ELSE scanning,
           step # "key" => zapTo' = zapTo,
           "twice" \in trouble' <=> "twice" \in trouble
    PROVE  /\ Control' /\ Account'
           /\ main' = <<"key", "service">> => step = "clear"
           /\ step = "key" => main = <<"key", "service">>
           /\ real_pauseCounter' \in 0..4
<1>1. TypeOK /\ Control /\ Account
  BY DEF IInv
<1>2. main \in Mains /\ main # <<>> /\ Head(main) = step /\ main' = Tail(main)
  BY <1>1 DEF Control, Does
<1>3. Steps(main, main')
  BY <1>2, StepsOfCommand
<1> DEFINE n == real_pauseCounter
           b == One(channel_is_blacklisted)
           t == One(Twice)
<1>4. n \in 0..4 /\ n' \in Int /\ b \in {0, 1} /\ b' = b /\ t \in {0, 1} /\ t' = t
  <2>1. n \in 0..4 /\ b \in {0, 1} /\ b' = b /\ t \in {0, 1} /\ t' = t
    BY <1>1 DEF TypeOK, One, Twice
  <2>2. One(step = "count") \in {0, 1} /\ One(step = "uncount") \in {0, 1}
    BY DEF One
  <2> QED BY <2>1, <2>2
<1>5. Control'
  <2>1. step = "key" => main' = <<"service">>
    <3>1. Tail(<<"key", "service">>) = <<"service">>
      OBVIOUS
    <3>2. step = "key" => main = <<"key", "service">>
      BY <1>2, <1>3 DEF Steps
    <3> QED BY <1>2, <3>1, <3>2
  <2>2. main' \in Changing => zapTo' \in Channels
    BY <1>1, <1>3, <2>1, <1>2 DEF Steps, Control, Changing
  <2>3. (main' \in TurningOff => scanning') /\ (main' \in TurningOn => ~scanning')
    BY <1>1, <1>2, <1>3 DEF Steps, Control
  <2> QED BY <1>3, <2>2, <2>3 DEF Steps, Control
<1>6. Pending' = Pending - One(step = "count") + One(step = "uncount")
  <2>1. One(main' \in Counting) = One(main \in Counting) - One(step = "count")
    BY <1>2, <1>3 DEF Steps, One
  <2>2. One(main' \in Uncounting) = One(main \in Uncounting) - One(step = "uncount")
    BY <1>2, <1>3 DEF Steps, One
  <2>3. /\ One(step = "count") \in {0, 1} /\ One(step = "uncount") \in {0, 1}
        /\ One(main \in Counting) \in {0, 1} /\ One(main \in Uncounting) \in {0, 1}
    BY DEF One
  <2> QED BY <2>1, <2>2, <2>3 DEF Pending
<1>7. n' + Pending' = n + Pending
  <2>1. One(step = "count") \in Int /\ One(step = "uncount") \in Int /\ Pending \in Int
    BY DEF One, Pending
  <2> QED BY <2>1, <1>4, <1>6
<1>8. One(Off)' = One(Off) /\ One(Off) \in {0, 1}
  <2>1. Off' <=> Off
    <3>1. CASE step = "off"
      BY <1>1, <1>2, <1>3, <3>1 DEF Steps, Control, Off
    <3>2. CASE step = "on"
      BY <1>1, <1>2, <1>3, <3>2 DEF Steps, Control, Off
    <3>3. CASE step # "off" /\ step # "on"
      BY <1>2, <1>3, <3>3 DEF Steps, Off
    <3> QED BY <3>1, <3>2, <3>3
  <2> QED BY <2>1 DEF One
<1>9. main' \in Stopped <=> main \in Stopped
  BY <1>3 DEF Steps
<1>10. Account'
  <2> DEFINE before == n + Pending
             after  == n' + Pending'
  <2>1. before = after
    BY <1>7
  <2>2. IF main \in Stopped THEN before - (b + t) \in {1, 2} ELSE before = b + One(Off) + t
    BY <1>1 DEF Account
  <2> HIDE DEF before, after
  <2>3. IF main' \in Stopped THEN after - (b' + t') \in {1, 2} ELSE after = b' + One(Off)' + t'
    BY <1>4, <1>8, <1>9, <2>1, <2>2
  <2> QED BY <2>3 DEF Account, after
<1>11. n' \in 0..4
  <2>1. CASE step = "count"
    <3>1. n' = n + 1
      BY <1>4, <2>1 DEF One
    <3>2. Pending' \in {0, -1} /\ (Pending' = -1 => main' \in Uncounting)
      BY <1>2, <1>3, <2>1 DEF Steps, Pending, One
    <3>3. main \in Counting /\ main \notin Uncounting
      BY <1>2, <1>3, <2>1 DEF Steps, Counting, Uncounting
    <3>4. Pending' = 0
      BY <1>2, <1>3, <3>2, <3>3, <2>1 DEF Steps
    <3> QED BY <1>4, <1>8, <1>10, <3>1, <3>4 DEF Account
  <2>2. CASE step = "uncount"
    <3>1. n' = n - 1
      BY <1>4, <2>2 DEF One
    <3>2. main \in Uncounting /\ main \notin Counting /\ main \notin Stopped
      BY <1>2, <1>3, <2>2 DEF Steps, Counting, Uncounting, Stopped
    <3>3. Pending' = 0
      BY <1>2, <1>3, <3>2, <2>2 DEF Steps, Pending, One
    <3> QED BY <1>4, <1>8, <1>9, <1>10, <3>1, <3>2, <3>3 DEF Account
  <2>3. CASE step # "count" /\ step # "uncount"
    BY <1>4, <2>3 DEF One
  <2> QED BY <2>1, <2>2, <2>3
<1>12. main' = <<"key", "service">> => step = "clear"
  BY <1>2, <1>3 DEF Steps
<1>13. step = "key" => main = <<"key", "service">>
  BY <1>2, <1>3 DEF Steps
<1> QED BY <1>5, <1>10, <1>11, <1>12, <1>13

\* A step of the main loop other than the two that change the events and the key.
LEMMA OtherSteps ==
    ASSUME IInv, Control', Account', real_pauseCounter' \in 0..4, main' # <<"key", "service">>,
           {dmx', open', scanning', timeset'} \subseteq BOOLEAN,
           eit_version' \in Versions \cup {None}, current_service' \in Channels \cup {None},
           \/ cn' = cn
           \/ cn = "waiting" /\ cn' = "woken"
           \/ cn = "timewait" /\ cn' = "time",
           trouble' \subseteq Troubles,
           "overtaken" \in trouble => "overtaken" \in trouble',
           "twice" \in trouble' <=> "twice" \in trouble,
           UNCHANGED <<section, sendToSleepNow, filter, messaging, need_eit_version, events,
                       channel_is_blacklisted, sectionsd_stop, zapTo, blacklist, asker, broadcast,
                       inputs>>
    PROVE  IInv'
<1>1. TypeOK /\ Once /\ Held /\ Watched
  BY DEF IInv
<1>2. Held' /\ Once'
  <2>1. Once'
    BY <1>1, OnceKept DEF Starting
  <2>2. Held'
    BY <1>1, HeldKept DEF Held
  <2> QED BY <2>1, <2>2
<1>3. Watched'
  BY <1>1, WatchedKept DEF messaging, events
<1>4. main' \in Mains
  BY DEF Control
<1>5. TypeOK'
  BY <1>1, <1>4, MainsAreSteps DEF TypeOK, Troubles, messaging, events, Places
<1> QED BY <1>2, <1>3, <1>5 DEF IInv

\* What change() does to the thread that waits and to the demultiplexer.
LEMMA ChangeKeeps ==
    ASSUME TypeOK, NEW history \in SUBSET {"missed", "turned"}
    PROVE  /\ Signal(history) =>
                 /\ cn' = cn \/ (cn = "waiting" /\ cn' = "woken")
                 /\ trouble' \subseteq Troubles
                 /\ "overtaken" \in trouble => "overtaken" \in trouble'
                 /\ "twice" \in trouble' <=> "twice" \in trouble
           /\ ImmediateStart =>
                 /\ {dmx', open'} \subseteq BOOLEAN /\ eit_version' \in Versions \cup {None}
                 /\ real_pauseCounter' = real_pauseCounter
<1>1. ASSUME Signal(history)
      PROVE  /\ cn' = cn \/ (cn = "waiting" /\ cn' = "woken")
             /\ trouble' \subseteq Troubles
             /\ "overtaken" \in trouble => "overtaken" \in trouble'
             /\ "twice" \in trouble' <=> "twice" \in trouble
  BY <1>1 DEF Signal, TypeOK, Troubles
<1>2. ASSUME ImmediateStart
      PROVE  /\ {dmx', open'} \subseteq BOOLEAN /\ eit_version' \in Versions \cup {None}
             /\ real_pauseCounter' = real_pauseCounter
  BY <1>2 DEF ImmediateStart, TypeOK
<1> QED BY <1>1, <1>2

LEMMA Histories ==
    /\ (Missed \cup Turned) \in SUBSET {"missed", "turned"}
    /\ (Missed \cup IF WillSleep THEN {"missed"} ELSE {}) \in SUBSET {"missed", "turned"}
  BY DEF Missed, Turned

LEMMA DemuxKeeps == ASSUME IInv, DemuxStep PROVE IInv'
<1>1. TypeOK
  BY DEF IInv
<1>2. UNCHANGED <<section, sendToSleepNow, filter, messaging, need_eit_version, events,
                  channel_is_blacklisted, sectionsd_stop, timeset, zapTo, blacklist, asker,
                  broadcast, inputs, scanning>>
  BY DEF DemuxStep, switches
<1> DEFINE S == {"pause", "count", "uncount", "unpause", "change", "service", "broadcast"}
<1>3. PICK step \in S :
        /\ Does(step)
        /\ real_pauseCounter' = real_pauseCounter + One(step = "count") - One(step = "uncount")
        /\ {dmx', open'} \subseteq BOOLEAN /\ eit_version' \in Versions \cup {None}
        /\ current_service' \in Channels \cup {None}
        /\ cn' = cn \/ (cn = "waiting" /\ cn' = "woken")
        /\ trouble' \subseteq Troubles
        /\ "overtaken" \in trouble => "overtaken" \in trouble'
        /\ "twice" \in trouble' <=> "twice" \in trouble
  <2> DEFINE n == real_pauseCounter
  <2>1. /\ n \in Int /\ n + 0 - 0 = n /\ n + 1 - 0 = n + 1 /\ n + 0 - 1 = n - 1
        /\ One(TRUE) = 1 /\ One(FALSE) = 0
    BY <1>1 DEF TypeOK, One
  <2>2. {dmx, open} \subseteq BOOLEAN /\ eit_version \in Versions \cup {None}
        /\ {current_service, current_servicekey} \subseteq Channels \cup {None}
        /\ trouble \subseteq Troubles
    BY <1>1 DEF TypeOK, Troubles
  <2>3. CASE Does("pause") /\ RealPause /\ UNCHANGED <<current_service, cn, trouble>>
    BY <2>1, <2>2, <2>3 DEF RealPause, One
  <2>4. CASE /\ Does("count")
             /\ real_pauseCounter' = real_pauseCounter + 1
             /\ UNCHANGED <<dmx, open, eit_version, current_service, cn, trouble>>
    BY <2>1, <2>2, <2>4 DEF One
  <2>5. CASE /\ Does("uncount")
             /\ real_pauseCounter' = real_pauseCounter - 1
             /\ UNCHANGED <<dmx, open, eit_version, current_service, cn, trouble>>
    BY <2>1, <2>2, <2>5 DEF One
  <2>6. CASE Does("unpause") /\ RealUnpause /\ UNCHANGED <<current_service, cn, trouble>>
    BY <2>1, <2>2, <2>6 DEF RealUnpause, ImmediateStart, demux, One
  <2>7. CASE Does("change") /\ Change(Missed \cup Turned) /\ UNCHANGED current_service
    <3>1. Signal(Missed \cup Turned) /\ ImmediateStart
      BY <2>7 DEF Change
    <3>2. WITNESS "change" \in S
    <3> QED BY <1>1, <2>1, <2>2, <2>7, <3>1, Histories, ChangeKeeps DEF One
  <2>8. CASE Does("service") /\ Change(Missed \cup Turned) /\ current_service' = current_servicekey
    <3>1. Signal(Missed \cup Turned) /\ ImmediateStart
      BY <2>8 DEF Change
    <3>2. WITNESS "service" \in S
    <3> QED BY <1>1, <2>1, <2>2, <2>8, <3>1, Histories, ChangeKeeps DEF One
  <2>9. CASE /\ Does("broadcast")
             /\ Signal(Missed \cup IF WillSleep THEN {"missed"} ELSE {})
             /\ UNCHANGED <<demux, current_service>>
    <3>1. WITNESS "broadcast" \in S
    <3> QED BY <1>1, <2>1, <2>2, <2>9, Histories, ChangeKeeps DEF One, demux
  <2> QED BY <2>3, <2>4, <2>5, <2>6, <2>7, <2>8, <2>9 DEF DemuxStep
<1>4. /\ Control' /\ Account' /\ main' # <<"key", "service">> /\ real_pauseCounter' \in 0..4
  BY <1>2, <1>3, CommandSteps
<1>5. {dmx', open', scanning', timeset'} \subseteq BOOLEAN
  BY <1>1, <1>2, <1>3 DEF TypeOK
<1> QED BY <1>2, <1>3, <1>4, <1>5, OtherSteps

LEMMA SwitchKeeps == ASSUME IInv, Switch \/ Join \/ SetTimeAtExit PROVE IInv'
<1>1. TypeOK
  BY DEF IInv
<1>2. UNCHANGED <<section, sendToSleepNow, filter, messaging, need_eit_version, events,
                  channel_is_blacklisted, sectionsd_stop, zapTo, blacklist, asker, broadcast,
                  inputs, dmx, open, real_pauseCounter, eit_version, current_service>>
  BY DEF Switch, Join, SetTimeAtExit, switches, thread, demux
<1>3. PICK step \in {"off", "on", "join", "settime"} :
        /\ Does(step)
        /\ scanning' = IF step = "off" THEN FALSE ELSE IF step = "on" THEN TRUE ELSE scanning
  BY DEF Switch, Join, SetTimeAtExit, switches
<1>4. real_pauseCounter' = real_pauseCounter + One(step = "count") - One(step = "uncount")
  BY <1>1, <1>2, <1>3 DEF TypeOK, One
<1>5. /\ cn' = cn \/ (cn = "timewait" /\ cn' = "time")
      /\ timeset' \in {timeset, TRUE}
      /\ trouble \subseteq trouble' /\ trouble' \subseteq trouble \cup {"missed"}
  BY DEF Switch, Join, SetTimeAtExit, switches, thread
<1>6. /\ Control' /\ Account' /\ main' # <<"key", "service">> /\ real_pauseCounter' \in 0..4
  BY <1>2, <1>3, <1>4, <1>5, CommandSteps
<1>7. {dmx', open', scanning', timeset'} \subseteq BOOLEAN /\ eit_version' \in Versions \cup {None}
      /\ current_service' \in Channels \cup {None} /\ trouble' \subseteq Troubles
  BY <1>1, <1>2, <1>3, <1>5 DEF TypeOK, Troubles
<1> QED BY <1>2, <1>5, <1>6, <1>7, OtherSteps

\* A channel change clears the events and then changes the key; a store in between is overtaken.
LEMMA ClearKeeps == ASSUME IInv, Clear PROVE IInv'
<1>1. TypeOK /\ Once /\ Held /\ Watched
  BY DEF IInv
<1>2. UNCHANGED <<cn, section, scanning, channel_is_blacklisted, real_pauseCounter, zapTo,
                  current_servicekey>>
  BY DEF Clear, thread, demux, switches, messaging
<1>3. real_pauseCounter' = real_pauseCounter + One("clear" = "count") - One("clear" = "uncount")
  BY <1>1, <1>2 DEF TypeOK, One
<1>4. Does("clear") /\ ("twice" \in trouble' <=> "twice" \in trouble)
  BY DEF Clear, Overtaken
<1>5. Control' /\ Account'
  <2> DEFINE step == "clear"
  <2>1. /\ step \in {"pause", "count", "uncount", "unpause", "change", "service",
                     "settime", "broadcast", "clear", "key", "off", "on", "join"}
        /\ step # "off" /\ step # "on"
    OBVIOUS
  <2>2. Does(step) /\ real_pauseCounter' = real_pauseCounter + One(step = "count")
                                               - One(step = "uncount")
    BY <1>3, <1>4
  <2> HIDE DEF step
  <2> QED BY <1>2, <1>4, <2>1, <2>2, CommandSteps
<1>6. Held' /\ Once'
  BY <1>1, <1>2, <1>4, OnceKept DEF Held
<1>7. myCurrentEvent' = None /\ myNextEvent' = None
      /\ (cn = "store" => "overtaken" \in trouble') /\ trouble' \subseteq trouble \cup {"overtaken"}
  BY DEF Clear, Overtaken
<1>8. Watched'
  BY <1>2, <1>7 DEF Watched, NowNextIsOfChannel
<1>9. main' \in Mains
  BY <1>5 DEF Control
<1>10. TypeOK'
  BY <1>1, <1>2, <1>7, <1>9, MainsAreSteps
     DEF Clear, TypeOK, thread, demux, messaging, switches
<1> QED BY <1>5, <1>6, <1>8, <1>10 DEF IInv

LEMMA KeyKeeps == ASSUME IInv, Key PROVE IInv'
<1>1. TypeOK /\ Control /\ Once /\ Held /\ Watched
  BY DEF IInv
<1>2. UNCHANGED <<cn, section, scanning, channel_is_blacklisted, real_pauseCounter,
                  myCurrentEvent, myNextEvent>>
  BY DEF Key, thread, demux, switches, events
<1>11. "twice" \in trouble' <=> "twice" \in trouble
  BY DEF Key, Overtaken
<1>3. /\ Control' /\ Account' /\ main = <<"key", "service">> /\ main' # <<"key", "service">>
  <2> DEFINE step == "key"
  <2>1. /\ step \in {"pause", "count", "uncount", "unpause", "change", "service",
                     "settime", "broadcast", "clear", "key", "off", "on", "join"}
        /\ step # "off" /\ step # "on" /\ step = "key" /\ step # "clear"
    OBVIOUS
  <2>2. Does(step) /\ real_pauseCounter' = real_pauseCounter + One(step = "count")
                                               - One(step = "uncount")
    BY <1>1, <1>2 DEF Key, TypeOK, One
  <2> HIDE DEF step
  <2> QED BY <1>2, <1>11, <2>1, <2>2, CommandSteps
<1>4. zapTo \in Channels
  BY <1>1, <1>3 DEF Control, Changing
<1>5. Held' /\ Once'
  BY <1>1, <1>2, <1>11, OnceKept DEF Held
<1>6. trouble \subseteq trouble' /\ trouble' \subseteq trouble \cup {"overtaken"}
      /\ (cn = "store" => "overtaken" \in trouble')
  BY DEF Key, Overtaken
<1>7. (myCurrentEvent = None /\ myNextEvent = None) \/ "overtaken" \in trouble
  BY <1>1, <1>3 DEF Watched
<1>8. Watched'
  BY <1>2, <1>3, <1>6, <1>7 DEF Watched, NowNextIsOfChannel
<1>9. main' \in Mains
  BY <1>3 DEF Control
<1>10. TypeOK'
  BY <1>1, <1>2, <1>4, <1>6, <1>9, MainsAreSteps
     DEF Key, TypeOK, thread, demux, switches, events
<1> QED BY <1>3, <1>5, <1>8, <1>10 DEF IInv

LEMMA MainLoopKeeps == ASSUME IInv, MainLoop PROVE IInv'
  BY ZapKeeps, ScanningKeeps, UpdateKeeps, StoppingKeeps, DemuxKeeps, SwitchKeeps, ClearKeeps,
     KeyKeeps DEF MainLoop, MainStep

-----------------------------------------------------------------------------
(* The thread that asks, the exit and time *)

LEMMA AskerKeeps == ASSUME IInv, Ask \/ Hesitate \/ Restart \/ Stop \/ SetTime PROVE IInv'
<1>1. TypeOK /\ Control /\ Account /\ Once /\ Held /\ Watched
  BY DEF IInv
<1>2. UNCHANGED <<main, zapTo, scanning, channel_is_blacklisted, real_pauseCounter, section,
                  myCurrentEvent, myNextEvent, current_servicekey>>
  BY DEF Ask, Hesitate, Restart, Stop, SetTime, Change, ImmediateStart, thread, demux, switches,
         server, events, messaging
<1>3. /\ \/ cn' = cn
         \/ cn = "waiting" /\ cn' = "woken"
         \/ cn = "timewait" /\ cn' = "time"
      /\ trouble' \subseteq Troubles
      /\ "overtaken" \in trouble => "overtaken" \in trouble'
      /\ "twice" \in trouble' <=> "twice" \in trouble
      /\ {dmx', open'} \subseteq BOOLEAN /\ eit_version' \in Versions \cup {None}
  <2>1. CASE Restart
    BY <1>1, <2>1, Histories, ChangeKeeps DEF Restart, Change
  <2>2. CASE Ask \/ Hesitate \/ Stop \/ SetTime
    BY <1>1, <2>2 DEF Ask, Hesitate, Stop, SetTime, thread, demux, TypeOK, Troubles
  <2> QED BY <2>1, <2>2
<1>4. Control' /\ Account'
  BY <1>1, <1>2, <1>3, CommandKept
<1>5. Held' /\ Once'
  <2>1. Once'
    BY <1>1, <1>3, OnceKept DEF Starting
  <2>2. Held'
    BY <1>1, <1>2, <1>3, HeldKept DEF Held
  <2> QED BY <2>1, <2>2
<1>6. Watched'
  BY <1>1, <1>2, <1>3, WatchedKept
<1>7. /\ inputs' \in 0..MaxInputs /\ asker' \in {"idle", "missing", "restart"}
      /\ sectionsd_stop' \in BOOLEAN /\ timeset' \in BOOLEAN
      /\ UNCHANGED <<sendToSleepNow, need_eit_version, current_service, filter, got_CN, broadcast,
                     blacklist>>
  <2> USE DEF Input, TypeOK, thread, messaging, switches, server
  <2>1. CASE Ask
    BY <1>1, <2>1, ConstantsAssumption DEF Ask
  <2>2. CASE Hesitate
    BY <1>1, <2>2 DEF Hesitate
  <2>3. CASE Restart
    BY <1>1, <2>3 DEF Restart
  <2>4. CASE Stop
    BY <1>1, <2>4, ConstantsAssumption DEF Stop
  <2>5. CASE SetTime
    BY <1>1, <2>5 DEF SetTime
  <2> QED BY <2>1, <2>2, <2>3, <2>4, <2>5
<1>8. TypeOK'
  BY <1>1, <1>2, <1>3, <1>7 DEF TypeOK, Troubles, Places
<1> QED BY <1>4, <1>5, <1>6, <1>8 DEF IInv

LEMMA TurnKeeps == ASSUME IInv, NEW c \in Channels, Turn(c) PROVE IInv'
<1>1. TypeOK /\ Control /\ Account /\ Once /\ Held /\ Watched
  BY DEF IInv
<1>2. UNCHANGED <<main, zapTo, scanning, channel_is_blacklisted, real_pauseCounter, section, cn,
                  myCurrentEvent, myNextEvent, current_servicekey>>
  BY DEF Turn, thread, demux, switches, server, events, messaging
<1>3. trouble \subseteq trouble' /\ trouble' \subseteq trouble \cup {"turned"}
  BY DEF Turn
<1>4. broadcast' \in [Channels -> Versions \cup {None}]
  <2>1. broadcast[c] \in 0..MaxVersion /\ broadcast[c] < MaxVersion
    BY <1>1 DEF Turn, TypeOK, Versions
  <2>2. broadcast[c] + 1 \in Versions
    BY <2>1, ConstantsAssumption DEF Versions
  <2>3. broadcast' = [broadcast EXCEPT ![c] = broadcast[c] + 1]
    BY DEF Turn
  <2> QED BY <1>1, <2>2, <2>3 DEF TypeOK
<1>5. Control' /\ Account' /\ Once'
  BY <1>1, <1>2, <1>3, CommandKept, OnceKept
<1>6. Held'
  BY <1>1, <1>2, HeldKept DEF Held
<1>7. Watched'
  BY <1>1, <1>2, <1>3, WatchedKept
<1>8. inputs' \in 0..MaxInputs
  BY <1>1, ConstantsAssumption DEF Turn, Input, TypeOK
<1>9. TypeOK'
  BY <1>1, <1>2, <1>3, <1>4, <1>8 DEF TypeOK, Turn, thread, demux, switches, server, messaging
<1> QED BY <1>5, <1>6, <1>7, <1>9 DEF IInv

-----------------------------------------------------------------------------
LEMMA NextKeeps == ASSUME IInv, [Next]_vars PROVE IInv'
<1>1. CASE UNCHANGED vars
  <2>1. UNCHANGED <<main, zapTo, scanning, channel_is_blacklisted, real_pauseCounter, section, cn,
                    myCurrentEvent, myNextEvent, current_servicekey, trouble>>
    BY <1>1 DEF vars, thread, demux, switches, server, events, messaging
  <2>2. Control' /\ Account' /\ Once' /\ Held' /\ Watched'
    BY <2>1, CommandKept, OnceKept, HeldKept, WatchedKept DEF IInv, Held
  <2>3. TypeOK'
    BY <1>1 DEF IInv, TypeOK, vars, thread, demux, switches, server, events, messaging
  <2> QED BY <2>2, <2>3 DEF IInv
<1> QED BY <1>1, ThreadKeeps, MainLoopKeeps, AskerKeeps, TurnKeeps DEF Next

LEMMA Invariant == Spec => []IInv
  BY InitInvariant, NextKeeps, PTL DEF Spec

\* Every variable keeps its type; above all the counter of pauses, which the blacklist, the
\* stopping of scanning, the exit and the thread itself raise and lower independently of each
\* other, never goes below zero nor above four.
THEOREM TypeCorrect == Spec => []TypeOK
<1>1. IInv => TypeOK
  BY DEF IInv
<1> QED BY <1>1, Invariant, PTL

\* The events that are shown are those of the channel that is watched, unless a channel change
\* ran between the look addEvent takes at the key and its store.
THEOREM EventsAreOfChannel == Spec => []NowNextIsOfChannel
<1>1. IInv => NowNextIsOfChannel
  BY DEF IInv, Watched
<1> QED BY <1>1, Invariant, PTL

\* Whenever the main loop is between two commands the demultiplexer is paused once for a
\* blacklisted channel and once while scanning is off, and once more if and only if the thread
\* has counted a pause of its own at its start.
THEOREM PausesCounted == Spec => []PausesAreCounted
<1>1. IInv => PausesAreCounted
  <2>1. ASSUME IInv, main = <<>>
        PROVE  real_pauseCounter = One(channel_is_blacklisted) + One(~scanning) + One(Twice)
    BY <2>1, Idle DEF IInv, TypeOK
  <2> QED BY <2>1 DEF PausesAreCounted, Twice
<1> QED BY <1>1, Invariant, PTL
=============================================================================
