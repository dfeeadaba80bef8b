---------------------------- MODULE CurrentNext ----------------------------
(***************************************************************************)
(* sectionsd's current and next event of the channel that is watched:      *)
(* the thread that reads the sections of table 0x4e (cnThread) and its     *)
(* demultiplexer (class DMX), the main loop of sectionsd, which runs one   *)
(* command of the clients after the other and polls the filter for a new   *)
(* version, the thread that sets the clock (timeThread), and a thread of   *)
(* neutrino that asks for the events.                                      *)
(*                                                                         *)
(* A section under start_stop_mutex, the messaging lock or the events lock *)
(* is one step.  A command of the main loop is the sequence of the steps   *)
(* it still has to do.  The 35 seconds of TIME_EIT_VERSION_WAIT may be     *)
(* over at any look at the clock but the one that sets the stamp.          *)
(***************************************************************************)
EXTENDS Integers, Sequences

CONSTANTS
    None,        \* no version (0xff), no channel (0), no section, event or filter
    Channels,    \* the channels of one transport stream
    Blacklists,  \* the lists of channels the filter file may hold
    Firsts,      \* bound: the channels that may be the first to be watched
    MaxVersion,  \* bound: the last version of a channel's sections
    MaxInputs    \* bound: what a behaviour has, after the first channel, of channel changes,
                 \* pauses, questions, new programmes and exits together

ASSUME ConstantsAssumption ==
    /\ None \notin Channels
    /\ Blacklists \subseteq SUBSET Channels
    /\ Firsts \subseteq Channels
    /\ MaxVersion \in Nat
    /\ MaxInputs \in Nat

Versions == 0..MaxVersion
Both     == {"current", "next"}

VARIABLES
    cn,         \* where cnThread is
    section,    \* the section in its buffer
    sendToSleepNow,
    dmx, open, real_pauseCounter, eit_version, current_service, \* dmxCN; dmx: there is a cDemux
    filter,     \* the filter for a new version: the channel and the parity it lets pass
    current_servicekey, got_CN, need_eit_version, \* messaging_...
    myCurrentEvent, myNextEvent,
    main,       \* the steps the main loop has before it
    zapTo,      \* the channel of its command
    scanning, channel_is_blacklisted, sectionsd_stop, timeset,
    blacklist,  \* the list that was read at the start
    asker,      \* where the thread is that asks for current and next
    broadcast,  \* the version each channel broadcasts, None for one without these sections
    trouble,    \* history: what has gone wrong, see Missed, Turned, GivesUp, OwnCount and Overtaken
    inputs      \* the counter that MaxInputs bounds

thread    == <<cn, section, sendToSleepNow>>
demux     == <<dmx, open, real_pauseCounter, eit_version>>
messaging == <<current_servicekey, got_CN>>
events    == <<myCurrentEvent, myNextEvent>>
switches  == <<scanning, channel_is_blacklisted, sectionsd_stop, timeset>>
server    == <<main, zapTo, blacklist>>
vars == <<thread, demux, current_service, filter, messaging, need_eit_version, events, switches,
          server, asker, broadcast, trouble, inputs>>

\* A read of a demultiplexer that was never made ends the program.
Lives == cn # "crashed"

Input == Lives /\ inputs < MaxInputs /\ inputs' = inputs + 1

Event(c, n) == [channel |-> c, number |-> n]

\* The sections on the air: while a channel broadcasts version v, event v is
\* running and event v + 1 is next.
Section(c, kind) ==
    [channel |-> c, version |-> broadcast[c], kind |-> kind,
     event |-> Event(c, broadcast[c] + IF kind = "next" THEN 1 ELSE 0)]

OnAir == {Section(c, kind) : c \in {d \in Channels : broadcast[d] # None}, kind \in Both}

Events   == [channel : Channels, number : 0..(MaxVersion + 1)]
Sections == [channel : Channels, version : Versions, kind : Both, event : Events]
Starting == {"start", "own", "ownpause", "owncount", "begin"}
Places   == Starting \cup {"time", "timegap", "timewait", "top", "read", "reopen", "version",
                          "have", "decide", "pause", "wait", "waiting", "woken", "check",
                          "store", "ended", "crashed"}

Init ==
    /\ cn = "start" /\ section = None /\ sendToSleepNow = FALSE
    /\ dmx = FALSE /\ open = FALSE /\ real_pauseCounter = 0 /\ eit_version = 0
    /\ blacklist \in Blacklists
    /\ current_servicekey = None /\ current_service = None
    /\ filter = None
    /\ got_CN = {}
    /\ need_eit_version = FALSE
    /\ myCurrentEvent = None /\ myNextEvent = None
    /\ main = <<>> /\ zapTo = None
    /\ scanning = TRUE /\ channel_is_blacklisted = FALSE /\ sectionsd_stop = FALSE
    /\ timeset = FALSE
    /\ asker = "idle"
    /\ broadcast \in [Channels -> {0, None}]
    /\ trouble = {}
    /\ inputs = 0

-----------------------------------------------------------------------------
(* The demultiplexer *)

\* immediate_start() closes, and opens only when nobody has asked for a pause.
ImmediateStart ==
    /\ open' = (real_pauseCounter = 0)
    /\ dmx' = (dmx \/ real_pauseCounter = 0)
    /\ eit_version' = IF real_pauseCounter = 0 THEN None ELSE eit_version
    /\ UNCHANGED real_pauseCounter

\* real_pause()
RealPause ==
    /\ open' = (open /\ real_pauseCounter # 0)
    /\ UNCHANGED <<dmx, real_pauseCounter, eit_version>>

\* real_unpause()
RealUnpause == IF real_pauseCounter = 0 THEN ImmediateStart ELSE UNCHANGED demux

\* The filter for a new version lets section s pass.
IsUpdate(s) ==
    /\ filter # None
    /\ s.channel = filter.channel
    /\ s.version % 2 = filter.parity

\* History of a signal: "missed", until a later one is heard, when the thread has the decision to
\* sleep behind it, or still pending from an earlier pass, and does not yet listen; "turned",
\* when it wakes the thread, which has both events, before the main loop has seen the new
\* version: the thread takes note of the version and sleeps again.
Missed == IF sendToSleepNow \/ cn \in {"pause", "wait"} THEN {"missed"} ELSE {}
Turned == IF got_CN # {} /\ \E s \in OnAir : IsUpdate(s) THEN {"turned"} ELSE {}

\* The thread has passed the test of sectionsd_stop and has nothing more to read.
WillSleep == cn \in {"read", "reopen", "version", "have"} /\ got_CN = Both

\* pthread_cond_signal on change_cond, which only the sleeping thread hears.
Signal(history) ==
    /\ cn' = IF cn = "waiting" THEN "woken" ELSE cn
    /\ trouble' = (IF cn = "waiting" THEN trouble \ {"missed", "gaveup"} ELSE trouble) \cup history

\* change()
Change(history) ==
    /\ ImmediateStart
    /\ Signal(history)

-----------------------------------------------------------------------------
(* cnThread *)

\* The thread starts the demultiplexer and pauses it when scanning is off: by then
\* commandPauseScanning, or the exit, has its own pause counted or will.
Start ==
    /\ cn = "start"
    /\ ImmediateStart
    /\ cn' = "own"
    /\ UNCHANGED <<section, sendToSleepNow, current_service, filter, messaging, need_eit_version,
                   events, switches, server, asker, broadcast, trouble, inputs>>

Own ==
    /\ cn = "own"
    /\ cn' = IF scanning THEN "begin" ELSE "ownpause"
    /\ UNCHANGED <<section, sendToSleepNow, demux, current_service, filter, messaging,
                   need_eit_version, events, switches, server, asker, broadcast, trouble, inputs>>

OwnPause ==
    /\ cn = "ownpause"
    /\ RealPause
    /\ cn' = "owncount"
    /\ UNCHANGED <<section, sendToSleepNow, current_service, filter, messaging, need_eit_version,
                   events, switches, server, asker, broadcast, trouble, inputs>>

OwnCount ==
    /\ cn = "owncount"
    /\ real_pauseCounter' = real_pauseCounter + 1
    /\ trouble' = trouble \cup {"twice"}
    /\ cn' = "begin"
    /\ UNCHANGED <<section, sendToSleepNow, dmx, open, eit_version, current_service, filter,
                   messaging, need_eit_version, events, switches, server, asker, broadcast, inputs>>

\* messaging_eit_is_busy becomes true.
Begin ==
    /\ cn = "begin"
    /\ need_eit_version' = FALSE
    /\ cn' = "time"
    /\ UNCHANGED <<section, sendToSleepNow, demux, current_service, filter, messaging, events,
                   switches, server, asker, broadcast, trouble, inputs>>

\* waitForTimeset(): timeIsSetMutex is held from the test to the wait.
TestTime ==
    /\ cn = "time"
    /\ cn' = IF timeset THEN "top" ELSE "timegap"
    /\ UNCHANGED <<section, sendToSleepNow, demux, current_service, filter, messaging,
                   need_eit_version, events, switches, server, asker, broadcast, trouble, inputs>>

WaitForTime ==
    /\ cn = "timegap"
    /\ cn' = "timewait"
    /\ UNCHANGED <<section, sendToSleepNow, demux, current_service, filter, messaging,
                   need_eit_version, events, switches, server, asker, broadcast, trouble, inputs>>

\* The top of the loop: sectionsd_stop ends it, and nothing is read while
\* scanning is off.
Top ==
    /\ cn = "top"
    /\ \/ sectionsd_stop /\ cn' = "ended"
       \/ ~sectionsd_stop /\ scanning /\ cn' = "read"
    /\ UNCHANGED <<section, sendToSleepNow, demux, current_service, filter, messaging,
                   need_eit_version, events, switches, server, asker, broadcast, trouble, inputs>>

\* getSection() returns a section and remembers the version of those of the
\* current service.
ReadSection(s) ==
    /\ cn = "read" /\ open
    /\ section' = s
    /\ eit_version' = IF s.channel = current_service THEN s.version ELSE eit_version
    /\ cn' = "version"
    /\ UNCHANGED <<sendToSleepNow, dmx, open, real_pauseCounter, current_service, filter,
                   messaging, need_eit_version, events, switches, server, asker, broadcast,
                   trouble, inputs>>

\* A demultiplexer that was paused from the start has no cDemux yet: the program ends.
ReadUnmade ==
    /\ cn = "read" /\ ~dmx
    /\ cn' = "crashed"
    /\ UNCHANGED <<section, sendToSleepNow, demux, current_service, filter, messaging,
                   need_eit_version, events, switches, server, asker, broadcast, trouble, inputs>>

\* getSection() runs into its timeout, or what it has read is too short.
ReadNothing ==
    /\ cn = "read" /\ dmx
    /\ section' = None
    /\ cn' = "version"
    /\ UNCHANGED <<sendToSleepNow, demux, current_service, filter, messaging, need_eit_version,
                   events, switches, server, asker, broadcast, trouble, inputs>>

\* getSection() reads something broken and restarts the demultiplexer, in two
\* steps.
ReadGarbage ==
    /\ cn = "read" /\ open
    /\ section' = None
    /\ RealPause
    /\ cn' = "reopen"
    /\ UNCHANGED <<sendToSleepNow, current_service, filter, messaging, need_eit_version, events,
                   switches, server, asker, broadcast, trouble, inputs>>

Reopen ==
    /\ cn = "reopen"
    /\ RealUnpause
    /\ cn' = "version"
    /\ UNCHANGED <<section, sendToSleepNow, current_service, filter, messaging, need_eit_version,
                   events, switches, server, asker, broadcast, trouble, inputs>>

\* What addEvent() would do with the event of a section of the current channel.
StoresCurrent(e) == myCurrentEvent # e
StoresNext(e) ==
    /\ myNextEvent = None \/ (myNextEvent # e /\ myNextEvent.number < e.number)
    /\ myCurrentEvent # e
Stores(s) == IF s.kind = "current" THEN StoresCurrent(s.event) ELSE StoresNext(s.event)

OfService == {s \in OnAir : s.channel = current_service}
News      == {s \in OnAir : s.channel = current_servicekey /\ got_CN # Both /\ Stores(s)}

\* History of the thread when it gives up because 35 seconds are over.  The stamps they are
\* counted from are those of the last channel change and of the first look for a version: a
\* pause of scanning or of a blacklisted channel, in which nothing is read, does not reset them,
\* and neither does the exit.  "gaveup", until a later signal is heard, when what it waits for
\* is on the air or the exit has begun.
GivesUp(useful) ==
    trouble' = trouble \cup IF useful # {} \/ sectionsd_stop THEN {"gaveup"} ELSE {}

\* Sleep has to wait for a version of the sections, to tell a new one later.
Version ==
    /\ cn = "version"
    /\ \/ /\ eit_version # None
          /\ need_eit_version' = FALSE
          /\ UNCHANGED <<sendToSleepNow, trouble>>
       \/ /\ eit_version = None /\ ~need_eit_version
          /\ need_eit_version' = TRUE
          /\ sendToSleepNow' = FALSE \* reset after channel change
          /\ UNCHANGED trouble
       \/ /\ eit_version = None /\ need_eit_version
          /\ UNCHANGED <<need_eit_version, sendToSleepNow, trouble>>
       \/ /\ eit_version = None /\ need_eit_version
          /\ GivesUp(OfService)
          /\ need_eit_version' = FALSE
          /\ sendToSleepNow' = TRUE
    /\ cn' = "have"
    /\ UNCHANGED <<section, demux, current_service, filter, messaging, events, switches, server,
                   asker, broadcast, inputs>>

\* What has been stored is made known (EVT_GOT_CN_EPG); with both it is time to
\* sleep.
Have ==
    /\ cn = "have"
    /\ sendToSleepNow' = (sendToSleepNow \/ got_CN = Both)
    /\ cn' = "decide"
    /\ UNCHANGED <<section, demux, current_service, filter, current_servicekey, got_CN,
                   need_eit_version, events, switches, server, asker, broadcast, trouble, inputs>>

MaySleep == (sendToSleepNow /\ ~need_eit_version) \/ channel_is_blacklisted

Decide ==
    /\ cn = "decide"
    /\ \/ /\ MaySleep
          /\ sendToSleepNow' = FALSE
          /\ cn' = "pause"
          /\ UNCHANGED <<section, trouble>>
       \/ /\ ~MaySleep
          /\ cn' = IF section = None THEN "top" ELSE "check"
          /\ UNCHANGED <<section, sendToSleepNow, trouble>>
       \/ /\ ~MaySleep /\ ~need_eit_version
          /\ GivesUp(News)
          /\ sendToSleepNow' = TRUE
          /\ section' = None
          /\ cn' = "top"
    /\ UNCHANGED <<demux, current_service, filter, messaging, need_eit_version, events, switches,
                   server, asker, broadcast, inputs>>

\* real_pause(), and messaging_eit_is_busy becomes false.
Pause ==
    /\ cn = "pause"
    /\ RealPause
    /\ cn' = "wait"
    /\ UNCHANGED <<section, sendToSleepNow, current_service, filter, messaging, need_eit_version,
                   events, switches, server, asker, broadcast, trouble, inputs>>

\* eit_set_update_filter(): lets the sections of the current channel pass whose
\* version has the other parity.
eit_set_update_filter ==
    filter' = IF channel_is_blacklisted \/ eit_version = None THEN None
              ELSE [channel |-> current_servicekey, parity |-> (eit_version + 1) % 2]

Wait ==
    /\ cn = "wait"
    /\ eit_set_update_filter
    /\ cn' = "waiting"
    /\ UNCHANGED <<section, sendToSleepNow, demux, current_service, messaging, need_eit_version,
                   events, switches, server, asker, broadcast, trouble, inputs>>

\* A thread that wakes on a blacklisted channel waits again, whatever woke it.  The section
\* from before the sleep is still in the buffer and goes on to addEvent().
Woken ==
    /\ cn = "woken"
    /\ filter' = None
    /\ \/ /\ channel_is_blacklisted
          /\ cn' = "wait"
          /\ UNCHANGED need_eit_version
       \/ /\ ~channel_is_blacklisted
          /\ cn' = IF section = None THEN "top" ELSE "check"
          /\ need_eit_version' = FALSE
    /\ UNCHANGED <<section, sendToSleepNow, demux, current_service, messaging, events, switches,
                   server, asker, broadcast, trouble, inputs>>

\* Mutant: The channel of the event is not compared.
WantedOfAny == got_CN # Both

\* addEvent() looks under the messaging lock whether the event is of the
\* current channel and wanted ...
IsWanted == section.channel = current_servicekey /\ got_CN # Both

\* A channel change that runs between that look and the store, or a look
\* between the two steps of a channel change.
Overtaken == trouble' = trouble \cup {"overtaken"}

Check ==
    /\ cn = "check"
    /\ \/ /\ IsWanted
          /\ cn' = "store"
          /\ IF main # <<>> /\ Head(main) = "key" THEN Overtaken ELSE UNCHANGED trouble
          /\ UNCHANGED section
       \/ /\ ~IsWanted
          /\ cn' = "top"
          /\ section' = None
          /\ UNCHANGED trouble
    /\ UNCHANGED <<sendToSleepNow, demux, current_service, filter, messaging, need_eit_version,
                   events, switches, server, asker, broadcast, inputs>>

\* ... and stores it under the events lock.  A next event that has become the
\* current one has to be read again.
StoreCurrent(e) ==
    IF StoresCurrent(e)
    THEN /\ myCurrentEvent' = e
         /\ myNextEvent' = IF myNextEvent = e THEN None ELSE myNextEvent
         /\ got_CN' = IF myNextEvent = e THEN {"current"} ELSE got_CN \cup {"current"}
    ELSE UNCHANGED <<events, got_CN, inputs>>

StoreNext(e) ==
    IF StoresNext(e)
    THEN /\ myNextEvent' = e
         /\ got_CN' = got_CN \cup {"next"}
         /\ UNCHANGED myCurrentEvent
    ELSE UNCHANGED <<events, got_CN, inputs>>

Store ==
    /\ cn = "store"
    /\ IF section.kind = "current" THEN StoreCurrent(section.event) ELSE StoreNext(section.event)
    /\ section' = None
    /\ cn' = "top"
    /\ UNCHANGED <<sendToSleepNow, demux, current_service, filter, current_servicekey,
                   need_eit_version, switches, server, asker, broadcast, trouble, inputs>>

Read ==
    \/ \E s \in OnAir : ReadSection(s)
    \/ ReadUnmade
    \/ ReadNothing
    \/ ReadGarbage

cnThread ==
    \/ Start \/ Own \/ OwnPause \/ OwnCount \/ Begin \/ TestTime \/ WaitForTime
    \/ Top \/ Read \/ Reopen \/ Version \/ Have \/ Decide
    \/ Pause \/ Wait \/ Woken
    \/ Check \/ Store

\* messaging_eit_is_busy is false at the start and from the pause to the end of the sleep.
messaging_eit_is_busy == cn \notin Starting \cup {"wait", "waiting", "woken"}

-----------------------------------------------------------------------------
(* The main loop of sectionsd *)

request_pause   == <<"pause", "count">>

\* Mutant: The pause that is lifted stays counted.
UnpauseUncounted == <<"unpause">>

request_unpause == <<"uncount", "unpause">>

Begins(steps) == Lives /\ main = <<>> /\ main' = steps
Does(step)    == Lives /\ main # <<>> /\ Head(main) = step /\ main' = Tail(main)

\* commandserviceChanged(): the pauses of the blacklist, then, for another
\* channel only, the old events, the key and the demultiplexer.
commandserviceChanged(c) ==
    /\ Begins((CASE c \in blacklist /\ ~channel_is_blacklisted -> request_pause
                 [] c \notin blacklist /\ channel_is_blacklisted -> request_unpause
                 [] OTHER -> <<>>)
              \o IF c = current_servicekey THEN <<>> ELSE <<"clear", "key", "service">>)
    /\ IF current_servicekey = None THEN c \in Firsts /\ UNCHANGED inputs ELSE Input
    /\ zapTo' = IF c = current_servicekey THEN None ELSE c
    /\ UNCHANGED blacklist
    /\ channel_is_blacklisted' = (c \in blacklist)
    /\ UNCHANGED <<thread, demux, current_service, filter, messaging, need_eit_version, events,
                   scanning, sectionsd_stop, timeset, asker, broadcast, trouble>>

\* commandPauseScanning(), with 1 and with 0.
StopScanning ==
    /\ scanning
    /\ Begins(request_pause \o <<"off">>)
    /\ Input
    /\ UNCHANGED <<thread, demux, current_service, filter, messaging, need_eit_version, events,
                   switches, zapTo, blacklist, asker, broadcast, trouble>>

ContinueScanning ==
    /\ ~scanning
    /\ Begins(request_unpause \o <<"on", "change">>)
    /\ UNCHANGED <<thread, demux, current_service, filter, messaging, need_eit_version, events,
                   switches, zapTo, blacklist, asker, broadcast, trouble, inputs>>

\* The filter has let a section of a new version pass: everything is read again.
EitUpdate ==
    /\ Begins(<<"change">>)
    /\ \E s \in OnAir : IsUpdate(s)
    /\ got_CN' = {}
    /\ UNCHANGED <<thread, demux, current_service, filter, current_servicekey, need_eit_version,
                   events, switches, zapTo, blacklist, asker, broadcast, trouble, inputs>>

\* Mutant: change_cond is not broadcast.
StoppingSilently ==
    /\ sectionsd_stop
    /\ Begins(<<"settime">> \o request_pause \o <<"join", "joined">>)
    /\ scanning' = FALSE
    /\ UNCHANGED <<thread, demux, current_service, filter, messaging, need_eit_version, events,
                   channel_is_blacklisted, sectionsd_stop, timeset, zapTo, blacklist, asker,
                   broadcast, trouble, inputs>>

\* After the loop, once neutrino has set sectionsd_stop.
Stopping ==
    /\ sectionsd_stop
    /\ Begins(<<"settime", "broadcast">> \o request_pause \o <<"join", "joined">>)
    /\ scanning' = FALSE
    /\ UNCHANGED <<thread, demux, current_service, filter, messaging, need_eit_version, events,
                   channel_is_blacklisted, sectionsd_stop, timeset, zapTo, blacklist, asker,
                   broadcast, trouble, inputs>>

\* The steps of DMX: they touch the demultiplexer, the thread that waits and
\* current_service.
DemuxStep ==
    /\ \/ Does("pause") /\ RealPause /\ UNCHANGED <<current_service, cn, trouble>>
       \/ /\ Does("count")
          /\ real_pauseCounter' = real_pauseCounter + 1
          /\ UNCHANGED <<dmx, open, eit_version, current_service, cn, trouble>>
       \/ /\ Does("uncount")
          /\ real_pauseCounter' = real_pauseCounter - 1
          /\ UNCHANGED <<dmx, open, eit_version, current_service, cn, trouble>>
       \/ Does("unpause") /\ RealUnpause /\ UNCHANGED <<current_service, cn, trouble>>
       \/ Does("change") /\ Change(Missed \cup Turned) /\ UNCHANGED current_service
       \/ Does("service") /\ Change(Missed \cup Turned) /\ current_service' = current_servicekey
       \/ /\ Does("broadcast")
          /\ Signal(Missed \cup IF WillSleep THEN {"missed"} ELSE {})
          /\ UNCHANGED <<demux, current_service>>
    /\ UNCHANGED <<section, sendToSleepNow, filter, messaging, need_eit_version, events, switches,
                   zapTo, blacklist, asker, broadcast, inputs>>

\* The exit says that the time is set, and wakes who waits for it, without the mutex: a thread
\* between its test and its wait does not hear it.
SetTimeAtExit ==
    /\ Does("settime")
    /\ timeset' = TRUE
    /\ cn' = IF cn = "timewait" THEN "time" ELSE cn
    /\ trouble' = trouble \cup IF cn = "timegap" THEN {"missed"} ELSE {}
    /\ UNCHANGED <<section, sendToSleepNow, demux, current_service, filter, messaging,
                   need_eit_version, events, scanning, channel_is_blacklisted, sectionsd_stop,
                   zapTo, blacklist, asker, broadcast, inputs>>

Clear ==
    /\ Does("clear")
    /\ myCurrentEvent' = None /\ myNextEvent' = None
    /\ IF cn = "store" THEN Overtaken ELSE trouble' = trouble \ {"overtaken"}
    /\ UNCHANGED <<thread, demux, current_service, filter, messaging, need_eit_version, switches,
                   zapTo, blacklist, asker, broadcast, inputs>>

\* Mutant: What the old channel has got counts for the new one.
KeyKeepingOld ==
    /\ Does("key")
    /\ current_servicekey' = zapTo
    /\ zapTo' = None
    /\ need_eit_version' = FALSE
    /\ IF cn = "store" THEN Overtaken ELSE UNCHANGED trouble
    /\ UNCHANGED <<thread, demux, current_service, filter, got_CN, events, switches, blacklist,
                   asker, broadcast, inputs>>

Key ==
    /\ Does("key")
    /\ current_servicekey' = zapTo
    /\ zapTo' = None
    /\ got_CN' = {}
    /\ need_eit_version' = FALSE
    /\ IF cn = "store" THEN Overtaken ELSE UNCHANGED trouble
    /\ UNCHANGED <<thread, demux, current_service, filter, events, switches, blacklist, asker,
                   broadcast, inputs>>

Switch ==
    /\ \/ Does("off") /\ scanning' = FALSE
       \/ Does("on") /\ scanning' = TRUE
    /\ UNCHANGED <<thread, demux, current_service, filter, messaging, need_eit_version, events,
                   channel_is_blacklisted, sectionsd_stop, timeset, zapTo, blacklist, asker,
                   broadcast, trouble, inputs>>

\* pthread_join of the thread
Join ==
    /\ Does("join")
    /\ cn = "ended"
    /\ UNCHANGED <<thread, demux, current_service, filter, messaging, need_eit_version, events,
                   switches, zapTo, blacklist, asker, broadcast, trouble, inputs>>

MainStep == DemuxStep \/ SetTimeAtExit \/ Clear \/ Key \/ Switch \/ Join

MainLoop ==
    \/ \E c \in Channels : commandserviceChanged(c)
    \/ StopScanning \/ ContinueScanning
    \/ EitUpdate
    \/ Stopping
    \/ MainStep

-----------------------------------------------------------------------------
(* timeThread, a thread that asks for current and next, neutrino's exit, and time *)

\* timeThread has found the time.  It holds the mutex when it says so.
SetTime ==
    /\ cn \notin {"timegap", "crashed"}
    /\ ~timeset \/ cn = "timewait"
    /\ timeset' = TRUE
    /\ cn' = IF cn = "timewait" THEN "time" ELSE cn
    /\ UNCHANGED <<section, sendToSleepNow, demux, current_service, filter, messaging,
                   need_eit_version, events, scanning, channel_is_blacklisted, sectionsd_stop,
                   server, asker, broadcast, trouble, inputs>>

\* sectionsd_getCurrentNextServiceKey() of the current channel: something is
\* missing ...
Ask ==
    /\ asker = "idle" /\ current_servicekey # None
    /\ myCurrentEvent = None \/ myNextEvent = None
    /\ asker' = "missing"
    /\ Input
    /\ UNCHANGED <<thread, demux, current_service, filter, messaging, need_eit_version, events,
                   switches, server, broadcast, trouble>>

\* ... the thread is not at work, and the last request may be less than 11
\* seconds old ...
Hesitate ==
    /\ Lives /\ asker = "missing"
    /\ \/ asker' = "idle"
       \/ ~messaging_eit_is_busy /\ asker' = "restart"
    /\ UNCHANGED <<thread, demux, current_service, filter, messaging, need_eit_version, events,
                   switches, server, broadcast, trouble, inputs>>

\* ... so it is restarted.
Restart ==
    /\ Lives /\ asker = "restart"
    /\ Change(Missed \cup Turned)
    /\ asker' = "idle"
    /\ UNCHANGED <<section, sendToSleepNow, current_service, filter, messaging, need_eit_version,
                   events, switches, server, broadcast, inputs>>

\* stop_daemons() of neutrino
Stop ==
    /\ ~sectionsd_stop
    /\ Input
    /\ sectionsd_stop' = TRUE
    /\ UNCHANGED <<thread, demux, current_service, filter, messaging, need_eit_version, events,
                   scanning, channel_is_blacklisted, timeset, server, asker, broadcast, trouble>>

\* The thread holds a section of channel c, or has a part of what the channel now replaces and
\* does not wait for a new version.
HasOld(c) ==
    \/ section # None /\ section.channel = c
    \/ c = current_servicekey /\ got_CN # {} /\ ~(cn = "waiting" /\ filter # None)

\* The next programme of channel c begins.  A version lasts for minutes, so the filter is not
\* overtaken by two of them.
Turn(c) ==
    /\ broadcast[c] # None /\ broadcast[c] < MaxVersion
    /\ ~\E s \in OnAir : s.channel = c /\ IsUpdate(s)
    /\ Input
    /\ broadcast' = [broadcast EXCEPT ![c] = @ + 1]
    /\ trouble' = trouble \cup IF HasOld(c) THEN {"turned"} ELSE {}
    /\ UNCHANGED <<thread, demux, current_service, filter, messaging, need_eit_version, events,
                   switches, server, asker>>

Next ==
    \/ cnThread \/ MainLoop
    \/ SetTime
    \/ Ask \/ Hesitate \/ Restart
    \/ Stop
    \/ \E c \in Channels : Turn(c)

\* The threads run, the poll of the main loop finds what the filter lets pass,
\* and a broadcast repeats its sections: the thread meets each of the current
\* channel's again as long as it reads.
Fairness ==
    /\ WF_vars(cnThread)
    /\ WF_vars(MainStep \/ EitUpdate \/ Stopping)
    /\ WF_vars(Hesitate \/ Restart)
    /\ \A kind \in Both :
           SF_vars(/\ cn = "read" /\ current_servicekey # None
                   /\ broadcast[current_servicekey] # None
                   /\ ReadSection(Section(current_servicekey, kind)))

Spec == Init /\ [][Next]_vars /\ Fairness

-----------------------------------------------------------------------------
(* Properties *)

TypeOK ==
    /\ cn \in Places
    /\ section \in Sections \cup {None}
    /\ {sendToSleepNow, dmx, open, need_eit_version, scanning, channel_is_blacklisted,
        sectionsd_stop, timeset} \subseteq BOOLEAN
    /\ real_pauseCounter \in 0..4
    /\ eit_version \in Versions \cup {None}
    /\ {current_service, current_servicekey} \subseteq Channels \cup {None}
    /\ filter \in [channel : Channels \cup {None}, parity : {0, 1}] \cup {None}
    /\ got_CN \subseteq Both
    /\ {myCurrentEvent, myNextEvent} \subseteq Events \cup {None}
    /\ main \in Seq({"pause", "count", "uncount", "unpause", "change", "service",
                     "settime", "broadcast", "clear", "key", "off", "on", "join", "joined"})
    /\ zapTo \in Channels \cup {None}
    /\ asker \in {"idle", "missing", "restart"}
    /\ broadcast \in [Channels -> Versions \cup {None}]
    /\ trouble \subseteq {"missed", "gaveup", "twice", "overtaken", "turned"}
    /\ blacklist \in Blacklists
    /\ inputs \in 0..MaxInputs

One(b) == IF b THEN 1 ELSE 0

\* The pauses of the demultiplexer are counted right: whenever the main loop is between two
\* commands there is one for a blacklisted channel and one while scanning is off, however
\* channel changes and commandPauseScanning follow each other; and one more for good, that of
\* the thread itself, when scanning was switched off before the thread has looked at it
\* (sectionsd.cpp:7509).
PausesAreCounted ==
    main = <<>> => real_pauseCounter = One(channel_is_blacklisted) + One(~scanning)
                                           + One("twice" \in trouble)

\* The events that are shown are those of the channel that is watched: once a channel change
\* has cleared them nothing of the old channel comes back, unless the change ran between the
\* look addEvent takes at the key and its store.
NowNextIsOfChannel ==
    \A e \in {myCurrentEvent, myNextEvent} \ {None} :
        e.channel = current_servicekey \/ "overtaken" \in trouble

\* sectionsd never stays behind the broadcast: after each channel change, and after each new
\* version while it sleeps, it comes to show exactly the two events that are on the air.  It
\* fails only when the time is not set, scanning is off or the channel is silent or blacklisted,
\* after a signal nobody hears, a channel change that overtakes a store or a pause that is
\* counted twice, when the version turned while a part of the old one had been read, and when
\* the thread gives up after 35 seconds although what it waits for is on the air: it had been
\* paused meanwhile (sectionsd.cpp:7524, 7551, 7683).
UpToDate ==
    LET c == current_servicekey IN
    \/ cn = "crashed" \/ sectionsd_stop
    \/ ~timeset \/ ~scanning \/ channel_is_blacklisted
    \/ c = None \/ trouble # {}
    \/ broadcast[c] = None
    \/ /\ myCurrentEvent = Event(c, broadcast[c])
       /\ myNextEvent = Event(c, broadcast[c] + 1)
FollowsTheBroadcast == []<>UpToDate

\* neutrino's exit comes to an end: the thread leaves its loop and is joined.  It hangs only when
\* the channel is blacklisted, when the thread was about to wait, for the time or for a change,
\* when the conditions were broadcast, or when it gives up waiting for a version after that.
ShutdownEnds ==
    []<>(sectionsd_stop => \/ main = <<"joined">> \/ cn = "crashed"
                           \/ trouble \cap {"missed", "gaveup"} # {} \/ channel_is_blacklisted)
=============================================================================
