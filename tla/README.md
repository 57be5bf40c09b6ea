# A TLA+ verification project for HCAN

HCAN is a house automation system: small AVR boards on a CAN bus that switch
shutters, lights, power ports and heating, and host programs that configure
and flash them. This directory holds TLA+ models of its core, TLC
configurations that check them on small instances, and TLAPS proofs that hold
for every instance. Paths in this file are relative to the repository's root
(`src/...` in `PROJECT.json`). Names in the modules are the names of the code
where TLA+ allows it; the names of properties and observers are German, as are
the comments of the code.

    tlc -workers 2 -config Rolladen.cfg MCRolladen     # a run
    tlapm RelaisProofs.tla                             # a proof

## 1. The system and its parts

| Part | State | Operations | Interaction | What is hard |
|---|---|---|---|---|
| **canix** (`canix/canix.c`, `mcp2515.c`) | receive queue of slots, three transmit buffers, sleep ticker, stack of message loops | timer interrupt, `canix_process_messages`, `canix_sleep_100th`, `canix_frame_send` | calls the frame and idle callbacks of every device; a frame sent is delivered to the board's own callbacks first | the interrupt between any two steps, callbacks that sleep or send, full queues |
| **Clock** (`canix.c`, `hcan_rts.c`) | date and time, age of the last time frame | counted in the interrupt, corrected by `TIME_INFO`, `DATE_INFO` | bus, interrupt | fields read and written one by one with interrupts on |
| **Time service** (`timeservice.c`) | seconds since a frame was seen and sent | one-second handler, frame handler | boards compete for being the time master | failures, restarts, lost frames, phases of the handlers |
| **EEPROM data store** (`canix/eds.c`) | chain of blocks in the EEPROM | format, allocate, free, defragment, write | requests over the bus, read by the devices at boot | power failures between two bytes, sizes of one byte, walks without a bound |
| **Device configuration** (`devices.c`) | one record in RAM per block | load at boot and on `CONFIG_RELOAD` | reads the data store, re-initialises every device | a store left in any state by requests and power failures |
| **Shutter** (`rolladen.c`) | relay state machine, pending command, position, target | button, position and definition frames, 100 ms handler | frames from buttons, panels, automats | a frame in any of twelve states, dead times of two relays |
| **Lighting** (`lichtzone.c`, `powerport.c`) | state and timers of zones and ports | button and group frames, one-second handler | zones send group frames to ports on other boards | frames lost, overtaken and delivered locally first |
| **Power supply** (`usvstatemachine.c`) | relay, rest timer, switch-back counter | idle handler, timer interrupt | – | measurements of different moments, the interrupt in between |
| **Flashing** (`board_driver.cc`, `hcanbl32/main.c`) | progress of `cmd_flash`; buffer, flash and checksum of the board | request and answer, line by line | host and boot loader over the bus | lost frames, late answers, power failures, retries |
| **Heating** (`heizung.c`, `zeitzone.c`, `tempsensor.c`, `reedkontakt.c`, `zentralheizungspumpe.c`) | mode, pulse width and a dozen counters of a valve; zones of time; counters of sensor and contact; table of demands of the pump | mode and temperature frames, one-second handlers | contact and sensor report to the valve, the valve to the pump, the pump switches a power port | reports are lost, the seconds of three boards drift, durations outlive their mode, boards restart |
| **Protocol** (`xml/`, `include/hcan-def.h`, `libhcan++/hcan_transport.cc`, every `*_can_callback`) | none but the bytes in a socket | `send_X`, `recv_X` for each of 148 messages; handlers | host programs, panel, devices and boot loader, which agree only by numbers and positions | a byte in the wrong place, answers late, of other requests or of several devices |
| **Way of a frame** (`hcand`, `hcanaddressd`, `hcanhid`, `hostinterface-v02`, `libhcan++/frame.cc`, `dynaddress.cc`) | table of peers, table of addresses, half a byte on each end of a serial line | forwarding loop and alarm, single-frame buffers, resets | programs over datagrams, hcanhid and host interface over hexadecimal digits | the alarm inside the loop, lost characters, both ends writing, full tables |
| Inputs, automats, panel pages, watchdog, measurement files | see `PROJECT.json`, "components" | | | |

What makes them correct, in a sentence each: canix loses no frame uncounted and
delivers none twice, and never reads an empty queue or nests message loops
without bound; a clock that is right stays right; one time master is left after
every failure; the chain of blocks is intact at every moment and blocks only
change by request; a load finds every device; the shutter never switches a
relay that has not rested, its position stays bounded and its motor stops;
lamps and zones agree and nothing with a timer stays on; the power supply
neither chatters nor leaves a load without its battery; a board that starts on
its own runs a whole firmware; an open window closes the valve, the valve
follows its mode and the pump follows the valves; a handler finds in a message
what its sender put there; the bus gets the frames of the host as they were
sent, once.

## 2. Modules

| Module | Models | Composition |
|---|---|---|
| `Motorrelais` | abstract: what the shutter promises its two relays | implemented by `Rolladen` (`SchontRelais`) |
| `Rolladen` | `rolladen.c` | |
| `EdsBloecke` | abstract: a set of blocks that only requests change, each at once or not at all | implemented by `Eds` (`HaeltBloecke`) |
| `Eds` | `eds.c`, one step per EEPROM byte | |
| `Konfiguration` | `devices_load_config` | extends `Eds` |
| `Canix` | interrupt, receive queue, message loop, sleeping | |
| `CanixSenden` | `canix_frame_send`, transmit buffers, local delivery | |
| `Uhr` | the clock | |
| `Zeitdienst` | `timeservice.c` on several boards | |
| `Usv` | `usvstatemachine.c` | |
| `Flashen` | `cmd_flash` and the boot loader | composes host, bus and board |
| `Lichtzone`, `Powerport` | handlers of one zone and one port as operators on its record | |
| `Beleuchtung` | zones and ports on several boards | composes `Lichtzone` and `Powerport` with the bus of `Canix` and `CanixSenden`, abstracted to a lossy bag |
| `Heizung` | handlers of valve, zone of time, contact, sensor and pump, as operators on their records | |
| `Heizkreis` | the heating circuit over three boards | composes the devices of `Heizung` with a lossy bus |
| `Nachrichten`, `HcanDef` | every message: its service, number and the meaning of its bytes as `send_X` puts and `recv_X` expects them; the numbers of the headers | |
| `Firmware`, `Meldungen` | what each handler reads of each message and answers; what devices and panel send on their own | |
| `Hostrufe` | the calls of the host programs as sequences of sending and awaiting | |
| `Protokoll` | a session of the host with the boards, and messages between boards | composes the five above |
| `Frame` | encoding of a frame for hcand and as digits of the serial line | |
| `Hcand`, `Hid`, `Adressen` | hcand with its alarm; hcanhid, the line and the host interface; hcanaddressd and its clients | |
| `Hostweg` | the way of a frame between programs and bus | composes the four above |
| `MC*` | instances for TLC; `Canix` and `Usv` need none | |
| `RelaisProofs` | theorems about `Rolladen` and `Usv`, the devices that switch a relay under load | |
| `CanixProofs` | theorems about `Canix` and `Uhr` | |
| `SendenProofs` | theorems about `CanixSenden` and the addresses of `Hostweg` | |
| `EdsProofs` | theorems about `Eds` and `Konfiguration` | |
| `ZeitdienstProofs`, `FlashenProofs`, `BeleuchtungProofs`, `HeizkreisProofs` | theorems about the module of that name | |

Where two modules share a module of proofs, one of them prefixes the names every
specification has (`UsvInit`, `UhrSpec`, `HostwegNext`, ...).

`PROJECT.json`, "map", gives the lines each definition stands for.

**Atomicity.** Frame handlers and timer handlers of devices run on the main
loop of one board and do not interrupt each other, so each is one action
(`Rolladen`, `Zeitdienst`) or one action per device (`Beleuchtung`, where a
zone's frames reach later devices of the same visit first). Where an interrupt
shares state with the main loop (`Canix`, `Uhr`, `Usv`) every access with
interrupts on is a step of its own, and what is between `cli()` and `sei()` is
one step. In `Heizkreis` the one-second handlers of a board are one action and
a frame arrives before the next one. In `Hostweg` every system call is a step,
and the alarm of hcand comes between any two; while hcand forwards a frame the
other programs wait, since their steps commute with its own (they only add to
the end of its socket or take from the front of theirs). Where power may fail (`Eds`, `Flashen`) every EEPROM byte and every
page of flash is one (erasing and writing a page are two); a torn byte is not
modelled.

**Abstractions of data.** Frames are model values or small records. A voltage
is one of three ranges. The checksum of a firmware is its content, that is,
crc16 is taken to tell apart the contents that occur. Texts of log messages,
answers that only read state, LEDs and the packing of CAN identifiers are left
out.

## 3. Runs

Passing runs:

| Run | Properties (`konfiguration` also `TypeOK`, `uhr` also `UhrTypeOK`) | Bounds and why they suffice |
|---|---|---|
| `rolladen` | `BefehlPasst`, `PositionInGrenzen`, `SchontRelais` (refinement), `FaehrtUndSteht` (liveness) | way of 16 ticks, calibration after 14: longer than every dead time, so that all states are left on time, by target and by end switch; a button, its own and a foreign group, positions for every branch |
| `konfiguration` | `KetteHeil`, `HaeltBloecke` (refinement), `LaedtAlle`, `WirdFertig` (liveness) | 15 EEPROM cells, formatted as two blocks whose union exceeds the merge limit; requests that fit exactly, with a rest, with an empty rest, not at all |
| `canix` | `GenauEinOrt`, `LiestNieLeer`, `NichtReentrant`, `SchlaeftAus`, `WirdZugestellt` (liveness, of frames, sleeps and idle callbacks) | three frames for two slots, each of which recurs for ever: full queue, overtaking, frames during a sleep, an overrun of RXB0, a low slot that is filled again and again; sleeps of one and two ticks |
| `canix_senden` | `NieUeberschrieben`, `LokalZugestellt` | four frames for three buffers; callbacks that match all, some and no frames |
| `uhr` | `SynchronBleibt` | a day of 3 × 2 × 8 seconds and an `int` of 32 values: as in the code a day is longer than `int` |
| `zeitdienst` | `EinMaster`, `ZeitImTakt`, `ZeitKommt` (liveness) | three boards, three disturbances (failure, restart, missed frame) |
| `usv` | `PrelltNicht`, `WartetAufNetz`, `VersorgungKommt` (liveness) | the times of the code shortened in their order |
| `flashen` | `ErfolgHeisstGleich`, `SpringtRichtig`, `BootetNurGanzes`, `KommtZumEnde` (liveness) | two pages of two lines of two frames, two tries, two disturbances: enough for a retry that is itself disturbed |
| `beleuchtung` | `Einig`, `GehtVonSelbstAus` (liveness) | two boards, two zones sharing a lamp and the off group of the house, three inputs and one lost frame; timers of SET_TIMER and WECKER_SET of 0 and 1 |
| `heizkreis` | `FensterOffenZu`, `Regelt`, `PumpeFolgt` (liveness) | the times shortened in an order that keeps every race: a stop of the heating outlasts a lost report, the demand is reported later after opening than otherwise, a measured value gets too old. `Vorraete` gives scenarios: all four mode commands in any order; a window with a lost report; a window opened and closed; a changed room, clock or zone of time; a restart of any board with a window open; another valve with a lost report; two other valves, whose demands and its own exceed 255 percent; a broken sensor. Users may act from the first second on |
| `protokoll` | `Verstanden`, `KeineVerwechslung`, `AbbruchNurGestoert` | every call and every message; one frame left over from an earlier call, one foreign frame, one loss. Messages carry names of their bytes' meanings instead of values, so that one run stands for all values |
| `hostweg` | `Unverfaelscht`, `HoechstensEinmal`, `EigeneAdresse`, `WiederAngemeldet` (liveness) | two programs and hcanhid for two slots of hcand and one address too few; `Vorraete` gives scenarios: two programs that start and end, one with frames both ways, with characters lost on either way or on both; a program or a board that never stops sending. Either direction of the line holds eight characters, fewer than a frame, so that it fills up with every frame, and both may be full |

Deadlock is checked except in `canix_senden` (every frame has been sent),
`zeitdienst` (all boards are off) and `flashen` (the command is over), where the
modelled system really stops.

**Fairness.** `Rolladen`: weak fairness of the timer, which the idle handler of
a main loop that never blocks polls. `Canix`: the interrupt keeps coming, the
processor keeps running, and a callback that is entered again and again is also
left (strong fairness of `zurueck`); idle callbacks are promised only once the
bus is quiet. Frames recur, but nothing demands that they do, so that both a
quiet bus and one that never rests are behaviours. `Eds`/`Konfiguration`: a request or load that has begun goes on;
power failures are never assumed. `Zeitdienst`: a running board calls its
handler every second. `Usv`: interrupt and idle handler. `Flashen`: the host
program runs to its end and the board takes the frames it was sent; that
frames arrive is not assumed. `Beleuchtung`: visits go on; receiving and the
seconds are strongly fair, since a visit of one board disables them for a moment
only in the model. `Heizkreis`: the seconds of the two boards go on; `Regelt` and `PumpeFolgt` are
about what holds for good once users, windows, rooms and losses have come to
rest. `Hostweg`: hcand, its alarm, hcanhid and the host interface keep running
(the latter two strongly fair, since a datagram in hcand holds them up only in the model).
`Protokoll` has no liveness: every wait ends by its timeout. Requests, button
presses, losses and failures are never fair.

### Where a property has an exception

Some properties name what the code does not keep, so that the rest can be
checked. The run reaches each of these cases.

| Property | Exception | Why |
|---|---|---|
| `GenauEinOrt` | a frame that meets a full RXB0 is lost and not counted | one receive buffer without rollover, polled every 0.28 ms (`mcp2515.c:262-270`, `canix.c:281`) |
| `WirdZugestellt` | a frame may wait for ever while the slots before its own are filled for ever | `canix.c:535` takes the first used slot |
| `Einig` | while frames with opposite words are under way to a group, the next one does not settle it | boards hear two senders in different orders |
| `GehtVonSelbstAus` | SET_TIMER 0 and WECKER_SET 0 stop a countdown, and the light stays on | `lichtzone.c:299`, `powerport.c:124` |
| `Verstanden` | WECKER_SET on the bus is not understood | `hcan-def.h:474-478` and the library against `powerport.c:234-241` and `weck_page.c:75-90`: two layouts |
| `HoechstensEinmal` | says nothing about order, and a frame may be dropped | three transmit buffers, whose order the controller chooses; the result of `can_send_message` is ignored (`hostinterface-v02/main.c:143`) |
| `WiederAngemeldet` | both ends of the line wait for a full line for ever | `usb.c:19` and `unix_uart.c:78` block inside a write |
| `WiederAngemeldet` | hcanhid waits for ever for the flag after Y that the line lost | `hcanhid/main.c:127` |
| `Regelt` | a valve whose mode was set before it was set once stays closed in a cold room | `heizung.c:79` divides by `pwm_end` 0 |
| `Regelt` | the end of an earlier duration leads from OFF to AUTOMATIK | `heizung.c:229` |
| `PumpeFolgt` | from 256 percent on the pump follows the sum modulo 256 | `zentralheizungspumpe.c:97` |
| `PumpeFolgt` | a window that stops the valve of a cold room postpones the report again and again | `heizung.c:183` |

### Further deviations

The following statements are not among the runs, or are what a property above excepts. Most of them are from a comment
or a document, and the code does not keep them. Each is defined in the module
of the run named in the first column; TLC gives the trace when the run's
configuration is changed as said there and checks this property only. Only the
power failure inside `eds_format` has a configuration of its own.

| Run and change | Property | Statement and what the code does |
|---|---|---|
| `Rolladen`: `SPECIFICATION SpecReload` | `DirNurStromlos` | `rolladen.c:38`; `CONFIG_RELOAD` during a journey leaves the motor powered in STOP, and the next command down switches the direction under load |
| `Rolladen`: `SPECIFICATION Spec` | `DirNach500ms` | `rolladen.c:38` "fruehestens nach 500msec"; up, stop, down switches after 400 ms |
| `Rolladen`: `SPECIFICATION Spec` | `ManuellHatVorrang` | `rolladen.c:106-108`; a press in a wait state with power on leaves the target active |
| `Rolladen`: `SPECIFICATION Spec` | `InitialWarten` | `rolladen.c:126` "initial warten"; STOP never looks at the counter |
| `Rolladen`: `SPECIFICATION Spec` | `ZaehltNurFahrt` | `rolladen.c:577`; the way down is counted in AB_WAIT_1, without power |
| `Konfiguration`: `MaxPdevice = 1` | `ImRamPlatz` | `devices.c:188`; the number of devices is compared with the size of the wrong array |
| `CanixSenden` | `VerworfeneGezaehlt` | `hcan-protocol.xml:203`; a frame dropped because no buffer is free is not counted |
| `Uhr`: `MCTage`, `MCEchtzeiten` | `KorrigiertAbweichung` | `hcan_rts.c:73`; `abs` of a 16 bit `int` does not see deviations of 65536 or 32768 seconds |
| `Uhr`: `MCTage`, `MCEchtzeiten` | `Frisch` | `canix.c:249` "254 Sekunden", `rtc.h:26`; the counter counts hours |
| `Uhr`: `MCTage`, `MCEchtzeiten` | `GueltigHeisstDatum` | `rtc.h:43-44`; `TIME_INFO` alone makes the date valid |
| `Uhr`: `MCTage`, `MCEchtzeiten` | `WochentagGesetzt` | `rtc.h:17`; the day of the week is taken over only with a deviating time |
| `Usv` | `Nach30Sekunden` | `usvstatemachine.c:225` "nach 30sec"; a second that has begun counts, 29.3 seconds suffice |
| `Beleuchtung` | `ErstEinDannExt` | `lichtzone.h:25-27`; presses of any button of the house count for the triple click |
| `Beleuchtung`: `Eingaben <- MCEingabenWecker` | `BackofenAus` | `powerport.h:29`; an alarm clock bit that POWER_GROUP_OFF has left keeps the oven on |
| `EdsCrash.cfg` (module `Eds`) | `MagicHeisstFormatiert` | power fails inside `eds_format`: the magic bytes promise a store that is not there, and no later boot repairs it |
| `Konfiguration` | `FehlerHeisstFalscheGroesse` | a failed allocation writes its type to cell 0, where the next load finds a block that does not exist and unloads all devices |
| `Flashen`: `SPECIFICATION SpecImLoader`, `Versuche = 3`, `MaxStoerung = 1` | `NochmalsVersucht` | `board_driver.cc:398` "nochmals versucht"; one late acknowledgement makes the retry fail |
| `Heizkreis`: `Vorraete <- NurFenster` | `PumpeFolgtImmer` | `heizung.c:356` "alle 60 Sekunden"; in a cold room with an open window every attempt to open the valve postpones the report (`:183`), and the pump runs on |
| `Heizkreis`: `Vorraete <- MitAnderen` | `PumpeFolgtAllen` | `zentralheizungspumpe.c:97` casts the sum to a byte before dividing, the log line above divides first: three valves at 100, 100 and 60 percent switch the pump off |
| `Heizkreis`: `Vorraete <- NurAutomatik` | `RegeltImmer` | `heizung.c:79`; automatic mode within the first seconds divides by `pwm_end` 0, the valve counts as open, and a cold room never opens it |
| `Heizkreis`: `Vorraete <- HalbDannAus` | `AusBleibtAus` | `heizung.c:229`; the duration of an earlier manual mode ends in automatic, although the heating was switched off meanwhile |
| `Protokoll` | `AntwortFrisch` | a late answer, or that of a second device of the group, is taken for the answer to the next request |
| `Hostweg`: `Vorraete <- ZweiHer`, `MaxCan = 2` | `HerUnverfaelscht` | one character lost from the host interface shifts what follows, since hcanhid never resets `firstBitsChar` |
| `Hostweg`: `Vorraete <- ZweiHin`, `MehrAlsEins = TRUE` | `Unverfaelscht` | two characters of one frame lost: the size, the only check, may fit again |
| `Hostweg`: `Zufall = {512}` | `EigeneAdresse` | no address left: `dynaddress.cc:55` makes an error object without throwing it |
| `Beleuchtung`: `zone <- MCzoneAllein`, `MaxVerlust = 0` | `ExtGehtAus` | `lichtzone.h:30`; a zone without `timer_delay` never leaves ON_EXT |

## 4. Proofs

| Module | Theorems | Argument |
|---|---|---|
| `RelaisProofs`: `Rolladen` | `TypKorrekt`, `BefehlPasstImmer`, `PositionBleibtInGrenzen` (all with reloads), `RelaisGeschont`: `Spec => SchontRelais` | the refinement needs `Rast`: which pins a state implies, and that the ticks since a relay switched plus those still to wait make up its pause. The position needs `Weg`: how far the counter may have run over an end in each state, by the ticks its wait states have left; without it a chain of reversals could add up |
| `RelaisProofs`: `Usv` | `UsvTypKorrekt`, `RelaisPrelltNicht`, `RueckkehrWartet` | `Ruhezeit`: ticks since switching plus ticks of rest left make up the rest, and none is left once measuring has begun. `Geduld`: ticks since switching plus those the counter still runs exceed the time to wait, from the moment the counter is set |
| `EdsProofs` | `TypKorrekt`, `KetteBleibtHeil`, `StoreHaeltBloecke`: `Spec => HaeltBloecke`; with the loader walking over the store, `StoreUnterLast` and `LadenVollstaendig` | `IInv`: the chain is intact outside `eds_format`; a walk's pointer is a block or the end; between the writes of a split the rest lies inside the block being split; while formatting, the blocks made so far end at the pointer. The refinement adds `Freiheit`: the block a request or a merge works on is free, so that its writes are invisible until the type byte is set. `Lade`: behind the walk of a load every block of a known type has its device |
| `CanixProofs`: `Canix` | `TypKorrekt`, `LiestNieAusLeererQueue`, `SchlaeftNieDoppelt`, `KeinFrameDoppelt`, `SchlaeftGanzeZeit` | `IInv`: one or two message loops, the second inside a callback and exactly while `running` is set; only the innermost takes frames, and the interrupt only adds them. `Schlaf`: ticks slept plus ticks left on the ticker make up the sleep |
| `CanixProofs`: `Uhr` | `UhrTypKorrekt`, `UhrBleibtRichtig`: `UhrSpec => SynchronBleibt` | `Gleichlauf`: a `TIME_INFO` is at most one second old when its handler begins (`Flug`) and two when it ends (`Alt`); a reading of the fields that no tick fell into is the time of the clock (`Gelesen`), so that a clock that is right is written only after the tick of this second has fallen, and the writes are not torn as well (`Gesetzt`). The types need that every carry of the fields wraps at equality from inside its range |
| `SendenProofs`: `CanixSenden` | `TypKorrekt`, `FrameBleibtErhalten`, `JederCallbackEinmal` | `Ordnung`: only the innermost call of the stack is before its callbacks, so that nothing fills the buffer between its choice and its use; no frame is in two buffers or both in a buffer and before it. `Zustellung`: each call on the stack has delivered its frame to the matching callbacks it has asked, and to no other |
| `SendenProofs`: `Hostweg` | `AdressenSindEigene`: `HostwegSpec => []EigeneAdresse` | `Adressordnung`: a program waits for its answer at most once; a program in a slot was answered and has the address of the slot, so that no program is in two slots; at most one living program was answered without a number. The last part counts: when all slots are taken they hold all the other programs, so that no second one can come away empty |
| `ZeitdienstProofs` | `NurMasterSendet`, `MasterHaeltTakt` | `Takt`: every board of the lowest level has counted the quiet seconds and either still counts towards its first frame or has sent and was heard by all higher levels. Each part depends on who has already run its handler in this second |
| `FlashenProofs` | `ErfolgIstErfolg`, `NurGleicheAusgelassen`, `StartetNurGanzes` | `Stand`: what every frame on its way and every state of host and board says about the flash. A page the cache calls equal is equal (`Gleich`), also while it is rewritten, since such a page is never filled (`Zurecht`); the checksum read before comparing is that of the flash (`Geprueft`); a stored checksum is that of a whole firmware (`Gespeichert`) |
| `BeleuchtungProofs` | `LichtTypKorrekt`, `LichtWirdEinig`: `Spec => []Einig` | `Lichtordnung`, with `Einmuetigkeit`: a settled group has one word, the last; every frame under way to a group that shares a device with it says this word, and every zone and lamp of the group has it or has such a frame still before it. `Einig` alone says nothing while frames are under way, and frames to other groups disturb it through shared devices |
| `HeizkreisProofs` | `FensterSchliesst`: `Spec => []FensterOffenZu` | `Rechtzeitig`: an open window is either not yet heard of, and then the next report comes in time for the reports that may still be lost, or the heating is stopped, and then the stop outlasts the reports that may still be lost and the valve closes by the deadline. Both depend on which of the two boards is a second ahead |

The theorems hold for all constants that satisfy the modules' `ASSUME`s (EEPROM
sizes, numbers of slots, callbacks, frames and boards, running times, group
sets, times of the power supply, levels and intervals, pages, lines and tries,
times of the heating, calendars and widths of `int`, houses of any boards, zones,
ports and groups, programs of the host) and, where a theorem names them, for its hypotheses:

- `RelaisGeschont`: `DirPause <= 4`, `PowerPause <= 2`, the pauses the code keeps.
- `PositionBleibtInGrenzen`: a way of at least 14 ticks (1.4 s). A shorter one is
  counted out of its range by the wait states of one reversal.
- `FensterSchliesst`: if at most `n` reports are lost, `REED * (n + 1) + 2 <=
  HEIZSTOP`. With the times of the code (a report every 5 seconds, a stop of 60)
  `n` may be 10. Beyond that the heating really starts again.
- `AdressenSindEigene`: `GenugAdressen`, that is, there are at most as many programs
  as addresses, whatever an uninitialized variable holds; or one more, and the
  variable of the one without a number holds none of the numbers. With two more,
  or by that chance, two programs do get the same address (section 3).
- `Beleuchtung` assumes what a configuration in the EEPROM gives by its layout: bytes
  for groups and delays, 255 for no group, four groups to a port, every device on
  a board; and that no button group of a zone is of two kinds, since the handler
  compares them one after the other. The lamps `Einig` speaks of are the ports that
  only group frames switch.
- `Uhr` assumes that `int` tells apart deviations of twice the tolerance of 3 seconds
  (it has 65536 values in the code).
- `Eds` assumes something of the remainder that `eds_format` leaves; it holds for
  both EEPROM sizes in use (1024 and 2048 cells). `Spec` has power failures
  everywhere but inside `eds_format` (see `MagicHeisstFormatiert` above).
- `Zeitdienst` assumes that a board waits at least three seconds longer than the
  interval of every board of a lower level. With less it takes over while the
  master is well.

Frame contents, the order of requests and the moments of losses, failures and
interrupts are arbitrary. What a model bounds for TLC (disturbances, losses,
commands) is an arbitrary number in the proofs.

The proof of `FensterSchliesst` gave the deadline `FRIST` its present form: after
a restart of the valve's board with an open window up to `REED - 1` seconds pass
until the contact reports, which may be longer than the phase of its group. The
bounds of the run do not tell the two apart.

Only model-checked, and why:

- Liveness (`FaehrtUndSteht`, `WirdFertig`, `WirdZugestellt`, `ZeitKommt`,
  `VersorgungKommt`, `KommtZumEnde`, `GehtVonSelbstAus`, `Regelt`, `PumpeFolgt`,
  `WiederAngemeldet`): fairness and `ENABLED` are out of the prover's reach.
- `Protokoll`: its statement is about tables of 148 messages, every one of which
  TLC visits; there is no parameter a proof could generalise.
- `Hostweg.Unverfaelscht` and `HoechstensEinmal`: what the pairs of digits in the line
  stand for, from wherever a character is missing on, is induction over data.

## 5. Not modelled, and the plan

`PROJECT.json` lists every part with its status. Left out for good: drawing and
texts of the user panel, the bit timing of the one-wire bus, parsing and
printing of the command line tools, XML lookups, LEDs and log texts.

Known hazards without a property: a bistable relay sleeps inside its handler
(`powerport.c:80`); `eds_format` sends log messages inside its loop
(`eds.c:38`); the host keeps block addresses that another host may move
(`eds_connection.cc:416`); the time master reads its clock field by field
(`timeservice.c:45`); the padding loop of `ihexfile.cc:67` counts with a byte;
more devices than `pdevice_data` holds (`devices.c:186`, `ImRamPlatz`);
a wire without a sensor reads as a temperature just below zero and opens the
valve (`tempsensor.c:110`, which ignores what `ow_reset` returns); demands of a
valve whose board is gone stay in the pump for ever.

Planned, in this order:

1. Proofs: the types of the records of `Heizung` beyond the fields `Rechtzeitig`
   needs; `HoechstensEinmal` for the part of it that does not cross the line.
2. Inputs: debouncing of `taster`, `multitaster`, `schalter`, joined to
   `Beleuchtung`, with `powerportAutomat` and `tastdimmer`; the bistable relay
   with its nested message loop.
3. `rolladenAutomat`, `rolladenSchlitzpos`, `zeitschaltuhr` driving `Rolladen`.
4. The block list of `eds_connection`, `hcanswd`, the measurement files, the
   pages of the panel as a state machine, `hcanbl8` as a variant of `Flashen`.
