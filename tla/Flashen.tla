------------------------------- MODULE Flashen -------------------------------
(***************************************************************************)
(* Flashing a board: cmd_flash of the host (board_driver.cc) against the   *)
(* boot loader (hcanbl32/main.c), over a bus that loses frames and answers *)
(* late, with power failures of the board.  The host sends a page line by  *)
(* line into the boot loader's buffer, has it written, and finally asks    *)
(* for the checksum of the flash and stores it in the EEPROM, where the    *)
(* boot loader looks for it before it starts the application.              *)
(*                                                                         *)
(* A firmware is a version for every page; a word of it carries the page   *)
(* and the version, so that a word in the wrong place shows.  The checksum *)
(* of a content is the content itself: crc16 is taken to tell the contents *)
(* apart.  All firmwares have the same padded size.                        *)
(***************************************************************************)
EXTENDS Naturals, Sequences

CONSTANTS Bloecke,      \* pages of a firmware
          Zeilen,       \* lines of a page
          ProZeile,     \* FLASH_BUFFER_FILL frames of a line
          Versuche,     \* n_trys
          Versionen,    \* versions of a page
          Neue,         \* firmwares the user flashes
          MaxStoerung,  \* lost frames, late answers and power failures
          MaxBefehle    \* flash commands

Nummern == 0..(Bloecke - 1)
Zellen == 0..(Zeilen * ProZeile - 1)
Firmwares == [Nummern -> Versionen]

ASSUME FlashenAssumption ==
  /\ Bloecke \in Nat \ {0} /\ Zeilen \in Nat \ {0} /\ ProZeile \in Nat \ {0}
  /\ Versuche \in Nat \ {0} /\ MaxStoerung \in Nat /\ MaxBefehle \in Nat
  /\ Neue \subseteq Firmwares
  /\ 0 \notin Versionen

Wort(f, b) == <<b, f[b]>>
Seite(f, b) == [i \in Zellen |-> Wort(f, b)]
Inhalt(f) == [b \in Nummern |-> Seite(f, b)]
Muell == [i \in Zellen |-> <<0, 0>>]
Keine == [b \in Nummern |-> 0]        \* no cached file
Leer == [b \in Nummern |-> [i \in Zellen |-> <<Bloecke, 0>>]]  \* never stored

VARIABLES pc, phase, neu, cache, block, index, trys, inkr, board_crc, geprueft,
          befehle,                                           \* the host
          hin, her, stoerungen,                              \* the bus
          mode, start, lineCounter, buffer, flash, ee,       \* the board
          unsicher  \* history: an uncompared, wrong checksum was stored

host == <<phase, neu, cache, trys, inkr, befehle>>
ziel == <<block, index>>
summe == <<board_crc, geprueft, unsicher>>
board == <<mode, start, lineCounter, buffer, flash, ee>>
bus == <<hin, her, stoerungen>>
vars == <<pc, host, ziel, summe, bus, board>>

Enden == {"ruhe", "fertig", "crc_fehler", "abbruch", "verloren"}

(* A board that runs a firmware, or waits in its boot loader; the file in  *)
(* the cache may be anything, and another host may have flashed the board. *)
Init == /\ pc = "ruhe" /\ phase = "inkr"
        /\ neu \in Neue
        /\ cache \in Firmwares \cup {Keine}
        /\ block = 0 /\ index = 0 /\ trys = 0
        /\ inkr = FALSE /\ geprueft = FALSE /\ unsicher = FALSE
        /\ board_crc = Leer
        /\ befehle = MaxBefehle /\ stoerungen = MaxStoerung
        /\ hin = <<>> /\ her = <<>>
        /\ mode \in {"app", "loader"} /\ start = "load"
        /\ lineCounter = 0 /\ buffer = Muell
        /\ \E f \in Firmwares : flash = Inhalt(f) /\ ee \in {<<Inhalt(f), Inhalt(f)>>, <<Leer, Leer>>}

-----------------------------------------------------------------------------
(* The bus: every frame arrives in order or, as a disturbance, not at all. *)

Nachricht(t, a, w) == [typ |-> t, adr |-> a, wert |-> w]
Gestoert == stoerungen > 0 /\ stoerungen' = stoerungen - 1

Sende(m) == /\ UNCHANGED her
            /\ \/ hin' = Append(hin, m) /\ UNCHANGED stoerungen
               \/ Gestoert /\ UNCHANGED hin

Antworte(m) == /\ hin' = Tail(hin)
               /\ \/ her' = Append(her, m) /\ UNCHANGED stoerungen
                  \/ Gestoert /\ UNCHANGED her

Schweige == hin' = Tail(hin) /\ UNCHANGED <<her, stoerungen>>

-----------------------------------------------------------------------------
(* The host.  recv_X takes the next frame, whatever it is.                 *)

Empfange(t) == /\ her # <<>>
               /\ Head(her).typ = t
               /\ her' = Tail(her)
               /\ UNCHANGED <<hin, stoerungen>>

Falsch(t) == /\ her # <<>>
             /\ Head(her).typ # t
             /\ her' = Tail(her)
             /\ UNCHANGED <<hin, stoerungen>>

(* Nothing came in 300 ms: nothing was on its way, or it comes late.       *)
Timeout == /\ UNCHANGED <<hin, her>>
           /\ \/ hin = <<>> /\ her = <<>> /\ UNCHANGED stoerungen
              \/ (hin # <<>> \/ her # <<>>) /\ Gestoert

(* Mutant: recv_frame waits without a timeout.                             *)
Mut_transport_error(t) == Falsch(t)
transport_error(t) == Falsch(t) \/ Timeout

cmd_flash(f, incremental_flash) ==
  /\ pc \in Enden /\ befehle > 0 /\ hin = <<>>
  /\ befehle' = befehle - 1
  /\ neu' = f /\ trys' = Versuche /\ inkr' = FALSE /\ geprueft' = FALSE
  /\ her' = <<>>
  /\ phase' = "inkr"
  /\ pc' = IF incremental_flash THEN "reset" ELSE "versuch"
  /\ UNCHANGED <<cache, ziel, board_crc, unsicher, hin, stoerungen, board>>

(* reset, sleep(1), DEVICE_BOOT_STOP, assert(cmd_getstate() == 1): before  *)
(* an incremental flash and before another try.                            *)
cmd_reset == /\ pc = "reset" /\ pc' = "schlaf"
             /\ Sende(Nachricht("RESET", 0, 0))
             /\ UNCHANGED <<host, ziel, summe, board>>

sleep == /\ pc = "schlaf" /\ hin = <<>> /\ pc' = "stop"
         /\ UNCHANGED <<host, ziel, summe, bus, board>>

send_BOOT_STOP == /\ pc = "stop" /\ pc' = "stop_ack"
                  /\ Sende(Nachricht("BOOT_STOP", 0, 0))
                  /\ UNCHANGED <<host, ziel, summe, board>>

recv_BOOT_STOP_ACK ==
  /\ pc = "stop_ack"
  /\ \/ Empfange("BOOT_STOP_ACK") /\ pc' = "state"
     \/ transport_error("BOOT_STOP_ACK") /\ pc' = "abbruch"
  /\ UNCHANGED <<host, ziel, summe, board>>

send_STATE_REQUEST == /\ pc = "state" /\ pc' = "state_ack"
                      /\ Sende(Nachricht("STATE", 0, 0))
                      /\ UNCHANGED <<host, ziel, summe, board>>

recv_STATE_REPLAY ==
  /\ pc = "state_ack"
  /\ \/ /\ Empfange("STATE")
        /\ pc' = IF Head(her).wert # "loader" THEN "abbruch"
                 ELSE IF phase = "inkr" THEN "cache" ELSE "versuch"
     \/ transport_error("STATE") /\ pc' = "abbruch"
  /\ UNCHANGED <<host, ziel, summe, board>>

(* The cached file is loaded; its checksum is compared with the board's.   *)
kein_cache == /\ pc = "cache" /\ cache = Keine /\ pc' = "versuch"
              /\ UNCHANGED <<host, ziel, summe, bus, board>>

cache_laden == /\ pc = "cache" /\ cache # Keine /\ pc' = "icrc_ack"
               /\ Sende(Nachricht("CRC", 0, 0))
               /\ UNCHANGED <<host, ziel, summe, board>>

(* Mutant: the cached file is trusted without asking the board.            *)
Mut_inkrementell(crc) == TRUE
inkrementell(crc) == crc = Inhalt(cache)

cache_vergleichen ==
  /\ pc = "icrc_ack"
  /\ \/ /\ Empfange("CRC") /\ pc' = "versuch"
        /\ inkr' = inkrementell(Head(her).wert)
     \/ transport_error("CRC") /\ pc' = "abbruch" /\ UNCHANGED inkr
  /\ UNCHANGED <<phase, neu, cache, trys, befehle, ziel, summe, board>>

-----------------------------------------------------------------------------
(* One try: page by page, line by line.                                    *)

versuch == /\ pc = "versuch" /\ trys > 0
           /\ trys' = trys - 1 /\ block' = 0 /\ pc' = "block"
           /\ UNCHANGED <<phase, neu, cache, inkr, befehle, index, summe, bus, board>>

flash_failed == /\ pc = "versuch" /\ trys = 0 /\ pc' = "verloren"
                /\ UNCHANGED <<host, ziel, summe, bus, board>>

blocks_equal == inkr /\ cache[block] = neu[block]

ueberspringen == /\ pc = "block" /\ block < Bloecke /\ blocks_equal
                 /\ block' = block + 1
                 /\ UNCHANGED <<pc, host, index, summe, bus, board>>

block_beginnen == /\ pc = "block" /\ block < Bloecke /\ ~blocks_equal
                  /\ index' = 0 /\ pc' = "fuellen"
                  /\ UNCHANGED <<host, block, summe, bus, board>>

alle_bloecke == /\ pc = "block" /\ block = Bloecke /\ pc' = "crc"
                /\ UNCHANGED <<host, ziel, summe, bus, board>>

send_BUFFER_FILL ==
  /\ pc = "fuellen"
  /\ Sende(Nachricht("FILL", index, Wort(neu, block)))
  /\ index' = index + 1
  /\ pc' = IF index' % ProZeile = 0 THEN "fuell_ack" ELSE "fuellen"
  /\ UNCHANGED <<host, block, summe, board>>

recv_BUFFER_FILL_ACK ==
  /\ pc = "fuell_ack"
  /\ \/ /\ Empfange("FILL_ACK")
        /\ pc' = IF index \in Zellen THEN "fuellen" ELSE "schreiben"
     \/ transport_error("FILL_ACK") /\ pc' = "wiederholen"
  /\ UNCHANGED <<host, ziel, summe, board>>

send_BUFFER_WRITE == /\ pc = "schreiben" /\ pc' = "schreib_ack"
                     /\ Sende(Nachricht("WRITE", block, 0))
                     /\ UNCHANGED <<host, ziel, summe, board>>

recv_BUFFER_WRITE_ACK ==
  /\ pc = "schreib_ack"
  /\ \/ Empfange("WRITE_ACK") /\ block' = block + 1 /\ pc' = "block"
     \/ transport_error("WRITE_ACK") /\ pc' = "wiederholen" /\ UNCHANGED block
  /\ UNCHANGED <<host, index, summe, board>>

(* The handler of a transport_error: reset the board and try again.        *)
wiederholen == /\ pc = "wiederholen" /\ pc' = "reset" /\ phase' = "retry"
               /\ UNCHANGED <<neu, cache, trys, inkr, befehle, ziel, summe, bus, board>>

(* load_crc16_from_board and save_crc16_to_board; the two bytes of the     *)
(* size, the same for all firmwares, are left out.  A transport_error is   *)
(* taken for a boot loader without checksums.                              *)
send_CRC16_QUERY == /\ pc = "crc" /\ pc' = "crc_ack"
                    /\ Sende(Nachricht("CRC", 0, 0))
                    /\ UNCHANGED <<host, ziel, summe, board>>

recv_CRC16_REPLAY ==
  /\ pc = "crc_ack"
  /\ \/ Empfange("CRC") /\ board_crc' = Head(her).wert /\ pc' = "ee"
     \/ transport_error("CRC") /\ pc' = "load" /\ UNCHANGED board_crc
  /\ index' = 1
  /\ UNCHANGED <<host, block, geprueft, unsicher, board>>

write_eeprom_byte ==
  /\ pc = "ee" /\ pc' = "ee_ack"
  /\ Sende(Nachricht("EE", index, board_crc))
  /\ unsicher' = (unsicher \/ board_crc # Inhalt(neu))
  /\ UNCHANGED <<host, ziel, board_crc, geprueft, board>>

recv_EEPROM_WRITE_ACK ==
  /\ pc = "ee_ack"
  /\ \/ /\ Empfange("EE_ACK")
        /\ pc' = IF index = 2 THEN "vergleich" ELSE "ee"
        /\ index' = index + 1
     \/ transport_error("EE_ACK") /\ pc' = "load" /\ UNCHANGED index
  /\ UNCHANGED <<host, block, summe, board>>

(* Mutant: the checksums are not compared.                                 *)
Mut_crc_stimmt == TRUE
crc_stimmt == board_crc = Inhalt(neu)

crc_vergleichen == /\ pc = "vergleich"
                   /\ \/ crc_stimmt /\ geprueft' = TRUE /\ pc' = "load"
                      \/ ~crc_stimmt /\ pc' = "crc_fehler" /\ UNCHANGED geprueft
                   /\ UNCHANGED <<host, ziel, board_crc, unsicher, bus, board>>

(* DEVICE_LOAD_APP, and the file goes into the cache.                      *)
load_app == /\ pc = "load" /\ pc' = "fertig"
            /\ Sende(Nachricht("LOAD_APP", 0, 0))
            /\ cache' = neu
            /\ UNCHANGED <<phase, neu, trys, inkr, befehle, ziel, summe, board>>

-----------------------------------------------------------------------------
(* The board.  HMS frames the boot loader handles are ignored by an        *)
(* application, except for those it handles itself.                        *)

kommt(t) == hin # <<>> /\ Head(hin).typ = t
laedt(t) == kommt(t) /\ mode # "app"

(* A reset: flash_buffer is not initialised, so that it holds what the     *)
(* last run left there or what the application used the RAM for.           *)
Neustart == /\ mode' = "boot" /\ start' = "keiner"
            /\ lineCounter' = 0
            /\ buffer' \in {buffer, Muell}

DEVICE_RESET == /\ kommt("RESET")
                /\ Neustart
                /\ hin' = <<>>
                /\ UNCHANGED <<pc, host, ziel, summe, her, stoerungen, flash, ee>>

DEVICE_BOOT_STOP == /\ laedt("BOOT_STOP")
                    /\ mode' = "loader"
                    /\ Antworte(Nachricht("BOOT_STOP_ACK", 0, 0))
                    /\ UNCHANGED <<pc, host, ziel, summe, start, lineCounter, buffer, flash, ee>>

DEVICE_STATE_REQUEST == /\ kommt("STATE")
                        /\ Antworte(Nachricht("STATE", 0, mode))
                        /\ UNCHANGED <<pc, host, ziel, summe, board>>

(* lineCounter counts frames here and stops at a full line: the code only  *)
(* asks whether it has reached one.                                        *)
FLASH_BUFFER_FILL ==
  /\ laedt("FILL")
  /\ LET m == Head(hin)
         bisher == IF m.adr % ProZeile = 0 THEN 0 ELSE lineCounter
     IN  /\ buffer' = [buffer EXCEPT ![m.adr] = m.wert]
         /\ lineCounter' = IF bisher < ProZeile THEN bisher + 1 ELSE bisher
         /\ IF lineCounter' = ProZeile
            THEN Antworte(Nachricht("FILL_ACK", 0, 0))
            ELSE Schweige
  /\ UNCHANGED <<pc, host, ziel, summe, mode, start, flash, ee>>

FLASH_BUFFER_WRITE ==
  /\ laedt("WRITE")
  /\ flash' = [flash EXCEPT ![Head(hin).adr] = buffer]
  /\ Antworte(Nachricht("WRITE_ACK", 0, 0))
  /\ UNCHANGED <<pc, host, ziel, summe, mode, start, lineCounter, buffer, ee>>

FLASH_CRC16_QUERY == /\ laedt("CRC")
                     /\ Antworte(Nachricht("CRC", 0, flash))
                     /\ UNCHANGED <<pc, host, ziel, summe, board>>

INTERNAL_EEPROM_WRITE ==
  /\ kommt("EE")
  /\ ee' = [ee EXCEPT ![Head(hin).adr] = Head(hin).wert]
  /\ Antworte(Nachricht("EE_ACK", 0, 0))
  /\ UNCHANGED <<pc, host, ziel, summe, mode, start, lineCounter, buffer, flash>>

DEVICE_LOAD_APP == /\ laedt("LOAD_APP")
                   /\ Schweige
                   /\ mode' = "app" /\ start' = "load"
                   /\ UNCHANGED <<pc, host, ziel, summe, lineCounter, buffer, flash, ee>>

app_ignoriert == /\ mode = "app"
                 /\ \E t \in {"BOOT_STOP", "FILL", "WRITE", "CRC", "LOAD_APP"} : kommt(t)
                 /\ Schweige
                 /\ UNCHANGED <<pc, host, ziel, summe, board>>

(* Mutant: the boot loader starts whatever is in the flash.                *)
Mut_check_firmware == TRUE
check_firmware == ee = <<flash, flash>>

(* bootCounter has run out: five seconds, which is longer than the one the *)
(* host sleeps before it sends DEVICE_BOOT_STOP.                           *)
boot_ende == /\ mode = "boot" /\ hin = <<>> /\ pc \notin {"schlaf", "stop"}
             /\ \/ /\ check_firmware
                   /\ mode' = "app" /\ start' = "boot"
                   /\ UNCHANGED <<lineCounter, buffer>>
                \/ ~check_firmware /\ Neustart
             /\ UNCHANGED <<pc, host, ziel, summe, bus, flash, ee>>

(* A power failure, also between erasing and writing a page.               *)
Stromausfall == /\ Gestoert
                /\ Neustart
                /\ hin' = <<>>
                /\ \/ UNCHANGED flash
                   \/ laedt("WRITE") /\ flash' = [flash EXCEPT ![Head(hin).adr] = Muell]
                /\ UNCHANGED <<pc, host, ziel, summe, her, ee>>

-----------------------------------------------------------------------------
Host == \/ cmd_reset \/ sleep \/ send_BOOT_STOP \/ recv_BOOT_STOP_ACK
        \/ send_STATE_REQUEST \/ recv_STATE_REPLAY
        \/ kein_cache \/ cache_laden \/ cache_vergleichen
        \/ versuch \/ flash_failed \/ ueberspringen \/ block_beginnen \/ alle_bloecke
        \/ send_BUFFER_FILL \/ recv_BUFFER_FILL_ACK
        \/ send_BUFFER_WRITE \/ recv_BUFFER_WRITE_ACK \/ wiederholen
        \/ send_CRC16_QUERY \/ recv_CRC16_REPLAY
        \/ write_eeprom_byte \/ recv_EEPROM_WRITE_ACK \/ crc_vergleichen \/ load_app

Board == \/ DEVICE_RESET \/ DEVICE_BOOT_STOP \/ DEVICE_STATE_REQUEST
         \/ FLASH_BUFFER_FILL \/ FLASH_BUFFER_WRITE \/ FLASH_CRC16_QUERY
         \/ INTERNAL_EEPROM_WRITE \/ DEVICE_LOAD_APP \/ app_ignoriert

Next == \/ \E f \in Neue, i \in BOOLEAN : cmd_flash(f, i)
        \/ Host \/ Board \/ boot_ende \/ Stromausfall

Spec == Init /\ [][Next]_vars

(* telican runs until cmd_flash is over, and the main loop of the board    *)
(* takes every frame it was sent.                                          *)
FairSpec == Spec /\ WF_vars(Host) /\ WF_vars(Board)

(* The user has stopped the board in its boot loader before.               *)
SpecImLoader == Init /\ mode = "loader" /\ [][Next]_vars

-----------------------------------------------------------------------------
(***************************************************************************)
(* Properties                                                              *)
(***************************************************************************)

Worte == {<<0, 0>>} \cup (Nummern \X Versionen)
Seiten == [Zellen -> Worte]

(* Pages and buffer hold words, the line counter at most a line, and no    *)
(* more than two tries follow the first.                                   *)
TypeOK == /\ trys \in 0..Versuche
          /\ block \in 0..Bloecke /\ index \in 0..(Zeilen * ProZeile + 3)
          /\ lineCounter \in 0..ProZeile
          /\ buffer \in Seiten /\ flash \in [Nummern -> Seiten]
          /\ mode \in {"boot", "loader", "app"}
          /\ stoerungen \in 0..MaxStoerung

(* Success with compared checksums means that the board has the file:      *)
(* whatever lines were acknowledged too early, pages torn or tries         *)
(* repeated before (board_driver.cc:501-509).                              *)
ErfolgHeisstGleich == pc = "fertig" /\ geprueft => flash = Inhalt(neu)

(* A page that the incremental mode leaves out is on the board, in every   *)
(* try and whoever flashed the board before (board_driver.cc:433-456).     *)
SpringtRichtig == pc = "block" /\ block < Bloecke /\ blocks_equal
                    => flash[block] = Seite(neu, block)

(* A board that starts on its own runs a complete firmware, wherever the   *)
(* flashing was interrupted, unless the host has stored the checksum of a  *)
(* wrong content before comparing it (hcanbl32/main.c:571-590).            *)
BootetNurGanzes == mode = "app" /\ start = "boot"
                     => unsicher \/ \E f \in Firmwares : flash = Inhalt(f)

(* cmd_flash comes to an end, whatever is lost, and without a disturbance  *)
(* it ends with success, whether the board was in its boot loader or not,  *)
(* incremental or not.                                                     *)
KommtZumEnde ==
  /\ (pc \notin Enden) ~> (pc \in Enden)
  /\ (pc \notin Enden /\ stoerungen = MaxStoerung)
       ~> (pc = "fertig" \/ stoerungen < MaxStoerung)

(* board_driver.cc:398 "3 Versuche; falls ein Timeout auftritt, wird       *)
(* nochmals versucht...": a try that fails is followed by another one, as  *)
(* long as nothing else goes wrong.                                        *)
NochmalsVersucht == pc = "abbruch" /\ phase = "retry" => trys = 0
=============================================================================
