------------------------------ MODULE Hostrufe ------------------------------
(***************************************************************************)
(* What the programs of the host say to the boards: every function that    *)
(* talks to a board, as the set of the sequences of send_X and recv_X it   *)
(* may go through.  A step names the message and what the caller passes:   *)
(* for send_X the bytes in the order of the arguments, for recv_X the      *)
(* variables the answer goes to ("dummy" is one nobody reads).  Loops are  *)
(* cut after two rounds: the next round would repeat the same exchange.    *)
(* A function that catches the error of a recv_X marks the step `fangen'.  *)
(***************************************************************************)
EXTENDS Nachrichten

Schritt(a, m, w, z, f) ==
  [art |-> a, nachricht |-> m, werte |-> w, ziel |-> z, fangen |-> f]

(* Addressed to one board; to the group of a device (answers are taken     *)
(* from any address); to everyone.                                         *)
S(m, w) == Schritt("send", m, w, "brett", FALSE)
R(m, w) == Schritt("recv", m, w, "brett", FALSE)
RFang(m, w) == Schritt("recv", m, w, "brett", TRUE)
SGruppe(m, w) == Schritt("send", m, w, "gruppe", FALSE)
RGruppe(m, w) == Schritt("recv", m, w, "gruppe", FALSE)
SAlle(m, w) == Schritt("send", m, w, "alle", FALSE)

(* One sequence after the other. *)
Dann(A, B) == {a \o b : a \in A, b \in B}
Zweimal(A) == Dann(A, A)

-----------------------------------------------------------------------------
(* board_connection.cc, board_driver.cc: any board. *)

board_connection ==
  LET Ping == <<S(PING_REQUEST, << >>), R(PING_REPLAY, << >>)>>
  IN  {Ping, Ping \o <<S(DEVICE_TYPE_REQUEST, << >>),
                       R(DEVICE_TYPE_REPLAY, <<"arch", "type">>)>>}

read_eeprom_byte ==
  {<<S(INTERNAL_EEPROM_READ_REQUEST, <<"addr_lsb", "addr_msb">>),
     R(INTERNAL_EEPROM_READ_REPLAY, <<"value">>)>>}

(* The operands of | may be evaluated in either order: each reads its byte. *)
read_eeprom_word == Zweimal(read_eeprom_byte)

(* Mutant: the address in the byte order of the data store. *)
MutAdresseVertauscht ==
  {<<S(INTERNAL_EEPROM_WRITE, <<"addr_msb", "addr_lsb", "value">>),
     R(INTERNAL_EEPROM_WRITE_ACK, << >>)>>}

write_eeprom_byte ==
  {<<S(INTERNAL_EEPROM_WRITE, <<"addr_lsb", "addr_msb", "value">>),
     R(INTERNAL_EEPROM_WRITE_ACK, << >>)>>}

write_eeprom_word == Zweimal(write_eeprom_byte)

load_crc16_from_board ==
  {<<S(FLASH_CRC16_QUERY, <<"hi", "lo">>), R(FLASH_CRC16_REPLAY, <<"hi", "lo">>)>>}

save_crc16_to_board == Zweimal(write_eeprom_word)

cmd_getaddress == read_eeprom_word

cmd_setaddress == Dann(write_eeprom_word, read_eeprom_word)

cmd_setsysloglevel == {<<S(SYSLOG_LEVEL_SET, <<"level">>)>>}

cmd_reset == {<<S(DEVICE_RESET, << >>)>>}

cmd_getuptime ==
  {<<S(UPTIME_QUERY, << >>), R(UPTIME_REPLAY, <<"u3", "u2", "u1", "u0">>)>>}

cmd_getstate ==
  {<<S(DEVICE_STATE_REQUEST, << >>), R(DEVICE_STATE_REPLAY, <<"state">>)>>}

cmd_dump_ee == Zweimal(read_eeprom_byte)

cmd_loadapp == {<<S(DEVICE_LOAD_APP, << >>)>>}

cmd_bootloader ==
  Dann(cmd_reset,
       {<<S(DEVICE_BOOT_STOP, << >>), R(DEVICE_BOOT_STOP_ACK, << >>)>>})

cmd_show_system ==
  {<<S(DEVICE_TYPE_REQUEST, << >>), R(DEVICE_TYPE_REPLAY, <<"arch", "type">>),
     S(BUILD_VERSION_QUERY, << >>), R(BUILD_VERSION_REPLAY, <<"hi", "lo">>)>>}

cmd_show_time ==
  {<<S(DATE_REQUEST, << >>),
     R(DATE_INFO, <<"level", "day_of_month", "month_of_year", "year">>),
     S(TIME_REQUEST, << >>),
     R(TIME_INFO, <<"level", "day_of_week", "hour", "minute", "second">>)>>}

-----------------------------------------------------------------------------
(* controller1612_driver.cc, usv_driver.cc: boards of one kind. *)

cmd_discover_1wire ==
  LET Sensor == <<RFang(HES_1WIRE_DISCOVERED_PART_1, <<"id0", "id1", "id2", "id3">>),
                  RFang(HES_1WIRE_DISCOVERED_PART_2, <<"id4", "id5", "id6", "id7">>)>>
  IN  {<<S(HES_1WIRE_DISCOVER, <<"pin">>)>> \o Sensor \o Sensor \o Sensor}

cmd_show_ram_usage ==
  {<<S(CONFIG_RAM_USAGE_REQUEST, << >>),
     R(CONFIG_RAM_USAGE_REPLAY, <<"usage_hi", "usage_lo">>)>>}

cmd_config_reload == {<<S(CONFIG_RELOAD, << >>)>>}

print_U_stats ==
  {<<S(VOLTAGE_REQUEST, <<"Ux">>), R(VOLTAGE_REPLAY, <<"Ux_hi", "Ux_lo">>),
     S(VOLTAGE_STATS_REQUEST, <<"Ux">>),
     R(VOLTAGE_STATS_REPLAY,
       <<"dummy", "min_hi", "min_lo", "max_hi", "max_lo">>)>>}

(* show usvstate (the first two of the four voltages); reset-usvstats. *)
usv_exec_command ==
  Dann({<<S(STATE_REQUEST, << >>), R(STATE_INFO, <<"state">>)>>},
       Zweimal(print_U_stats))
  \cup {<<S(VOLTAGE_STATS_RESET, << >>)>>}

-----------------------------------------------------------------------------
(* eds_connection.cc: blocks of the EEPROM data store. *)

Lies(w) ==
  <<S(READ_FROM_BLOCK, <<"handle_hi", "handle_lo", "index">>),
    R(READ_FROM_BLOCK_REPLAY, w)>>
Schreibe ==
  <<S(WRITE_TO_BLOCK, <<"handle_hi", "handle_lo", "index", "d0">>),
    R(WRITE_TO_BLOCK_REPLAY, << >>)>>

(* Offset 0: the first two bytes of the block are its type and its size. *)
eds_block_init == {Lies(<<"d0", "d1", "dummy", "dummy">>)}

field == {Lies(<<"d0", "dummy", "dummy", "dummy">>)}

uint16_field == {Lies(<<"d0", "d1", "dummy", "dummy">>)}

strfield ==
  LET Teil == Lies(<<"d0", "d1", "d2", "d3">>) IN {Teil, Teil \o Teil}

set_field_uint8 == {Schreibe}

set_field_uint16 == {Schreibe \o Schreibe}

set_field_str == {Schreibe, Schreibe \o Schreibe}

NaechsterBlock ==
  <<S(GET_NEXT_BLOCK, <<"handle_hi", "handle_lo">>),
    R(GET_NEXT_BLOCK_REPLAY, <<"handle_hi", "handle_lo", "type", "size">>)>>

(* Until the answer is the address 0; a used block is read as it is found. *)
eds_update ==
  {NaechsterBlock, NaechsterBlock \o NaechsterBlock}
  \cup {NaechsterBlock \o b \o NaechsterBlock : b \in eds_block_init}

space_free == {NaechsterBlock, NaechsterBlock \o NaechsterBlock}

space_used == {NaechsterBlock, NaechsterBlock \o NaechsterBlock}

create_block ==
  Dann({<<S(ALLOCATE_BLOCK, <<"type", "size">>),
          R(ALLOCATE_BLOCK_REPLAY, <<"handle_hi", "handle_lo">>)>>},
       eds_block_init)

delete_block ==
  {<<S(FREE_BLOCK, <<"handle_hi", "handle_lo">>),
     R(FREE_BLOCK_REPLAY, <<"result">>)>>}

eds_defragment == Dann({<<S(DEFRAGMENT, << >>)>>}, eds_update)

eds_format == Dann({<<S(FORMAT, << >>)>>}, eds_update)

-----------------------------------------------------------------------------
(* telican: commands to the devices of a group, and lists of all groups. *)

Abfrage(frage, antwort, w) ==
  LET Eine == {<<SGruppe(frage, <<"gruppe">>), RGruppe(antwort, w)>>}
  IN  Zweimal(Eine)

rolladen_command ==
  {<<SGruppe(ROLLADEN_POSITION_SET, <<"gruppe", "position">>)>>}
  \cup Abfrage(ROLLADEN_POSITION_REQUEST, ROLLADEN_POSITION_REPLAY,
               <<"gruppe", "position">>)

lampe_command ==
  {<<SGruppe(POWER_GROUP_ON, <<"gruppe">>)>>,
   <<SGruppe(POWER_GROUP_OFF, <<"gruppe">>)>>}
  \cup Abfrage(POWER_GROUP_STATE_QUERY, POWER_GROUP_STATE_REPLAY,
               <<"gruppe", "status">>)

sonstige_command ==
  {<<SGruppe(POWER_GROUP_ON, <<"gruppe">>)>>,
   <<SGruppe(POWER_GROUP_OFF, <<"gruppe">>)>>}
  \cup Abfrage(POWER_GROUP_STATE_QUERY, POWER_GROUP_STATE_REPLAY,
               <<"gruppe", "status">>)

reedkontakt_command ==
  Abfrage(REEDKONTAKT_STATE_QUERY, REEDKONTAKT_STATE_REPLAY,
          <<"gruppe", "state">>)

tempsensor_command ==
  Abfrage(HES_1WIRE_TEMPERATURE_QUERY, HES_1WIRE_TEMPERATURE_REPLAY,
          <<"gruppe", "temp_hi", "temp_lo">>)

get_ist_temp ==
  {<<SGruppe(HEIZUNG_TIST_REQUEST, <<"id">>),
     RGruppe(HEIZUNG_TIST_REPLAY, <<"dummy", "temp_hi", "temp_lo">>)>>}

(* The answer is taken by recv_frame and told apart by its command alone:  *)
(* `details' stands for the four layouts.  For a thermostat the measured   *)
(* temperature is asked for twice.                                         *)
Details == Schritt("details", HEIZUNG_DETAILS_REQUEST, << >>, "gruppe", FALSE)

get_details ==
  Dann({<<SGruppe(HEIZUNG_DETAILS_REQUEST, <<"id">>), Details>>},
       get_ist_temp \cup Zweimal(get_ist_temp))

(* What get_details reads of an answer with the command c. *)
DetailsLiest(c) ==
  CASE c = HEIZUNG_MODE_OFF_DETAILS.befehl -> << >>
    [] c = HEIZUNG_MODE_MANUAL_DETAILS.befehl ->
         <<"dummy", "rate", "duration_hi", "duration_lo">>
    [] c = HEIZUNG_MODE_THERMOSTAT_DETAILS.befehl ->
         <<"dummy", "temp_hi", "temp_lo", "duration_hi", "duration_lo">>
    [] c = HEIZUNG_MODE_AUTOMATIK_DETAILS.befehl ->
         <<"dummy", "temp_hi", "temp_lo", "timerange_id">>

heizung_command ==
  get_details
  \cup {<<SGruppe(HEIZUNG_SET_MODE_AUTOMATIK, <<"id">>)>>,
        <<SGruppe(HEIZUNG_SET_MODE_OFF, <<"id">>)>>,
        <<SGruppe(HEIZUNG_SET_MODE_MANUAL,
                  <<"id", "rate", "duration_hi", "duration_lo">>)>>,
        <<SGruppe(HEIZUNG_SET_MODE_THERMOSTAT_DETAILS,
                  <<"id", "temp_hi", "temp_lo", "duration_hi", "duration_lo">>)>>}

send_time ==
  {<<SAlle(TIME_INFO, <<"level", "day_of_week", "hour", "minute", "second">>)>>,
   <<SAlle(DATE_INFO, <<"level", "day_of_month", "month_of_year", "year">>)>>}

-----------------------------------------------------------------------------
(* check_hcan: the checks of the monitoring. *)

ping == {<<S(PING_REQUEST, << >>), RFang(PING_REPLAY, << >>)>>}

usv_betrieb == {<<S(STATE_REQUEST, << >>), R(STATE_INFO, <<"state">>)>>}

usv_min_bat_spannung ==
  {<<S(VOLTAGE_STATS_REQUEST, <<"Ux">>),
     R(VOLTAGE_STATS_REPLAY,
       <<"dummy", "min_hi", "min_lo", "max_hi", "max_lo">>)>>}

-----------------------------------------------------------------------------
(* oap_access.cc: the objects of a board.  No program in this repository   *)
(* answers; the host catches the error and sees a board without objects.   *)

oap_access ==
  {<<S(OBJECT_COUNT_REQUEST, << >>), RFang(OBJECT_COUNT_REPLAY, <<"count">>)>>}
=============================================================================
