---------------------------- MODULE Nachrichten ----------------------------
(***************************************************************************)
(* The messages of the protocol as the host library builds and takes them: *)
(* send_X and recv_X of hcan_transport.cc, one definition for each X.      *)
(* send_X puts the service, the command and one byte for every parameter   *)
(* into a frame; recv_X takes a frame apart in the same order.  A message  *)
(* is the service, the command and the names of its parameters in order.   *)
(***************************************************************************)
EXTENDS Naturals, Sequences

Nachricht(s, c, p) == [dienst |-> s, befehl |-> c, werte |-> p]

-----------------------------------------------------------------------------
(* Service 1, HMS: housekeeping of every board.                           *)

PING_REQUEST == Nachricht(1, 1, <<>>)
PING_REPLAY == Nachricht(1, 2, <<>>)
DEVICE_STATE_REQUEST == Nachricht(1, 3, <<>>)
DEVICE_STATE_REPLAY == Nachricht(1, 4, <<"state">>)
DEVICE_RESET == Nachricht(1, 5, <<>>)
DEVICE_BOOT_STOP == Nachricht(1, 6, <<>>)
DEVICE_BOOT_STOP_ACK == Nachricht(1, 7, <<>>)
DEVICE_LOAD_APP == Nachricht(1, 8, <<>>)
DEVICE_TYPE_REQUEST == Nachricht(1, 9, <<>>)
DEVICE_TYPE_REPLAY == Nachricht(1, 10, <<"arch", "type">>)
FLASH_BUFFER_FILL == Nachricht(1, 16, <<"index", "d0", "d1", "d2", "d3">>)
FLASH_BUFFER_FILL_ACK == Nachricht(1, 17, <<>>)
FLASH_BUFFER_WRITE == Nachricht(1, 18, <<"addr_lsb", "addr_msb">>)
FLASH_BUFFER_WRITE_ACK == Nachricht(1, 19, <<>>)
INTERNAL_EEPROM_WRITE == Nachricht(1, 20, <<"addr_lsb", "addr_msb", "value">>)
INTERNAL_EEPROM_WRITE_ACK == Nachricht(1, 21, <<>>)
INTERNAL_EEPROM_READ_REQUEST == Nachricht(1, 22, <<"addr_lsb", "addr_msb">>)
INTERNAL_EEPROM_READ_REPLAY == Nachricht(1, 23, <<"value">>)
INTERNAL_EEPROM_READ_BULK_REQUEST ==
  Nachricht(1, 24, <<"addr_lsb", "addr_msb">>)
INTERNAL_EEPROM_READ_BULK_REPLAY ==
  Nachricht(1, 25, <<"d0", "d1", "d2", "d3", "d4", "d5">>)
UPTIME_QUERY == Nachricht(1, 30, <<>>)
UPTIME_REPLAY == Nachricht(1, 31, <<"u3", "u2", "u1", "u0">>)
SYSLOG_LEVEL_SET == Nachricht(1, 32, <<"level">>)
BUILD_VERSION_QUERY == Nachricht(1, 33, <<>>)
BUILD_VERSION_REPLAY == Nachricht(1, 34, <<"hi", "lo">>)
CAN_EC_QUERY == Nachricht(1, 35, <<>>)
CAN_EC_REPLAY == Nachricht(1, 36, <<"REC", "TEC">>)
FLASH_CRC16_QUERY == Nachricht(1, 37, <<"hi", "lo">>)
FLASH_CRC16_REPLAY == Nachricht(1, 38, <<"hi", "lo">>)
LOOP_THROUGHPUT_QUERY == Nachricht(1, 39, <<>>)
LOOP_THROUGHPUT_REPLAY == Nachricht(1, 40, <<"hi", "lo">>)
RX_RECEIVED_QUERY == Nachricht(1, 41, <<>>)
RX_RECEIVED_REPLAY == Nachricht(1, 42, <<"d0", "d1", "d2", "d3">>)
RX_LOST_QUERY == Nachricht(1, 43, <<>>)
RX_LOST_REPLAY == Nachricht(1, 44, <<"d0", "d1", "d2", "d3">>)
TX_SENT_QUERY == Nachricht(1, 45, <<>>)
TX_SENT_REPLAY == Nachricht(1, 46, <<"d0", "d1", "d2", "d3">>)
TX_DROPPED_QUERY == Nachricht(1, 47, <<>>)
TX_DROPPED_REPLAY == Nachricht(1, 48, <<"d0", "d1", "d2", "d3">>)
RX_TX_STATS_RESET == Nachricht(1, 49, <<>>)
-----------------------------------------------------------------------------
(* Service 4, SLS: messages for the log.                                  *)

BOOT_RESETFLAG_LOG == Nachricht(4, 1, <<"flag">>)
FIRMWARE_CRC16_ERROR == Nachricht(4, 2, <<>>)
FIRMWARE_CONFIG_COMPAT_ERROR ==
  Nachricht(4, 3, <<"eds_block_type", "eds_addr_hi", "eds_addr_lo",
                "size_in_config", "size_in_firmware">>)
DUMP_DEBUG_INFO == Nachricht(4, 4, <<"context">>)
-----------------------------------------------------------------------------
(* Service 5, HES: house electrics.                                       *)

TASTER_DOWN == Nachricht(5, 1, <<"gruppe", "index">>)
TASTER_UP == Nachricht(5, 2, <<"gruppe", "index">>)
POWER_GROUP_ON == Nachricht(5, 10, <<"gruppe">>)
POWER_GROUP_OFF == Nachricht(5, 11, <<"gruppe">>)
POWER_GROUP_STATE_QUERY == Nachricht(5, 12, <<"gruppe">>)
POWER_GROUP_STATE_REPLAY == Nachricht(5, 13, <<"gruppe", "status">>)
POWER_GROUP_TIMER_QUERY == Nachricht(5, 14, <<"gruppe">>)
POWER_GROUP_TIMER_REPLAY ==
  Nachricht(5, 15, <<"gruppe", "timer_hi", "timer_lo">>)
POWER_GROUP_SET_TIMER ==
  Nachricht(5, 16, <<"gruppe", "timer_hi", "timer_lo">>)
POWER_GROUP_STATE_INFO == Nachricht(5, 17, <<"gruppe", "status">>)
ROLLADEN_POSITION_SET == Nachricht(5, 20, <<"gruppe", "position">>)
ROLLADEN_POSITION_REQUEST == Nachricht(5, 21, <<"gruppe">>)
ROLLADEN_POSITION_REPLAY == Nachricht(5, 22, <<"gruppe", "position">>)
ROLLADEN_DEFINE_POSITION == Nachricht(5, 23, <<"gruppe", "position">>)
ROLLADEN_POSITION_CHANGED_INFO ==
  Nachricht(5, 24, <<"gruppe", "position", "cmdsrc_hi", "cmdsrc_lo">>)
HES_1WIRE_DISCOVER == Nachricht(5, 30, <<"pin">>)
HES_1WIRE_DISCOVERED_PART_1 ==
  Nachricht(5, 31, <<"id0", "id1", "id2", "id3">>)
HES_1WIRE_DISCOVERED_PART_2 ==
  Nachricht(5, 32, <<"id4", "id5", "id6", "id7">>)
HES_1WIRE_ERROR == Nachricht(5, 33, <<"error">>)
HES_1WIRE_TEMPERATURE == Nachricht(5, 34, <<"gruppe", "temp_hi", "temp_lo">>)
HES_1WIRE_TEMPERATURE_QUERY == Nachricht(5, 35, <<"gruppe">>)
HES_1WIRE_TEMPERATURE_REPLAY ==
  Nachricht(5, 36, <<"gruppe", "temp_hi", "temp_lo">>)
REEDKONTAKT_OFFEN == Nachricht(5, 40, <<"gruppe">>)
REEDKONTAKT_STATE_QUERY == Nachricht(5, 41, <<"gruppe">>)
REEDKONTAKT_STATE_REPLAY == Nachricht(5, 42, <<"gruppe", "state">>)
REEDKONTAKT_STATE_CHANGE == Nachricht(5, 43, <<"gruppe", "state">>)
PVSENSOR_STATE_REQUEST == Nachricht(5, 44, <<"gruppe">>)
PVSENSOR_STATE_REPLAY == Nachricht(5, 45, <<"gruppe", "state">>)
PVSENSOR_STATE_CHANGE_INFO == Nachricht(5, 46, <<"gruppe", "state">>)
HEIZUNG_DETAILS_REQUEST == Nachricht(5, 50, <<"id">>)
HEIZUNG_MODE_OFF_DETAILS == Nachricht(5, 51, <<"id">>)
HEIZUNG_SET_MODE_OFF == Nachricht(5, 52, <<"id">>)
HEIZUNG_MODE_MANUAL_DETAILS ==
  Nachricht(5, 53, <<"id", "rate", "duration_hi", "duration_lo">>)
HEIZUNG_SET_MODE_MANUAL ==
  Nachricht(5, 54, <<"id", "rate", "duration_hi", "duration_lo">>)
HEIZUNG_MODE_THERMOSTAT_DETAILS ==
  Nachricht(5, 55, <<"id", "temp_hi", "temp_lo", "duration_hi",
                "duration_lo">>)
HEIZUNG_SET_MODE_THERMOSTAT_DETAILS ==
  Nachricht(5, 56, <<"id", "temp_hi", "temp_lo", "duration_hi",
                "duration_lo">>)
HEIZUNG_MODE_AUTOMATIK_DETAILS ==
  Nachricht(5, 57, <<"id", "temp_hi", "temp_lo", "timerange_id">>)
HEIZUNG_SET_MODE_AUTOMATIK == Nachricht(5, 58, <<"id">>)
HEIZUNG_TIST_REQUEST == Nachricht(5, 59, <<"id">>)
HEIZUNG_TIST_REPLAY == Nachricht(5, 60, <<"id", "temp_hi", "temp_lo">>)
HEIZUNG_WAERMEBEDARF_INFO == Nachricht(5, 61, <<"id", "value">>)
HEIZSTEUERUNG_STATE_REQUEST == Nachricht(5, 62, <<>>)
HEIZSTEUERUNG_STATE_REPLAY ==
  Nachricht(5, 63, <<"VL_soll", "VL_ist", "RL_ist", "BF">>)
HEIZSTEUERUNG_STATE_INFO ==
  Nachricht(5, 64, <<"VL_soll", "GWB_hi", "GWB_lo", "BF">>)
HEIZSTEUERUNG_SET_VL == Nachricht(5, 65, <<"VL_soll">>)
HEIZUNG_SOLLTEMP_LINE_REQUEST == Nachricht(5, 66, <<"id", "idx">>)
HEIZUNG_SOLLTEMP_LINE_REPLAY ==
  Nachricht(5, 67, <<"id", "idx", "temp_hi", "temp_lo", "zeitzone_id">>)
HEIZUNG_SOLLTEMP_WRITE_LINE ==
  Nachricht(5, 68, <<"id", "idx", "temp_hi", "temp_lo", "zeitzone_id">>)
HEIZUNG_SOLLTEMP_WRITE_LINE_ACK == Nachricht(5, 69, <<"id", "idx">>)
WECKER_SET == Nachricht(5, 72, <<"id", "duration_hi", "duration_lo">>)
WECKER_DETAILS_REQUEST == Nachricht(5, 73, <<"id">>)
WECKER_DETAILS == Nachricht(5, 74, <<"id", "duration_hi", "duration_lo">>)
HELLIGKEITS_INFO ==
  Nachricht(5, 71, <<"guppe", "brightness_hi", "brightness_lo">>)
POTI_POS_CHANGED == Nachricht(5, 70, <<"guppe", "pos_hi", "pos_lo">>)
CONFIG_RELOAD == Nachricht(5, 100, <<>>)
CONFIG_RAM_USAGE_REQUEST == Nachricht(5, 101, <<>>)
CONFIG_RAM_USAGE_REPLAY == Nachricht(5, 102, <<"usage_hi", "usage_lo">>)
ZEITZONE_DETAILS_REQUEST == Nachricht(5, 110, <<"gruppe">>)
ZEITZONE_DETAILS_REPLAY ==
  Nachricht(5, 111, <<"gruppe", "day_pattern", "from_hour", "from_minute",
                "to_hour", "to_minute">>)
ZEITZONE_WRITE_DETAILS ==
  Nachricht(5, 112, <<"gruppe", "day_pattern", "from_hour", "from_minute",
                "to_hour", "to_minute">>)
ZEITZONE_WRITE_DETAILS_ACK == Nachricht(5, 113, <<"gruppe">>)
ZEITZONE_TEST_MATCH_REQUERST == Nachricht(5, 114, <<"gruppe">>)
ZEITZONE_TEST_MATCH_REPLAY == Nachricht(5, 115, <<"gruppe", "match">>)
-----------------------------------------------------------------------------
(* Service 6, RTS: time.                                                  *)

TIME_INFO ==
  Nachricht(6, 1, <<"level", "day_of_week", "hour", "minute", "second">>)
DATE_INFO ==
  Nachricht(6, 2, <<"level", "day_of_month", "month_of_year", "year">>)
TIME_REQUEST == Nachricht(6, 3, <<>>)
DATE_REQUEST == Nachricht(6, 4, <<>>)
-----------------------------------------------------------------------------
(* Service 7, EDS: EEPROM data store.                                     *)

GET_NEXT_BLOCK == Nachricht(7, 1, <<"handle_hi", "handle_lo">>)
GET_NEXT_BLOCK_REPLAY ==
  Nachricht(7, 2, <<"handle_hi", "handle_lo", "type", "size">>)
DEFRAGMENT == Nachricht(7, 3, <<>>)
ALLOCATE_BLOCK == Nachricht(7, 4, <<"type", "size">>)
ALLOCATE_BLOCK_REPLAY == Nachricht(7, 5, <<"handle_hi", "handle_lo">>)
FREE_BLOCK == Nachricht(7, 6, <<"handle_hi", "handle_lo">>)
FREE_BLOCK_REPLAY == Nachricht(7, 7, <<"result">>)
READ_FROM_BLOCK == Nachricht(7, 8, <<"handle_hi", "handle_lo", "index">>)
READ_FROM_BLOCK_REPLAY == Nachricht(7, 9, <<"d0", "d1", "d2", "d3">>)
WRITE_TO_BLOCK ==
  Nachricht(7, 10, <<"handle_hi", "handle_lo", "index", "d0">>)
WRITE_TO_BLOCK_REPLAY == Nachricht(7, 11, <<>>)
FORMAT == Nachricht(7, 12, <<>>)
-----------------------------------------------------------------------------
(* Service 8, USVS: uninterruptible power supply.                         *)

STATE_REQUEST == Nachricht(8, 1, <<>>)
STATE_INFO == Nachricht(8, 2, <<"state">>)
VOLTAGE_REQUEST == Nachricht(8, 3, <<"Ux">>)
VOLTAGE_REPLAY == Nachricht(8, 4, <<"Ux_hi", "Ux_lo">>)
VOLTAGE_STATS_REQUEST == Nachricht(8, 5, <<"Ux">>)
VOLTAGE_STATS_REPLAY ==
  Nachricht(8, 6, <<"U", "min_hi", "min_lo", "max_hi", "max_lo">>)
VOLTAGE_STATS_RESET == Nachricht(8, 7, <<>>)
-----------------------------------------------------------------------------
(* Service 9, EBUS: boiler.                                               *)

FA_BLOCK1_INFO ==
  Nachricht(9, 1, <<"status", "stellgrad", "KT", "RT", "BT", "AT">>)
REGLER_DATEN_INFO_FRG1 ==
  Nachricht(9, 2, <<"status", "aktion", "kesseltemp_soll_lo",
                "kesseltemp_soll_hi", "kesseldr_soll_lo",
                "kesseldr_soll_hi">>)
REGLER_DATEN_INFO_FRG2 ==
  Nachricht(9, 3, <<"stellgrad", "ww_soll", "brennstoff">>)
-----------------------------------------------------------------------------
(* Service 10, WS: weather station.                                       *)

WETTER_INFO ==
  Nachricht(10, 1, <<"niederschlag", "wind", "licht_ost", "licht_sued",
                "licht_west">>)
LICHT_STATS_5MIN ==
  Nachricht(10, 2, <<"licht_ost", "licht_sued", "licht_west">>)
WIND_STATS_5MIN == Nachricht(10, 3, <<"wind">>)
-----------------------------------------------------------------------------
(* Service 11, OAPS: access to objects.                                   *)

OBJECT_COUNT_REQUEST == Nachricht(11, 1, <<>>)
OBJECT_COUNT_REPLAY == Nachricht(11, 2, <<"count">>)
OBJECT_ATTRIBUTE_REQUEST == Nachricht(11, 3, <<"oid">>)
OBJECT_ATTRIBUTE_REPLAY ==
  Nachricht(11, 4, <<"oid", "oclass", "p1", "p2", "p3", "p4">>)
FIELD_COUNT_REQUEST == Nachricht(11, 5, <<"oid">>)
FIELD_COUNT_REPLAY == Nachricht(11, 6, <<"oid", "count">>)
FIELD_ATTRIBUTE_REQUEST == Nachricht(11, 7, <<"oid", "fid">>)
FIELD_ATTRIBUTE_REPLAY ==
  Nachricht(11, 8, <<"oid", "fid", "fclass", "flags", "arraysize">>)
FIELD_READ_REQUEST == Nachricht(11, 9, <<"oid", "fid", "idx">>)
FIELD_READ_REPLAY ==
  Nachricht(11, 10, <<"oid", "fid", "idx", "value_hi", "value_lo">>)
FIELD_WRITE_REQUEST ==
  Nachricht(11, 11, <<"oid", "fid", "idx", "value_hi", "value_lo">>)
FIELD_WRITE_REPLAY == Nachricht(11, 12, <<"oid", "fid", "idx">>)

-----------------------------------------------------------------------------
(* Everything a program linked to the library can send to anyone.          *)
Alle ==
  {PING_REQUEST, PING_REPLAY, DEVICE_STATE_REQUEST, DEVICE_STATE_REPLAY,
   DEVICE_RESET, DEVICE_BOOT_STOP, DEVICE_BOOT_STOP_ACK, DEVICE_LOAD_APP,
   DEVICE_TYPE_REQUEST, DEVICE_TYPE_REPLAY, FLASH_BUFFER_FILL,
   FLASH_BUFFER_FILL_ACK, FLASH_BUFFER_WRITE, FLASH_BUFFER_WRITE_ACK,
   INTERNAL_EEPROM_WRITE, INTERNAL_EEPROM_WRITE_ACK,
   INTERNAL_EEPROM_READ_REQUEST, INTERNAL_EEPROM_READ_REPLAY,
   INTERNAL_EEPROM_READ_BULK_REQUEST, INTERNAL_EEPROM_READ_BULK_REPLAY,
   UPTIME_QUERY, UPTIME_REPLAY, SYSLOG_LEVEL_SET, BUILD_VERSION_QUERY,
   BUILD_VERSION_REPLAY, CAN_EC_QUERY, CAN_EC_REPLAY, FLASH_CRC16_QUERY,
   FLASH_CRC16_REPLAY, LOOP_THROUGHPUT_QUERY, LOOP_THROUGHPUT_REPLAY,
   RX_RECEIVED_QUERY, RX_RECEIVED_REPLAY, RX_LOST_QUERY, RX_LOST_REPLAY,
   TX_SENT_QUERY, TX_SENT_REPLAY, TX_DROPPED_QUERY, TX_DROPPED_REPLAY,
   RX_TX_STATS_RESET, BOOT_RESETFLAG_LOG, FIRMWARE_CRC16_ERROR,
   FIRMWARE_CONFIG_COMPAT_ERROR, DUMP_DEBUG_INFO, TASTER_DOWN, TASTER_UP,
   POWER_GROUP_ON, POWER_GROUP_OFF, POWER_GROUP_STATE_QUERY,
   POWER_GROUP_STATE_REPLAY, POWER_GROUP_TIMER_QUERY,
   POWER_GROUP_TIMER_REPLAY, POWER_GROUP_SET_TIMER, POWER_GROUP_STATE_INFO,
   ROLLADEN_POSITION_SET, ROLLADEN_POSITION_REQUEST, ROLLADEN_POSITION_REPLAY,
   ROLLADEN_DEFINE_POSITION, ROLLADEN_POSITION_CHANGED_INFO,
   HES_1WIRE_DISCOVER, HES_1WIRE_DISCOVERED_PART_1,
   HES_1WIRE_DISCOVERED_PART_2, HES_1WIRE_ERROR, HES_1WIRE_TEMPERATURE,
   HES_1WIRE_TEMPERATURE_QUERY, HES_1WIRE_TEMPERATURE_REPLAY,
   REEDKONTAKT_OFFEN, REEDKONTAKT_STATE_QUERY, REEDKONTAKT_STATE_REPLAY,
   REEDKONTAKT_STATE_CHANGE, PVSENSOR_STATE_REQUEST, PVSENSOR_STATE_REPLAY,
   PVSENSOR_STATE_CHANGE_INFO, HEIZUNG_DETAILS_REQUEST,
   HEIZUNG_MODE_OFF_DETAILS, HEIZUNG_SET_MODE_OFF,
   HEIZUNG_MODE_MANUAL_DETAILS, HEIZUNG_SET_MODE_MANUAL,
   HEIZUNG_MODE_THERMOSTAT_DETAILS, HEIZUNG_SET_MODE_THERMOSTAT_DETAILS,
   HEIZUNG_MODE_AUTOMATIK_DETAILS, HEIZUNG_SET_MODE_AUTOMATIK,
   HEIZUNG_TIST_REQUEST, HEIZUNG_TIST_REPLAY, HEIZUNG_WAERMEBEDARF_INFO,
   HEIZSTEUERUNG_STATE_REQUEST, HEIZSTEUERUNG_STATE_REPLAY,
   HEIZSTEUERUNG_STATE_INFO, HEIZSTEUERUNG_SET_VL,
   HEIZUNG_SOLLTEMP_LINE_REQUEST, HEIZUNG_SOLLTEMP_LINE_REPLAY,
   HEIZUNG_SOLLTEMP_WRITE_LINE, HEIZUNG_SOLLTEMP_WRITE_LINE_ACK, WECKER_SET,
   WECKER_DETAILS_REQUEST, WECKER_DETAILS, HELLIGKEITS_INFO, POTI_POS_CHANGED,
   CONFIG_RELOAD, CONFIG_RAM_USAGE_REQUEST, CONFIG_RAM_USAGE_REPLAY,
   ZEITZONE_DETAILS_REQUEST, ZEITZONE_DETAILS_REPLAY, ZEITZONE_WRITE_DETAILS,
   ZEITZONE_WRITE_DETAILS_ACK, ZEITZONE_TEST_MATCH_REQUERST,
   ZEITZONE_TEST_MATCH_REPLAY, TIME_INFO, DATE_INFO, TIME_REQUEST,
   DATE_REQUEST, GET_NEXT_BLOCK, GET_NEXT_BLOCK_REPLAY, DEFRAGMENT,
   ALLOCATE_BLOCK, ALLOCATE_BLOCK_REPLAY, FREE_BLOCK, FREE_BLOCK_REPLAY,
   READ_FROM_BLOCK, READ_FROM_BLOCK_REPLAY, WRITE_TO_BLOCK,
   WRITE_TO_BLOCK_REPLAY, FORMAT, STATE_REQUEST, STATE_INFO, VOLTAGE_REQUEST,
   VOLTAGE_REPLAY, VOLTAGE_STATS_REQUEST, VOLTAGE_STATS_REPLAY,
   VOLTAGE_STATS_RESET, FA_BLOCK1_INFO, REGLER_DATEN_INFO_FRG1,
   REGLER_DATEN_INFO_FRG2, WETTER_INFO, LICHT_STATS_5MIN, WIND_STATS_5MIN,
   OBJECT_COUNT_REQUEST, OBJECT_COUNT_REPLAY, OBJECT_ATTRIBUTE_REQUEST,
   OBJECT_ATTRIBUTE_REPLAY, FIELD_COUNT_REQUEST, FIELD_COUNT_REPLAY,
   FIELD_ATTRIBUTE_REQUEST, FIELD_ATTRIBUTE_REPLAY, FIELD_READ_REQUEST,
   FIELD_READ_REPLAY, FIELD_WRITE_REQUEST, FIELD_WRITE_REPLAY}
=============================================================================
