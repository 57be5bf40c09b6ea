------------------------------ MODULE HcanDef ------------------------------
(***************************************************************************)
(* The numbers of the messages as the firmware knows them: hcan-def.h, a   *)
(* record for each service, its fields named as the macros without their   *)
(* prefix.  The host library has its own copy of the numbers, in           *)
(* Nachrichten: both are generated from one description, at two times.     *)
(***************************************************************************)
EXTENDS TLC

(* The numbers of the services, from hcan.h. *)
HCAN_SRV == [HMS |-> 1, OWS |-> 2, RCS |-> 3, SLS |-> 4, HES |-> 5, RTS |-> 6,
             EDS |-> 7, USVS |-> 8, EBUS |-> 9, WS |-> 10, OAPS |-> 11]

(* Housekeeping of every board. *)
HCAN_HMS ==
  [PING_REQUEST |-> 1, PING_REPLAY |-> 2, DEVICE_STATE_REQUEST |-> 3,
   DEVICE_STATE_REPLAY |-> 4, DEVICE_RESET |-> 5, DEVICE_BOOT_STOP |-> 6,
   DEVICE_BOOT_STOP_ACK |-> 7, DEVICE_LOAD_APP |-> 8,
   DEVICE_TYPE_REQUEST |-> 9, DEVICE_TYPE_REPLAY |-> 10,
   FLASH_BUFFER_FILL |-> 16, FLASH_BUFFER_FILL_ACK |-> 17,
   FLASH_BUFFER_WRITE |-> 18, FLASH_BUFFER_WRITE_ACK |-> 19,
   INTERNAL_EEPROM_WRITE |-> 20, INTERNAL_EEPROM_WRITE_ACK |-> 21,
   INTERNAL_EEPROM_READ_REQUEST |-> 22, INTERNAL_EEPROM_READ_REPLAY |-> 23,
   INTERNAL_EEPROM_READ_BULK_REQUEST |-> 24,
   INTERNAL_EEPROM_READ_BULK_REPLAY |-> 25, UPTIME_QUERY |-> 30,
   UPTIME_REPLAY |-> 31, SYSLOG_LEVEL_SET |-> 32, BUILD_VERSION_QUERY |-> 33,
   BUILD_VERSION_REPLAY |-> 34, CAN_EC_QUERY |-> 35, CAN_EC_REPLAY |-> 36,
   FLASH_CRC16_QUERY |-> 37, FLASH_CRC16_REPLAY |-> 38,
   LOOP_THROUGHPUT_QUERY |-> 39, LOOP_THROUGHPUT_REPLAY |-> 40,
   RX_RECEIVED_QUERY |-> 41, RX_RECEIVED_REPLAY |-> 42, RX_LOST_QUERY |-> 43,
   RX_LOST_REPLAY |-> 44, TX_SENT_QUERY |-> 45, TX_SENT_REPLAY |-> 46,
   TX_DROPPED_QUERY |-> 47, TX_DROPPED_REPLAY |-> 48,
   RX_TX_STATS_RESET |-> 49]

(* Messages for the log. *)
HCAN_SLS ==
  [BOOT_RESETFLAG_LOG |-> 1, FIRMWARE_CRC16_ERROR |-> 2,
   FIRMWARE_CONFIG_COMPAT_ERROR |-> 3, DUMP_DEBUG_INFO |-> 4]

(* Keys, power ports, shutters, sensors. *)
HCAN_HES_GERAETE ==
  [TASTER_DOWN |-> 1, TASTER_UP |-> 2, POWER_GROUP_ON |-> 10,
   POWER_GROUP_OFF |-> 11, POWER_GROUP_STATE_QUERY |-> 12,
   POWER_GROUP_STATE_REPLAY |-> 13, POWER_GROUP_TIMER_QUERY |-> 14,
   POWER_GROUP_TIMER_REPLAY |-> 15, POWER_GROUP_SET_TIMER |-> 16,
   POWER_GROUP_STATE_INFO |-> 17, ROLLADEN_POSITION_SET |-> 20,
   ROLLADEN_POSITION_REQUEST |-> 21, ROLLADEN_POSITION_REPLAY |-> 22,
   ROLLADEN_DEFINE_POSITION |-> 23, ROLLADEN_POSITION_CHANGED_INFO |-> 24,
   HES_1WIRE_DISCOVER |-> 30, HES_1WIRE_DISCOVERED_PART_1 |-> 31,
   HES_1WIRE_DISCOVERED_PART_2 |-> 32, HES_1WIRE_ERROR |-> 33,
   HES_1WIRE_TEMPERATURE |-> 34, HES_1WIRE_TEMPERATURE_QUERY |-> 35,
   HES_1WIRE_TEMPERATURE_REPLAY |-> 36, REEDKONTAKT_OFFEN |-> 40,
   REEDKONTAKT_STATE_QUERY |-> 41, REEDKONTAKT_STATE_REPLAY |-> 42,
   REEDKONTAKT_STATE_CHANGE |-> 43, PVSENSOR_STATE_REQUEST |-> 44,
   PVSENSOR_STATE_REPLAY |-> 45, PVSENSOR_STATE_CHANGE_INFO |-> 46]

(* Heating. *)
HCAN_HES_HEIZUNG ==
  [HEIZUNG_DETAILS_REQUEST |-> 50, HEIZUNG_MODE_OFF_DETAILS |-> 51,
   HEIZUNG_SET_MODE_OFF |-> 52, HEIZUNG_MODE_MANUAL_DETAILS |-> 53,
   HEIZUNG_SET_MODE_MANUAL |-> 54, HEIZUNG_MODE_THERMOSTAT_DETAILS |-> 55,
   HEIZUNG_SET_MODE_THERMOSTAT_DETAILS |-> 56,
   HEIZUNG_MODE_AUTOMATIK_DETAILS |-> 57, HEIZUNG_SET_MODE_AUTOMATIK |-> 58,
   HEIZUNG_TIST_REQUEST |-> 59, HEIZUNG_TIST_REPLAY |-> 60,
   HEIZUNG_WAERMEBEDARF_INFO |-> 61, HEIZSTEUERUNG_STATE_REQUEST |-> 62,
   HEIZSTEUERUNG_STATE_REPLAY |-> 63, HEIZSTEUERUNG_STATE_INFO |-> 64,
   HEIZSTEUERUNG_SET_VL |-> 65, HEIZUNG_SOLLTEMP_LINE_REQUEST |-> 66,
   HEIZUNG_SOLLTEMP_LINE_REPLAY |-> 67, HEIZUNG_SOLLTEMP_WRITE_LINE |-> 68,
   HEIZUNG_SOLLTEMP_WRITE_LINE_ACK |-> 69]

(* Alarm clock, inputs, configuration, heating times. *)
HCAN_HES_WEITERE ==
  [WECKER_SET |-> 72, WECKER_DETAILS_REQUEST |-> 73, WECKER_DETAILS |-> 74,
   HELLIGKEITS_INFO |-> 71, POTI_POS_CHANGED |-> 70, CONFIG_RELOAD |-> 100,
   CONFIG_RAM_USAGE_REQUEST |-> 101, CONFIG_RAM_USAGE_REPLAY |-> 102,
   ZEITZONE_DETAILS_REQUEST |-> 110, ZEITZONE_DETAILS_REPLAY |-> 111,
   ZEITZONE_WRITE_DETAILS |-> 112, ZEITZONE_WRITE_DETAILS_ACK |-> 113,
   ZEITZONE_TEST_MATCH_REQUERST |-> 114, ZEITZONE_TEST_MATCH_REPLAY |-> 115]

(* Time. *)
HCAN_RTS ==
  [TIME_INFO |-> 1, DATE_INFO |-> 2, TIME_REQUEST |-> 3, DATE_REQUEST |-> 4]

(* EEPROM data store. *)
HCAN_EDS ==
  [GET_NEXT_BLOCK |-> 1, GET_NEXT_BLOCK_REPLAY |-> 2, DEFRAGMENT |-> 3,
   ALLOCATE_BLOCK |-> 4, ALLOCATE_BLOCK_REPLAY |-> 5, FREE_BLOCK |-> 6,
   FREE_BLOCK_REPLAY |-> 7, READ_FROM_BLOCK |-> 8,
   READ_FROM_BLOCK_REPLAY |-> 9, WRITE_TO_BLOCK |-> 10,
   WRITE_TO_BLOCK_REPLAY |-> 11, FORMAT |-> 12]

(* Uninterruptible power supply. *)
HCAN_USVS ==
  [STATE_REQUEST |-> 1, STATE_INFO |-> 2, VOLTAGE_REQUEST |-> 3,
   VOLTAGE_REPLAY |-> 4, VOLTAGE_STATS_REQUEST |-> 5,
   VOLTAGE_STATS_REPLAY |-> 6, VOLTAGE_STATS_RESET |-> 7]

(* Boiler. *)
HCAN_EBUS ==
  [FA_BLOCK1_INFO |-> 1, REGLER_DATEN_INFO_FRG1 |-> 2,
   REGLER_DATEN_INFO_FRG2 |-> 3]

(* Weather station. *)
HCAN_WS ==
  [WETTER_INFO |-> 1, LICHT_STATS_5MIN |-> 2, WIND_STATS_5MIN |-> 3]

(* Access to objects. *)
HCAN_OAPS ==
  [OBJECT_COUNT_REQUEST |-> 1, OBJECT_COUNT_REPLAY |-> 2,
   OBJECT_ATTRIBUTE_REQUEST |-> 3, OBJECT_ATTRIBUTE_REPLAY |-> 4,
   FIELD_COUNT_REQUEST |-> 5, FIELD_COUNT_REPLAY |-> 6,
   FIELD_ATTRIBUTE_REQUEST |-> 7, FIELD_ATTRIBUTE_REPLAY |-> 8,
   FIELD_READ_REQUEST |-> 9, FIELD_READ_REPLAY |-> 10,
   FIELD_WRITE_REQUEST |-> 11, FIELD_WRITE_REPLAY |-> 12]

HCAN_HES == HCAN_HES_GERAETE @@ HCAN_HES_HEIZUNG @@ HCAN_HES_WEITERE
=============================================================================
