------------------------------ MODULE Firmware ------------------------------
(***************************************************************************)
(* What the programs on the boards make of a message: for every command a  *)
(* handler knows, the bytes it reads behind service and command and the    *)
(* answers it may give.  Bytes are named by what the code does with them;  *)
(* "" is a byte the handler skips.  The behaviour behind the commands is   *)
(* the subject of the device modules; here it is the layout of the frames. *)
(***************************************************************************)
EXTENDS HcanDef, Sequences

Antwort(c, w) == [befehl |-> c, werte |-> w]

Fall(c, l, g) == [befehl |-> c, liest |-> l, gibt |-> g]

(* No answer; an answer in any case; one only from a device of the group.  *)
Stumm == {<< >>}
Immer(c, w) == {<<Antwort(c, w)>>}
Gruppe(c, w) == {<< >>, <<Antwort(c, w)>>}

HMS == HCAN_HMS
HES == HCAN_HES
RTS == HCAN_RTS
EDS == HCAN_EDS
USVS == HCAN_USVS

-----------------------------------------------------------------------------
(* Services of canix, on every board. *)

Bytes4 == <<"d0", "d1", "d2", "d3">>

canix_SFP_HMS_handler ==
  {Fall(HMS.PING_REQUEST, << >>, Immer(HMS.PING_REPLAY, << >>)),
   Fall(HMS.DEVICE_STATE_REQUEST, << >>,
        Immer(HMS.DEVICE_STATE_REPLAY, <<"state">>)),
   Fall(HMS.DEVICE_RESET, << >>, Stumm),
   Fall(HMS.DEVICE_TYPE_REQUEST, << >>,
        Immer(HMS.DEVICE_TYPE_REPLAY, <<"arch", "type">>)),
   Fall(HMS.INTERNAL_EEPROM_WRITE, <<"addr_lsb", "addr_msb", "value">>,
        Immer(HMS.INTERNAL_EEPROM_WRITE_ACK, << >>)),
   Fall(HMS.INTERNAL_EEPROM_READ_REQUEST, <<"addr_lsb", "addr_msb">>,
        Immer(HMS.INTERNAL_EEPROM_READ_REPLAY, <<"value">>)),
   Fall(HMS.INTERNAL_EEPROM_READ_BULK_REQUEST, <<"addr_lsb", "addr_msb">>,
        Immer(HMS.INTERNAL_EEPROM_READ_BULK_REPLAY, Bytes4 \o <<"d4", "d5">>)),
   Fall(HMS.UPTIME_QUERY, << >>,
        Immer(HMS.UPTIME_REPLAY, <<"u3", "u2", "u1", "u0">>)),
   Fall(HMS.SYSLOG_LEVEL_SET, <<"level">>, Stumm),
   Fall(HMS.BUILD_VERSION_QUERY, << >>,
        Immer(HMS.BUILD_VERSION_REPLAY, <<"hi", "lo">>)),
   Fall(HMS.CAN_EC_QUERY, << >>, Immer(HMS.CAN_EC_REPLAY, <<"REC", "TEC">>)),
   Fall(HMS.RX_RECEIVED_QUERY, << >>, Immer(HMS.RX_RECEIVED_REPLAY, Bytes4)),
   Fall(HMS.RX_LOST_QUERY, << >>, Immer(HMS.RX_LOST_REPLAY, Bytes4)),
   Fall(HMS.TX_SENT_QUERY, << >>, Immer(HMS.TX_SENT_REPLAY, Bytes4)),
   Fall(HMS.TX_DROPPED_QUERY, << >>, Immer(HMS.TX_DROPPED_REPLAY, Bytes4)),
   Fall(HMS.RX_TX_STATS_RESET, << >>, Stumm)}

(* The requests are answered to the address of the board only; the model's *)
(* callers use no other.                                                   *)
canix_SFP_RTS_handler ==
  {Fall(RTS.TIME_INFO, <<"", "day_of_week", "hour", "minute", "second">>, Stumm),
   Fall(RTS.DATE_INFO, <<"", "day_of_month", "month_of_year", "year">>, Stumm),
   Fall(RTS.TIME_REQUEST, << >>,
        Immer(RTS.TIME_INFO,
              <<"level", "day_of_week", "hour", "minute", "second">>)),
   Fall(RTS.DATE_REQUEST, << >>,
        Immer(RTS.DATE_INFO,
              <<"level", "day_of_month", "month_of_year", "year">>))}

eds_can_callback ==
  LET Handle == <<"handle_hi", "handle_lo">>
  IN  {Fall(EDS.GET_NEXT_BLOCK, Handle,
            Immer(EDS.GET_NEXT_BLOCK_REPLAY, Handle \o <<"type", "size">>)),
       Fall(EDS.ALLOCATE_BLOCK, <<"type", "size">>,
            Immer(EDS.ALLOCATE_BLOCK_REPLAY, Handle)),
       Fall(EDS.FREE_BLOCK, Handle, Immer(EDS.FREE_BLOCK_REPLAY, <<"result">>)),
       Fall(EDS.DEFRAGMENT, << >>, Stumm),
       Fall(EDS.READ_FROM_BLOCK, Handle \o <<"index">>,
            Immer(EDS.READ_FROM_BLOCK_REPLAY, Bytes4)),
       Fall(EDS.WRITE_TO_BLOCK, Handle \o <<"index", "d0">>,
            Immer(EDS.WRITE_TO_BLOCK_REPLAY, << >>)),
       Fall(EDS.FORMAT, << >>, Stumm)}

-----------------------------------------------------------------------------
(* The power supply.  It answers for the voltages 1 to 5, the only ones    *)
(* its callers ask for.                                                    *)
usv_can_callback ==
  {Fall(USVS.STATE_REQUEST, << >>, Immer(USVS.STATE_INFO, <<"state">>)),
   Fall(USVS.VOLTAGE_REQUEST, <<"Ux">>,
        Immer(USVS.VOLTAGE_REPLAY, <<"Ux_hi", "Ux_lo">>)),
   Fall(USVS.VOLTAGE_STATS_REQUEST, <<"Ux">>,
        Immer(USVS.VOLTAGE_STATS_REPLAY,
              <<"U", "min_hi", "min_lo", "max_hi", "max_lo">>)),
   Fall(USVS.VOLTAGE_STATS_RESET, << >>, Stumm)}

-----------------------------------------------------------------------------
(* The controller board: its own commands, then its devices. *)

(* A search of the one-wire bus with up to two sensors on it: two frames   *)
(* for each, or a bus error, at the start or after the first sensor.       *)
ow_discover ==
  LET Sensor == <<Antwort(HES.HES_1WIRE_DISCOVERED_PART_1,
                          <<"id0", "id1", "id2", "id3">>),
                  Antwort(HES.HES_1WIRE_DISCOVERED_PART_2,
                          <<"id4", "id5", "id6", "id7">>)>>
      Fehler == <<Antwort(HES.HES_1WIRE_ERROR, <<"error">>)>>
  IN  {Fehler, Sensor, Sensor \o Fehler, Sensor \o Sensor}

hauselektrik_callback ==
  {Fall(HES.CONFIG_RELOAD, << >>, Stumm),
   Fall(HES.CONFIG_RAM_USAGE_REQUEST, << >>,
        Immer(HES.CONFIG_RAM_USAGE_REPLAY, <<"usage_hi", "usage_lo">>)),
   Fall(HES.HES_1WIRE_DISCOVER, <<"pin">>, ow_discover)}

powerport_can_callback ==
  {Fall(HES.TASTER_DOWN, <<"gruppe">>, Stumm),
   Fall(HES.POWER_GROUP_ON, <<"gruppe">>, Stumm),
   Fall(HES.POWER_GROUP_OFF, <<"gruppe">>, Stumm),
   Fall(HES.POWER_GROUP_STATE_QUERY, <<"gruppe">>,
        Gruppe(HES.POWER_GROUP_STATE_REPLAY, <<"gruppe", "status">>)),
   Fall(HES.WECKER_SET, <<"id", "feature", "duration_hi", "duration_lo">>,
        Stumm),
   Fall(HES.WECKER_DETAILS_REQUEST, <<"id">>,
        Gruppe(HES.WECKER_DETAILS, <<"id", "duration_hi", "duration_lo">>))}

rolladen_can_callback ==
  {Fall(HES.TASTER_DOWN, <<"gruppe">>, Stumm),
   Fall(HES.TASTER_UP, <<"gruppe">>, Stumm),
   Fall(HES.ROLLADEN_POSITION_SET, <<"gruppe", "position">>, Stumm),
   Fall(HES.ROLLADEN_DEFINE_POSITION, <<"gruppe", "position">>, Stumm),
   Fall(HES.ROLLADEN_POSITION_REQUEST, <<"gruppe">>,
        Gruppe(HES.ROLLADEN_POSITION_REPLAY, <<"gruppe", "position">>))}

reedkontakt_can_callback ==
  {Fall(HES.REEDKONTAKT_STATE_QUERY, <<"gruppe">>,
        Gruppe(HES.REEDKONTAKT_STATE_REPLAY, <<"gruppe", "state">>))}

tempsensor_can_callback ==
  {Fall(HES.HES_1WIRE_TEMPERATURE_QUERY, <<"gruppe">>,
        Gruppe(HES.HES_1WIRE_TEMPERATURE_REPLAY,
               <<"gruppe", "temp_hi", "temp_lo">>))}

heizung_can_callback ==
  LET Dauer == <<"duration_hi", "duration_lo">>
      Temp == <<"temp_hi", "temp_lo">>
  IN  {Fall(HES.HES_1WIRE_TEMPERATURE, <<"gruppe">> \o Temp, Stumm),
       Fall(HES.HEIZUNG_SET_MODE_OFF, <<"id">>, Stumm),
       Fall(HES.HEIZUNG_SET_MODE_MANUAL, <<"id", "rate">> \o Dauer, Stumm),
       Fall(HES.HEIZUNG_SET_MODE_THERMOSTAT_DETAILS,
            <<"id">> \o Temp \o Dauer, Stumm),
       Fall(HES.HEIZUNG_SET_MODE_AUTOMATIK, <<"id">>, Stumm),
       Fall(HES.HEIZUNG_DETAILS_REQUEST, <<"id">>,
            Gruppe(HES.HEIZUNG_MODE_OFF_DETAILS, <<"id">>)
            \cup Gruppe(HES.HEIZUNG_MODE_MANUAL_DETAILS, <<"id", "rate">> \o Dauer)
            \cup Gruppe(HES.HEIZUNG_MODE_THERMOSTAT_DETAILS,
                        <<"id">> \o Temp \o Dauer)
            \cup Gruppe(HES.HEIZUNG_MODE_AUTOMATIK_DETAILS,
                        <<"id">> \o Temp \o <<"timerange_id">>)),
       Fall(HES.HEIZUNG_TIST_REQUEST, <<"id">>,
            Gruppe(HES.HEIZUNG_TIST_REPLAY, <<"id">> \o Temp)),
       Fall(HES.HEIZUNG_SOLLTEMP_LINE_REQUEST, <<"id", "idx">>,
            Gruppe(HES.HEIZUNG_SOLLTEMP_LINE_REPLAY,
                   <<"id", "idx">> \o Temp \o <<"zeitzone_id">>)),
       Fall(HES.HEIZUNG_SOLLTEMP_WRITE_LINE, <<"id", "idx">> \o Temp,
            Gruppe(HES.HEIZUNG_SOLLTEMP_WRITE_LINE_ACK, <<"id", "idx">>)),
       Fall(HES.REEDKONTAKT_OFFEN, <<"gruppe">>, Stumm)}

lichtzone_can_callback ==
  {Fall(HES.TASTER_DOWN, <<"gruppe">>, Stumm),
   Fall(HES.POWER_GROUP_ON, <<"gruppe">>, Stumm),
   Fall(HES.POWER_GROUP_OFF, <<"gruppe">>, Stumm),
   Fall(HES.POWER_GROUP_TIMER_QUERY, <<"gruppe">>,
        Gruppe(HES.POWER_GROUP_TIMER_REPLAY,
               <<"gruppe", "timer_hi", "timer_lo">>)),
   Fall(HES.POWER_GROUP_SET_TIMER, <<"gruppe", "timer_hi", "timer_lo">>, Stumm)}

zeitzone_can_callback ==
  LET Zeiten == <<"gruppe", "day_pattern", "from_hour", "from_minute",
                  "to_hour", "to_minute">>
  IN  {Fall(HES.ZEITZONE_DETAILS_REQUEST, <<"gruppe">>,
            Gruppe(HES.ZEITZONE_DETAILS_REPLAY, Zeiten)),
       Fall(HES.ZEITZONE_WRITE_DETAILS, Zeiten,
            Gruppe(HES.ZEITZONE_WRITE_DETAILS_ACK, <<"gruppe">>)),
       Fall(HES.ZEITZONE_TEST_MATCH_REQUERST, <<"gruppe">>,
            Gruppe(HES.ZEITZONE_TEST_MATCH_REPLAY, <<"gruppe", "match">>))}

dunstabzugport_can_callback ==
  {Fall(HES.REEDKONTAKT_OFFEN, <<"gruppe">>, Stumm),
   Fall(HES.REEDKONTAKT_STATE_CHANGE, <<"gruppe", "state">>, Stumm),
   Fall(HES.TASTER_DOWN, <<"gruppe">>, Stumm)}

multitaster_can_callback ==
  {Fall(HES.POTI_POS_CHANGED, <<"guppe", "pos_hi", "pos_lo">>, Stumm)}

powerportAutomat_can_callback ==
  {Fall(HES.POWER_GROUP_ON, <<"gruppe">>, Stumm),
   Fall(HES.POWER_GROUP_OFF, <<"gruppe">>, Stumm),
   Fall(HES.HELLIGKEITS_INFO, <<"guppe", "brightness_hi", "brightness_lo">>,
        Stumm)}

rolladenAutomat_can_callback ==
  {Fall(HES.POWER_GROUP_ON, <<"gruppe">>, Stumm),
   Fall(HES.POWER_GROUP_OFF, <<"gruppe">>, Stumm),
   Fall(HES.HELLIGKEITS_INFO, <<"guppe", "brightness_hi", "brightness_lo">>,
        Stumm)}

rolladenSchlitzpos_can_callback ==
  {Fall(HES.REEDKONTAKT_STATE_CHANGE, <<"gruppe">>, Stumm),
   Fall(HES.ROLLADEN_POSITION_REPLAY, <<"gruppe", "position">>, Stumm),
   Fall(HES.REEDKONTAKT_STATE_REPLAY, <<"gruppe", "state">>, Stumm)}

tastdimmer_can_callback ==
  {Fall(HES.TASTER_DOWN, <<"gruppe">>, Stumm),
   Fall(HES.TASTER_UP, <<"gruppe">>, Stumm)}

zeitschaltuhr_can_callback ==
  {Fall(HES.POWER_GROUP_ON, <<"gruppe">>, Stumm),
   Fall(HES.POWER_GROUP_OFF, <<"gruppe">>, Stumm)}

zentralheizungspumpe_can_callback ==
  {Fall(HES.HEIZUNG_WAERMEBEDARF_INFO, <<"id", "value">>, Stumm)}

timeservice_can_callback == {Fall(RTS.TIME_INFO, <<"level">>, Stumm)}

-----------------------------------------------------------------------------
(* The pages of the user panel take answers. *)

heiz_page_can_callback ==
  {Fall(HES.HEIZUNG_MODE_OFF_DETAILS, <<"id">>, Stumm),
   Fall(HES.HEIZUNG_MODE_MANUAL_DETAILS,
        <<"id", "rate", "duration_hi", "duration_lo">>, Stumm),
   Fall(HES.HEIZUNG_MODE_THERMOSTAT_DETAILS,
        <<"id", "temp_hi", "temp_lo", "duration_hi", "duration_lo">>, Stumm),
   Fall(HES.HEIZUNG_MODE_AUTOMATIK_DETAILS, <<"id", "temp_hi", "temp_lo">>,
        Stumm),
   Fall(HES.HEIZUNG_TIST_REPLAY, <<"id", "temp_hi", "temp_lo">>, Stumm)}

weck_page_can_callback ==
  {Fall(HES.WECKER_DETAILS, <<"id", "duration_hi", "duration_lo">>, Stumm)}

powerport_page_can_callback ==
  {Fall(HES.POWER_GROUP_STATE_REPLAY, <<"gruppe", "status">>, Stumm),
   Fall(HES.POWER_GROUP_TIMER_REPLAY, <<"gruppe", "timer_hi", "timer_lo">>,
        Stumm)}

fenster_monitor_page_can_callback ==
  {Fall(HES.REEDKONTAKT_STATE_REPLAY, <<"gruppe", "state">>, Stumm)}

temp_anzeige_page_can_callback ==
  {Fall(HES.HES_1WIRE_TEMPERATURE_REPLAY, <<"gruppe", "temp_hi", "temp_lo">>,
        Stumm)}

-----------------------------------------------------------------------------
(* Mutant: the boot loader answers the EEPROM requests with one command    *)
(* number too many.                                                        *)
MutLaderNummer ==
  {Fall(1, << >>, Immer(2, << >>)), Fall(3, << >>, Immer(4, <<"state">>)),
   Fall(5, << >>, Stumm), Fall(6, << >>, Immer(7, << >>)),
   Fall(9, << >>, Immer(10, <<"arch", "type">>)),
   Fall(22, <<"addr_lsb", "addr_msb">>, Immer(24, <<"value">>))}

(* The boot loader: it writes the numbers of the commands as numbers.  A   *)
(* line of the flash buffer is acknowledged with its fourth frame.         *)
hcanbl32 ==
  {Fall(1, << >>, Immer(2, << >>)),
   Fall(3, << >>, Immer(4, <<"state">>)),
   Fall(5, << >>, Stumm),
   Fall(6, << >>, Immer(7, << >>)),
   Fall(8, << >>, Stumm),
   Fall(9, << >>, Immer(10, <<"arch", "type">>)),
   Fall(16, <<"index">> \o Bytes4, Gruppe(17, << >>)),
   Fall(18, <<"addr_lsb", "addr_msb">>, Immer(19, << >>)),
   Fall(20, <<"addr_lsb", "addr_msb", "value">>, Immer(21, << >>)),
   Fall(22, <<"addr_lsb", "addr_msb">>, Immer(23, <<"value">>)),
   Fall(37, <<"hi", "lo">>, Immer(38, <<"hi", "lo">>))}

-----------------------------------------------------------------------------
(* Which handlers a message of a service reaches on a board that runs its  *)
(* application, and on one in the boot loader.                             *)
Anwendung(d) ==
  CASE d = HCAN_SRV.HMS -> canix_SFP_HMS_handler
    [] d = HCAN_SRV.RTS -> canix_SFP_RTS_handler \cup timeservice_can_callback
    [] d = HCAN_SRV.EDS -> eds_can_callback
    [] d = HCAN_SRV.USVS -> usv_can_callback
    [] d = HCAN_SRV.HES ->
         UNION {hauselektrik_callback, powerport_can_callback,
                rolladen_can_callback, reedkontakt_can_callback,
                tempsensor_can_callback, heizung_can_callback,
                lichtzone_can_callback, zeitzone_can_callback,
                dunstabzugport_can_callback, multitaster_can_callback,
                powerportAutomat_can_callback, rolladenAutomat_can_callback,
                rolladenSchlitzpos_can_callback, tastdimmer_can_callback,
                zeitschaltuhr_can_callback, zentralheizungspumpe_can_callback,
                heiz_page_can_callback, weck_page_can_callback,
                powerport_page_can_callback, fenster_monitor_page_can_callback,
                temp_anzeige_page_can_callback}
    [] OTHER -> {}

Bootlader(d) == IF d = HCAN_SRV.HMS THEN hcanbl32 ELSE {}
=============================================================================
