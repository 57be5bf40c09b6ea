----------------------------- MODULE Meldungen -----------------------------
(***************************************************************************)
(* The messages the programs on the boards send on their own: the layout   *)
(* of each, named as in Firmware.  The state behind them is the subject of *)
(* the device modules.                                                     *)
(***************************************************************************)
EXTENDS Firmware

Meldung(d, c, w) == [dienst |-> d, befehl |-> c, werte |-> w]
Hes(c, w) == Meldung(HCAN_SRV.HES, c, w)

An(g) == Hes(HES.POWER_GROUP_ON, <<g>>)
Aus(g) == Hes(HES.POWER_GROUP_OFF, <<g>>)
Fahre == Hes(HES.ROLLADEN_POSITION_SET, <<"gruppe", "position">>)

-----------------------------------------------------------------------------
(* Devices of the controller board. *)

taster_sendet ==
  {Hes(HES.TASTER_DOWN, <<"gruppe", "index">>),
   Hes(HES.TASTER_UP, <<"gruppe", "index">>), Fahre}

multitaster_sendet ==
  {Hes(HES.TASTER_DOWN, <<"gruppe", "index">>),
   Hes(HES.TASTER_UP, <<"gruppe", "index">>), Fahre}

schalter_sendet == {An("gruppe"), Aus("gruppe")}

poti_sendet == {Hes(HES.POTI_POS_CHANGED, <<"guppe", "pos_hi", "pos_lo">>)}

helligkeitssensor_sendet ==
  {Hes(HES.HELLIGKEITS_INFO, <<"guppe", "brightness_hi", "brightness_lo">>)}

reedkontakt_sendet ==
  {Hes(HES.REEDKONTAKT_STATE_CHANGE, <<"gruppe", "state">>),
   Hes(HES.REEDKONTAKT_OFFEN, <<"gruppe">>)}

tempsensor_sendet ==
  {Hes(HES.HES_1WIRE_TEMPERATURE, <<"gruppe", "temp_hi", "temp_lo">>)}

heizung_sendet == {Hes(HES.HEIZUNG_WAERMEBEDARF_INFO, <<"id", "value">>)}

zentralheizungspumpe_sendet == {An("gruppe"), Aus("gruppe")}

rolladen_sendet ==
  {Hes(HES.ROLLADEN_POSITION_CHANGED_INFO,
       <<"gruppe", "position", "cmdsrc_hi", "cmdsrc_lo">>)}

rolladenAutomat_sendet == {Fahre}

rolladenSchlitzpos_sendet ==
  {Fahre, Hes(HES.ROLLADEN_POSITION_REQUEST, <<"gruppe">>),
   Hes(HES.REEDKONTAKT_STATE_QUERY, <<"gruppe">>)}

powerport_sendet == {Hes(HES.POWER_GROUP_STATE_INFO, <<"gruppe", "status">>)}

powerportAutomat_sendet == {An("gruppe"), Aus("gruppe")}

zeitschaltuhr_sendet == {An("gruppe"), Aus("gruppe")}

lichtzone_sendet == {An("gruppe"), Aus("gruppe")}

timeservice_sendet ==
  {Meldung(HCAN_SRV.RTS, RTS.TIME_INFO,
           <<"level", "day_of_week", "hour", "minute", "second">>),
   Meldung(HCAN_SRV.RTS, RTS.DATE_INFO,
           <<"level", "day_of_month", "month_of_year", "year">>)}

devices_sendet ==
  {Meldung(HCAN_SRV.SLS, HCAN_SLS.FIRMWARE_CONFIG_COMPAT_ERROR,
           <<"eds_block_type", "eds_addr_hi", "eds_addr_lo",
             "size_in_config", "size_in_firmware">>)}

usv_sendet == {Meldung(HCAN_SRV.USVS, USVS.STATE_INFO, <<"state">>)}

-----------------------------------------------------------------------------
(* Pages of the user panel. *)

Manuell ==
  Hes(HES.HEIZUNG_SET_MODE_MANUAL, <<"id", "rate", "duration_hi", "duration_lo">>)
Thermostat ==
  Hes(HES.HEIZUNG_SET_MODE_THERMOSTAT_DETAILS,
      <<"id", "temp_hi", "temp_lo", "duration_hi", "duration_lo">>)

get_heiz_details ==
  {Hes(HES.HEIZUNG_DETAILS_REQUEST, <<"id">>),
   Hes(HES.HEIZUNG_TIST_REQUEST, <<"id">>)}

set_heiz_edited_details ==
  {Hes(HES.HEIZUNG_SET_MODE_OFF, <<"id">>), Manuell, Thermostat,
   Hes(HES.HEIZUNG_SET_MODE_AUTOMATIK, <<"id">>)}

set_gesamt_heiz_edited_details ==
  {Hes(HES.HEIZUNG_SET_MODE_OFF, <<"id">>), Thermostat,
   Hes(HES.HEIZUNG_SET_MODE_AUTOMATIK, <<"id">>)}

get_weck_details == {Hes(HES.WECKER_DETAILS_REQUEST, <<"id">>)}

set_weck_edited_details ==
  {Hes(HES.WECKER_SET, <<"id", "feature", "duration_hi", "duration_lo">>)}

powerport_page_handle_key_down_event ==
  {Hes(HES.POWER_GROUP_SET_TIMER, <<"gruppe", "timer_hi", "timer_lo">>),
   An("gruppe"), Aus("gruppe")}

powerport_page_print_page ==
  {Hes(HES.POWER_GROUP_STATE_QUERY, <<"gruppe">>),
   Hes(HES.POWER_GROUP_TIMER_QUERY, <<"gruppe">>)}

fenster_monitor_collect_reed_states == {Hes(HES.REEDKONTAKT_STATE_QUERY, <<"gruppe">>)}

temp_anzeige_page_get_temp ==
  {Hes(HES.HES_1WIRE_TEMPERATURE_QUERY, <<"gruppe">>)}

rolladen_page_handle_key_down_event == {Fahre}

taster_page_handle_key_down_event ==
  {Hes(HES.TASTER_DOWN, <<"gruppe">>), Hes(HES.TASTER_UP, <<"gruppe">>)}

-----------------------------------------------------------------------------
VonGeraeten ==
  UNION {taster_sendet, multitaster_sendet, schalter_sendet, poti_sendet,
         helligkeitssensor_sendet, reedkontakt_sendet, tempsensor_sendet,
         heizung_sendet, zentralheizungspumpe_sendet, rolladen_sendet,
         rolladenAutomat_sendet, rolladenSchlitzpos_sendet, powerport_sendet,
         powerportAutomat_sendet, zeitschaltuhr_sendet, lichtzone_sendet,
         timeservice_sendet, devices_sendet, usv_sendet,
         get_heiz_details, set_heiz_edited_details,
         set_gesamt_heiz_edited_details, get_weck_details,
         set_weck_edited_details, powerport_page_handle_key_down_event,
         powerport_page_print_page, fenster_monitor_collect_reed_states,
         temp_anzeige_page_get_temp, rolladen_page_handle_key_down_event,
         taster_page_handle_key_down_event}
=============================================================================
