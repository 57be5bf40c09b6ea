-------------------------------- MODULE Uhr ---------------------------------
(***************************************************************************)
(* The clock of a board: canix_update_datetime, called by the timer        *)
(* interrupt once a second (canix/canix.c), and the handler of TIME_INFO   *)
(* and DATE_INFO frames that corrects it (canix/hcan_rts.c).  The handler  *)
(* reads and writes the fields of the clock one by one with interrupts on. *)
(*                                                                         *)
(* The lengths of minute, hour, day, week and month, the width of int and  *)
(* the largest byte are constants.  A frame arrives less than a second     *)
(* after it was sent, and its handler takes less than a second: one tick   *)
(* at most falls into each.                                                *)
(***************************************************************************)
EXTENDS Integers, FiniteSetsExt

CONSTANTS SEK, MIN, STD,  \* 60 seconds, 60 minutes, 24 hours
          WOCHE,          \* 7 days
          Monate,         \* 12
          Tage,           \* days of each month
          Wrap,           \* 2^16: the range of int
          ByteMax,        \* 255
          Echtzeiten,     \* times of day at which the board may boot
          Jahre           \* years sent

Tag == SEK * MIN * STD
Toleranz == 3

ASSUME UhrAssumption ==
  /\ SEK \in Nat \ {0} /\ MIN \in Nat \ {0} /\ STD \in Nat \ {0} /\ WOCHE \in Nat \ {0}
  /\ Monate \in Nat \ {0} /\ Tage \in [1..Monate -> Nat \ {0}]
  /\ Wrap \in Nat /\ Wrap > 2 * Toleranz /\ ByteMax \in Nat
  /\ Echtzeiten \subseteq 0..(Tag - 1) /\ Jahre \subseteq 0..ByteMax

VARIABLES second, minute, hour, day_of_week, last_date_update,
          day_of_month, month_of_year, year,
          phase,      \* where the frame handler stands, or "ruhe"
          frame,      \* the frame on its way or in the handler
          our_time,   \* the local variable of the handler
          getickt,    \* a tick fell into this flight or this handler
          echt,       \* the time of day, and the day of the week, of the sender
          alter,      \* observer: seconds since the last TIME_INFO
          war,        \* observer: the clock was right when the handler began
          datum_da    \* observer: a DATE_INFO has been received

uhr == <<second, minute, hour, day_of_week, last_date_update>>
datum == <<day_of_month, month_of_year, year>>
lauf == <<phase, frame, our_time, getickt>>
beob == <<alter, war, datum_da>>
uhrVars == <<uhr, datum, lauf, echt, beob>>

Daten == {d \in [tag : 1..Max({Tage[m] : m \in 1..Monate}), monat : 1..Monate,
                  jahr : Jahre] : d.tag <= Tage[d.monat]}
KeinFrame == [art |-> "keins"]
AlterMax == (ByteMax + 1) * SEK * MIN

UhrInit == /\ second = 0 /\ minute = 0 /\ hour = 0 /\ day_of_week = 0
           /\ last_date_update = ByteMax
           /\ day_of_month = 0 /\ month_of_year = 0 /\ year = 0
           /\ phase = "ruhe" /\ frame = KeinFrame /\ our_time = 0 /\ getickt = FALSE
           /\ echt \in [zeit : Echtzeiten, wtag : {1}]
           /\ alter = AlterMax /\ war = FALSE /\ datum_da = FALSE

-----------------------------------------------------------------------------
(* canix_update_datetime: the carries from one field to the next.          *)
Mut_neue_minute == second = SEK  \* the second is compared before it is counted
neue_minute == second + 1 = SEK
neue_stunde == neue_minute /\ minute + 1 = MIN
neuer_tag == neue_stunde /\ hour + 1 = STD
ndays(m) == IF m \in 1..Monate THEN Tage[m] ELSE 0
neuer_monat == neuer_tag /\ day_of_month + 1 > ndays(month_of_year)
neues_jahr == neuer_monat /\ month_of_year + 1 > Monate

aeltere == IF neue_stunde /\ last_date_update < ByteMax THEN last_date_update + 1
                                                        ELSE last_date_update

update_datetime ==
  /\ second' = IF neue_minute THEN 0 ELSE second + 1
  /\ minute' = IF neue_stunde THEN 0 ELSE IF neue_minute THEN minute + 1 ELSE minute
  /\ hour' = IF neuer_tag THEN 0 ELSE IF neue_stunde THEN hour + 1 ELSE hour
  /\ last_date_update' = aeltere
  /\ day_of_week' = IF ~neuer_tag THEN day_of_week
                    ELSE IF day_of_week + 1 = WOCHE + 1 THEN 1 ELSE day_of_week + 1
  /\ day_of_month' = IF neuer_monat THEN 1
                     ELSE IF neuer_tag THEN day_of_month + 1 ELSE day_of_month
  /\ month_of_year' = IF neues_jahr THEN 1
                      ELSE IF neuer_monat THEN month_of_year + 1 ELSE month_of_year
  /\ year' = IF neues_jahr THEN (year + 1) % (ByteMax + 1) ELSE year

Uhrzeit == second + SEK * minute + SEK * MIN * hour

(* One second passes for the board and for the sender.                     *)
Tick == /\ frame # KeinFrame => ~getickt
        /\ update_datetime
        /\ getickt' = (frame # KeinFrame)
        /\ echt' = IF echt.zeit + 1 = Tag
                   THEN [zeit |-> 0, wtag |-> IF echt.wtag = WOCHE THEN 1 ELSE echt.wtag + 1]
                   ELSE [zeit |-> echt.zeit + 1, wtag |-> echt.wtag]
        /\ alter' = IF alter < AlterMax THEN alter + 1 ELSE alter
        /\ UNCHANGED <<phase, frame, our_time, war, datum_da>>

-----------------------------------------------------------------------------
(* The sender sends its time, or a date.                                   *)
Senden == /\ frame = KeinFrame
          /\ \/ frame' = [art |-> "TIME_INFO", zeit |-> echt.zeit, wtag |-> echt.wtag]
             \/ \E d \in Daten : frame' = [art |-> "DATE_INFO", tag |-> d.tag, monat |-> d.monat,
                                         jahr |-> d.jahr]
          /\ getickt' = FALSE
          /\ UNCHANGED <<uhr, datum, phase, our_time, echt, beob>>

(* canix_SFP_RTS_handler, TIME_INFO: the handler starts, reads the clock   *)
(* field by field, and writes it if it deviates.                           *)
Abweichung(a, b) == Min({(a - b) % Tag, (b - a) % Tag})
Richtig == Abweichung(Uhrzeit, echt.zeit) < Toleranz
Mitternachtsnah == frame.zeit < Toleranz \/ frame.zeit >= Tag - Toleranz
Ende == phase' = "ruhe" /\ frame' = KeinFrame /\ our_time' = 0 /\ getickt' = FALSE

TIME_INFO == /\ phase = "ruhe" /\ frame.art = "TIME_INFO"
             /\ last_date_update' = 0
             /\ phase' = "lies_second"
             /\ getickt' = FALSE
             /\ alter' = 0
             /\ war' = (Richtig /\ ~Mitternachtsnah)
             /\ UNCHANGED <<second, minute, hour, day_of_week, datum, frame, our_time, echt,
                            datum_da>>

lies_second == /\ phase = "lies_second"
               /\ our_time' = second
               /\ phase' = "lies_minute"
               /\ UNCHANGED <<uhr, datum, frame, getickt, echt, beob>>

lies_minute == /\ phase = "lies_minute"
               /\ our_time' = our_time + SEK * minute
               /\ phase' = "lies_hour"
               /\ UNCHANGED <<uhr, datum, frame, getickt, echt, beob>>

(* abs takes an int: the difference is reduced to its range, and the least *)
(* int stays negative.                                                     *)
als_int(x) == ((x + Wrap \div 2) % Wrap) - Wrap \div 2
abs(n) == IF n < 0 /\ n # -(Wrap \div 2) THEN -n ELSE n

(* Mutant: a smaller deviation is corrected, too.                          *)
Mut_weicht_ab(n) == abs(als_int(n)) > Toleranz - 1

weicht_ab(n) == abs(als_int(n)) > Toleranz

lies_hour == /\ phase = "lies_hour"
             /\ IF weicht_ab(frame.zeit - (our_time + SEK * MIN * hour))
                THEN phase' = "setze_second" /\ our_time' = 0 /\ UNCHANGED <<frame, getickt>>
                ELSE Ende
             /\ UNCHANGED <<uhr, datum, echt, beob>>

setze_second == /\ phase = "setze_second"
                /\ second' = frame.zeit % SEK
                /\ phase' = "setze_minute"
                /\ UNCHANGED <<minute, hour, day_of_week, last_date_update, datum, frame,
                               our_time, getickt, echt, beob>>

setze_minute == /\ phase = "setze_minute"
                /\ minute' = (frame.zeit \div SEK) % MIN
                /\ phase' = "setze_hour"
                /\ UNCHANGED <<second, hour, day_of_week, last_date_update, datum, frame,
                               our_time, getickt, echt, beob>>

setze_hour == /\ phase = "setze_hour"
              /\ hour' = frame.zeit \div (SEK * MIN)
              /\ phase' = "setze_day_of_week"
              /\ UNCHANGED <<second, minute, day_of_week, last_date_update, datum, frame,
                             our_time, getickt, echt, beob>>

setze_day_of_week == /\ phase = "setze_day_of_week"
                     /\ day_of_week' = frame.wtag
                     /\ Ende
                     /\ UNCHANGED <<second, minute, hour, last_date_update, datum, echt, beob>>

(* DATE_INFO: the date is taken over field by field.                       *)
DATE_INFO == /\ phase = "ruhe" /\ frame.art = "DATE_INFO"
             /\ day_of_month' = frame.tag
             /\ phase' = "setze_month"
             /\ getickt' = FALSE
             /\ UNCHANGED <<uhr, month_of_year, year, frame, our_time, echt, beob>>

setze_month == /\ phase = "setze_month"
               /\ month_of_year' = frame.monat
               /\ phase' = "setze_year"
               /\ UNCHANGED <<uhr, day_of_month, year, frame, our_time, getickt, echt, beob>>

setze_year == /\ phase = "setze_year"
              /\ year' = frame.jahr
              /\ datum_da' = TRUE
              /\ Ende
              /\ UNCHANGED <<uhr, day_of_month, month_of_year, echt, alter, war>>

UhrNext == \/ Tick \/ Senden
           \/ TIME_INFO \/ lies_second \/ lies_minute \/ lies_hour
           \/ setze_second \/ setze_minute \/ setze_hour \/ setze_day_of_week
           \/ DATE_INFO \/ setze_month \/ setze_year

UhrSpec == UhrInit /\ [][UhrNext]_uhrVars

canix_is_date_valid == last_date_update # ByteMax

-----------------------------------------------------------------------------
(***************************************************************************)
(* Properties                                                              *)
(***************************************************************************)

(* The fields stay in the ranges rtc.h gives them, although they wrap only *)
(* at equality and the interrupt falls between the writes of the handler.  *)
UhrTypeOK == /\ second \in 0..(SEK - 1) /\ minute \in 0..(MIN - 1) /\ hour \in 0..(STD - 1)
             /\ day_of_week \in 0..WOCHE /\ last_date_update \in 0..ByteMax
             /\ day_of_month \in 0..Max({Tage[m] : m \in 1..Monate})
             /\ month_of_year \in 0..Monate /\ year \in 0..ByteMax
             /\ echt \in [zeit : 0..(Tag - 1), wtag : 1..WOCHE]
             /\ our_time \in Nat /\ alter \in 0..AlterMax

(* A clock that is right by less than Toleranz seconds stays so through    *)
(* every TIME_INFO away from midnight: a tick may tear the reading of the  *)
(* clock, or the writing, and never both (hcan_rts.c:62-81).               *)
SynchronBleibt == [][phase # "ruhe" /\ phase' = "ruhe" /\ war => Richtig']_uhrVars

(* hcan_rts.c:73 "Falls sie zu stark abweicht, dann neu setzen": after a   *)
(* handler no interrupt fell into, the clock deviates from the frame by    *)
(* no more than Toleranz seconds.                                          *)
KorrigiertAbweichung ==
  [][(phase \in {"lies_hour", "setze_day_of_week"}) /\ phase' = "ruhe" /\ ~getickt
       => Abweichung(Uhrzeit', frame.zeit) <= Toleranz]_uhrVars

(* canix.c:248-249: canix_is_date_valid says whether a time frame came in  *)
(* the last 254 seconds.                                                   *)
Frisch == canix_is_date_valid => alter <= ByteMax - 1

(* rtc.h:43-44: the date is valid if a date frame has been received.       *)
GueltigHeisstDatum == canix_is_date_valid => datum_da

(* rtc.h:17 "Wochentag; 1 = Montag, ... 7 = Sonntag": a board that has     *)
(* handled a TIME_INFO knows the day of the week.                          *)
WochentagGesetzt == canix_is_date_valid /\ phase = "ruhe" => day_of_week \in 1..WOCHE
=============================================================================
