----------------------------- MODULE Zeitdienst -----------------------------
(***************************************************************************)
(* The time service (controllerboard timeservice.c): several boards watch  *)
(* for TIME_INFO frames of a level below their own; a board that has not   *)
(* seen one for takeover_time seconds sends the time itself, every         *)
(* interval + 1 seconds.  Boards fail and come back, and a board can miss  *)
(* a frame when its receive queue is full.                                 *)
(*                                                                         *)
(* Every board runs its handler once a second, at any moment of the        *)
(* second; a frame reaches every other board at once or not at all.        *)
(***************************************************************************)
EXTENDS Integers

CONSTANTS Boards,
          level, takeover_time, interval,   \* the configuration of each board
          ByteMax,       \* 255: where last_time_frame_received stops
          MaxStoerung    \* bound on failures, restarts and missed frames

(* A master sends before the others lose patience.                         *)
ASSUME ZeitdienstAssumption ==
  /\ level \in [Boards -> 0..ByteMax]
  /\ takeover_time \in [Boards -> 0..ByteMax]
  /\ interval \in [Boards -> 0..(ByteMax - 1)]
  /\ \A b, c \in Boards : level[b] < level[c] => interval[b] + 3 <= takeover_time[c]
  /\ ByteMax \in Nat /\ MaxStoerung \in Nat

VARIABLES an,         \* boards that are running
          last_time_frame_received,
          last_time_frame_sent,
          getickt,    \* boards that had their handler call this second
          stoerungen, \* failures, restarts and missed frames so far
          ruhig,      \* observer: whole seconds since the last of them
          sender,     \* observer: the boards that sent in this step
          still       \* observer: ends of seconds since the last frame

vars == <<an, last_time_frame_received, last_time_frame_sent, getickt,
          stoerungen, ruhig, sender, still>>

Init == /\ an = Boards
        /\ last_time_frame_received = [b \in Boards |-> 0]
        /\ last_time_frame_sent = [b \in Boards |-> 0]
        /\ getickt = {}
        /\ stoerungen = 0
        /\ ruhig = 0
        /\ sender = {}
        /\ still = 0

(* The observer stops counting where the bound of EinMaster lies behind.   *)
RuheMax == 2 * ByteMax + 2
Abgelaufen(b) == getickt' = IF getickt \cup {b} = an THEN {} ELSE getickt \cup {b}
Ruhe(b) == ruhig' = IF getickt \cup {b} = an /\ ruhig < RuheMax THEN ruhig + 1 ELSE ruhig

Stille(b, n) == still' = IF getickt \cup {b} = an /\ n < RuheMax THEN n + 1 ELSE n

received_nach(b) == IF last_time_frame_received[b] < ByteMax
                    THEN last_time_frame_received[b] + 1
                    ELSE last_time_frame_received[b]
faellig(b) == received_nach(b) >= takeover_time[b]

(* timeservice_timer_handler of board b: it waits, it counts, or it sends. *)
warten(b) == /\ ~faellig(b)
             /\ last_time_frame_received' = [last_time_frame_received EXCEPT ![b] = received_nach(b)]
             /\ sender' = {} /\ Stille(b, still)
             /\ UNCHANGED <<last_time_frame_sent, stoerungen>>

(* Mutant: the waiting time restarts whenever the board sends itself.      *)
Mut_zaehlen(b) == /\ faellig(b)
                  /\ last_time_frame_sent[b] # interval[b]
                  /\ last_time_frame_received' = [last_time_frame_received EXCEPT ![b] = 0]
                  /\ last_time_frame_sent' = [last_time_frame_sent EXCEPT ![b] = 0]
                  /\ sender' = {} /\ Stille(b, still)
                  /\ UNCHANGED stoerungen

zaehlen(b) == /\ faellig(b)
              /\ last_time_frame_sent[b] # interval[b]
              /\ last_time_frame_received' = [last_time_frame_received EXCEPT ![b] = received_nach(b)]
              /\ last_time_frame_sent' = [last_time_frame_sent EXCEPT ![b] = (@ + 1) % (ByteMax + 1)]
              /\ sender' = {} /\ Stille(b, still)
              /\ UNCHANGED stoerungen

(* Mutant: a board listens to its equals and to those above it, too.       *)
Mut_hoert(c, b) == level[b] >= level[c]

(* timeservice_can_callback of the boards that get the frame.              *)
hoert(c, b) == level[b] < level[c]

(* Mutant: the counter of seconds is not set back when the board sends.    *)
Mut_senden(b, taub) ==
  /\ faellig(b)
  /\ last_time_frame_sent[b] = interval[b]
  /\ last_time_frame_sent' = [last_time_frame_sent EXCEPT ![b] = (@ + 1) % (ByteMax + 1)]
  /\ last_time_frame_received' =
       [c \in Boards |-> IF c = b THEN received_nach(b)
                         ELSE IF c \in an \ taub /\ hoert(c, b) THEN 0
                         ELSE last_time_frame_received[c]]
  /\ sender' = {b} /\ Stille(b, 0)

senden(b, taub) ==
  /\ faellig(b)
  /\ last_time_frame_sent[b] = interval[b]
  /\ last_time_frame_sent' = [last_time_frame_sent EXCEPT ![b] = 0]
  /\ last_time_frame_received' =
       [c \in Boards |-> IF c = b THEN received_nach(b)
                         ELSE IF c \in an \ taub /\ hoert(c, b) THEN 0
                         ELSE last_time_frame_received[c]]
  /\ sender' = {b} /\ Stille(b, 0)

Sekunde(b) == /\ b \in an \ getickt
              /\ \/ warten(b) /\ Ruhe(b)
                 \/ zaehlen(b) /\ Ruhe(b)
                 \/ senden(b, {}) /\ UNCHANGED stoerungen /\ Ruhe(b)
              /\ Abgelaufen(b)
              /\ UNCHANGED an

(* Some boards miss the frame.                                             *)
Verlust(b) == /\ b \in an \ getickt
              /\ stoerungen < MaxStoerung
              /\ \E taub \in (SUBSET (an \ {b})) \ {{}} : senden(b, taub)
              /\ stoerungen' = stoerungen + 1
              /\ ruhig' = 0
              /\ Abgelaufen(b)
              /\ UNCHANGED an

Ausfall(b) == /\ b \in an
              /\ stoerungen < MaxStoerung
              /\ an' = an \ {b}
              /\ stoerungen' = stoerungen + 1
              /\ ruhig' = 0
              /\ getickt' = IF an \ {b} \subseteq getickt THEN {} ELSE getickt \ {b}
              /\ sender' = {}
              /\ UNCHANGED <<last_time_frame_received, last_time_frame_sent, still>>

(* The record of the device starts with zeros.                             *)
Neustart(b) == /\ b \notin an
               /\ stoerungen < MaxStoerung
               /\ an' = an \cup {b}
               /\ last_time_frame_received' = [last_time_frame_received EXCEPT ![b] = 0]
               /\ last_time_frame_sent' = [last_time_frame_sent EXCEPT ![b] = 0]
               /\ stoerungen' = stoerungen + 1
               /\ ruhig' = 0
               /\ sender' = {}
               /\ UNCHANGED <<getickt, still>>

Next == \E b \in Boards : Sekunde(b) \/ Verlust(b) \/ Ausfall(b) \/ Neustart(b)

Spec == Init /\ [][Next]_vars

(* The main loop of a running board calls the handler every second.        *)
FairSpec == Spec /\ \A b \in Boards : WF_vars(Sekunde(b))

-----------------------------------------------------------------------------
(***************************************************************************)
(* Properties                                                              *)
(***************************************************************************)
TypeOK == /\ an \subseteq Boards /\ getickt \subseteq an
          /\ last_time_frame_received \in [Boards -> 0..ByteMax]
          /\ last_time_frame_sent \in [Boards -> 0..ByteMax]
          /\ stoerungen \in 0..MaxStoerung
          /\ ruhig \in 0..RuheMax /\ still \in 0..RuheMax /\ sender \subseteq Boards

(* The boards of the lowest level that run.                                *)
Master == {b \in an : \A c \in an : level[b] <= level[c]}
(* Long enough for each of them to lose patience with its last master, and *)
(* then to send for the first time.                                        *)
Frist == \A b \in Master : ruhig >= takeover_time[b] + interval[b] + 2

(* A master is settled: when nothing has been disturbed for takeover_time  *)
(* + interval + 2 seconds, only boards of the lowest level send.           *)
EinMaster == Frist => sender \subseteq Master

(* And they send in time: at most interval + 1 seconds, by the listeners'  *)
(* count, lie between two frames (timeservice.c:30).                       *)
ZeitImTakt == Frist => \A b \in Master : still <= interval[b] + 1

(* Whatever failed before, some running board goes on sending the time     *)
(* (timeservice.c:28 "So, we will become the time master.").               *)
ZeitKommt == []<>(an = {}) \/ []<>(sender # {})
=============================================================================
