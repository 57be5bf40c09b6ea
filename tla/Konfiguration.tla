---------------------------- MODULE Konfiguration ---------------------------
(***************************************************************************)
(* devices_load_config (controllerboard devices.c) on top of the EEPROM    *)
(* data store: at boot, and on CONFIG_RELOAD, the board walks over the     *)
(* blocks with EDS_foreach_block_between and builds one device per block   *)
(* of a known type.  The walk looks at one address more than the chain     *)
(* has: behind the last block the EEPROM address wraps round to cell 0,    *)
(* the cell a failed allocation writes to.                                 *)
(***************************************************************************)
EXTENDS Eds, FiniteSets

CONSTANTS Bekannt,          \* block types the firmware has a device for
          ConfigSize,       \* type |-> size of its configuration struct
          MaxPdevice        \* MAX_PDEVICE_DATA, the length of pdevice_data

ASSUME KonfigurationAssumption ==
  /\ Bekannt \subseteq Typen \ {0}
  /\ ConfigSize \in [Typen -> Groessen]
  /\ MaxPdevice \in Nat

VARIABLES gestartet,   \* main has loaded the configuration after booting
          pdevice_data,  \* blocks that have a device in RAM
          compat_error   \* the last load reported a COMPAT_ERROR

kvars == <<mem, pc, p, last_free, req, kette, gestartet, pdevice_data, compat_error>>
edsvars == <<mem, last_free, req, kette>>
devvars == <<gestartet, pdevice_data, compat_error>>

KInit == Init /\ gestartet = FALSE /\ pdevice_data = {} /\ compat_error = FALSE

(* An EEPROM access uses as many address bits as the EEPROM has.           *)
Zelle(a) == mem[a % (EdsEnd + 1)]
TypAn(a) == Zelle(a)
GroesseAn(a) == Zelle(a + 1)

-----------------------------------------------------------------------------
(* devices_load_config: the loop of EDS_foreach_block_between(it,1,255).   *)

(* Mutant: the walk starts behind the first block without looking at it.   *)
Mut_lade_anfang == /\ pc = "idle"
                   /\ pc' = "load"
                   /\ p' = next_block(DataStart)
                   /\ gestartet' = TRUE
                   /\ pdevice_data' = {}
                   /\ compat_error' = FALSE
                   /\ UNCHANGED edsvars

lade_anfang == /\ pc = "idle"
               /\ pc' = "load"
               /\ p' = DataStart
               /\ gestartet' = TRUE
               /\ pdevice_data' = {}
               /\ compat_error' = FALSE
               /\ UNCHANGED edsvars

(* find_next_block_between: the address behind p, until p is past the end. *)
lade_weiter == IF p < EdsEnd
               THEN p' = next_block(p) /\ pc' = "load"
               ELSE p' = 0 /\ pc' = "idle"

lade_unbekannt == /\ pc = "load"
                  /\ TypAn(p) \notin Bekannt
                  /\ lade_weiter
                  /\ UNCHANGED <<edsvars, devvars>>

(* The check against MAX_DEVICE_DATA compares the number of devices with   *)
(* the size of the other array; it does not stop any load.                 *)
lade_geraet == /\ pc = "load"
               /\ TypAn(p) \in Bekannt
               /\ GroesseAn(p) = ConfigSize[TypAn(p)]
               /\ pdevice_data' = pdevice_data \cup {p}
               /\ lade_weiter
               /\ UNCHANGED <<edsvars, gestartet, compat_error>>

(* FIRMWARE_CONFIG_COMPAT_ERROR: everything is unloaded again.             *)
lade_fehler == /\ pc = "load"
               /\ TypAn(p) \in Bekannt
               /\ GroesseAn(p) # ConfigSize[TypAn(p)]
               /\ pdevice_data' = {}
               /\ compat_error' = TRUE
               /\ p' = 0 /\ pc' = "idle"
               /\ UNCHANGED <<edsvars, gestartet>>

devices_load_config == lade_unbekannt \/ lade_geraet \/ lade_fehler
CONFIG_RELOAD == gestartet /\ lade_anfang

-----------------------------------------------------------------------------
(* Any member of the bus may send any request, the host with its           *)
(* create_block and delete_block among them.                               *)
Anfragen == gestartet /\ Auftrag /\ UNCHANGED devvars

EdsSchritt == /\ eds_init \/ eds_format \/ eds_alloc \/ set_type \/ eds_free \/ eds_defragment
              /\ UNCHANGED devvars

(* After a power failure the board boots and loads its configuration.      *)
KCrash == /\ Crash
          /\ gestartet' = FALSE
          /\ pdevice_data' = {}
          /\ compat_error' = FALSE

KNext == \/ ~gestartet /\ lade_anfang
         \/ CONFIG_RELOAD
         \/ devices_load_config
         \/ Anfragen
         \/ EdsSchritt
         \/ KCrash

KSpec == KInit /\ [][KNext]_kvars

(* Requests are worked off inside the frame handler, loads inside main.    *)
KFair == KSpec /\ WF_kvars(EdsSchritt) /\ WF_kvars(devices_load_config)

-----------------------------------------------------------------------------
(***************************************************************************)
(* Properties                                                              *)
(***************************************************************************)

(* A load that ends leaves a device for every block of a known type,       *)
(* unless it reported an error (devices.c:49, 182-205): no block is        *)
(* skipped, neither the first of the chain nor the last.                   *)
Geraete == {b \in kette : BLOCK_TYPE(b) \in Bekannt}
LaedtAlle ==
  [][pc = "load" /\ pc' = "idle" /\ ~compat_error'
       => Geraete \subseteq pdevice_data']_kvars

(* devices.c:146 "Hier wird geprueft, ob die Config Blocksize, so wie sie  *)
(* ueber die struct der Firmware bekannt ist, auch im EDS als Blockgroesse *)
(* vermerkt ist": a compat error means that some block has a wrong size.   *)
FehlerHeisstFalscheGroesse ==
  [][~compat_error /\ compat_error' =>
       \E b \in Geraete : BLOCK_SIZE(b) # ConfigSize[BLOCK_TYPE(b)]]_kvars

(* devices.c:188 "das RAM fuer die Aufnahme der Config ist voll / hier     *)
(* wird abgebrochen": never more devices than pdevice_data has entries.    *)
ImRamPlatz == Cardinality(pdevice_data) <= MaxPdevice
=============================================================================
