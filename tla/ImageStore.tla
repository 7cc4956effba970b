----------------------------- MODULE ImageStore -----------------------------
(***************************************************************************)
(* What the bootloader promises, whatever arrives on the serial line and   *)
(* whenever the power fails: the flash stores one complete image or none;  *)
(* an image is discarded or installed only while one that was found        *)
(* acceptable is being loaded, and until an erase command has failed only  *)
(* that one is installed; only a stored image runs, and nothing happens to *)
(* it while it does.                                                       *)
(***************************************************************************)
CONSTANTS Images, None

VARIABLES
  stored,       \* the image that is complete in flash with its record
  loading,      \* the image whose header was accepted
  running,      \* the image that was started
  worn          \* an erase command has failed

vars == <<stored, loading, running, worn>>

Init ==
  /\ stored \in Images \cup {None} /\ loading = None /\ running = None
  /\ worn = FALSE

Wear == worn' = TRUE /\ UNCHANGED <<stored, loading, running>>

Accept(i) ==
  /\ running = None /\ loading = None
  /\ loading' = i /\ UNCHANGED <<stored, running, worn>>

\* The power may fail in the very step, which ends the loading.
Discard ==
  /\ loading # None /\ stored # None
  /\ stored' = None /\ loading' \in {loading, None} /\ UNCHANGED <<running, worn>>

\* An old record that could not be erased makes another image complete, if
\* that one's data are what was programmed.
Install ==
  /\ loading # None /\ stored = None
  /\ stored' \in IF worn THEN Images ELSE {loading}
  /\ loading' \in {loading, None} /\ UNCHANGED <<running, worn>>

GiveUp == loading' = None /\ UNCHANGED <<stored, running, worn>>

Start ==
  /\ running = None /\ loading = None /\ stored # None
  /\ running' = stored /\ UNCHANGED <<stored, loading, worn>>

PowerOff == running' = None /\ loading' = None /\ UNCHANGED <<stored, worn>>

Next ==
  \/ \E i \in Images : Accept(i)
  \/ Discard \/ Install \/ GiveUp \/ Start \/ PowerOff \/ Wear

Spec == Init /\ [][Next]_vars

=============================================================================
