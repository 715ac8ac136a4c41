-------------------------------- MODULE Setup --------------------------------
(***************************************************************************)
(* What is decided before the two programs of the stress test run: the DDS *)
(* vendor they are compiled for, and the process type of the publisher's   *)
(* configuration.  Neither ever changes.                                   *)
(*                                                                         *)
(* They are variables, chosen by Init, so that one run of TLC covers all   *)
(* the builds and both process types.                                      *)
(***************************************************************************)
CONSTANTS Vendors,       \* the builds
          ProcessTypes   \* process_type of the publisher's configuration

ASSUME VendorsAssumption == Vendors \subseteq {"FastDDS", "OpenDDS", "CycloneDDS"}

ASSUME ProcessTypesAssumption == ProcessTypes \subseteq {"Normal", "Loan"}

VARIABLES vendor, processType

config == <<vendor, processType>>

Loan == processType = "Loan"

SetupInit == vendor \in Vendors /\ processType \in ProcessTypes
==============================================================================
