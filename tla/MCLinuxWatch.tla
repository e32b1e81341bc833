---------------------------- MODULE MCLinuxWatch ----------------------------
(***************************************************************************)
(* LinuxWatch on a cascade of one or two directories; two are apart, as a  *)
(* user's and the system's are, or nested, as a desktop profile's own      *)
(* directory is in the system's.                                           *)
(***************************************************************************)
EXTENDS LinuxWatch

CONSTANTS user, system

OneLayer == <<user>>
TwoLayers == <<user, system>>
Reversed == <<system, user>>
Apart == {}
Nested == {<<user, system>>}
=============================================================================
