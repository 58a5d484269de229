--------------------------- MODULE MCNtripRuntime ---------------------------
(* Instances of NtripRuntime for TLC: two slots and two descriptors, so that
   a closed descriptor can come back as the connection of the other slot. *)
EXTENDS NtripRuntime

CONSTANTS web

MCFds == {0, 1}
OneFd == {0}
WebOnly == {web}

=============================================================================
