--------------------------- MODULE MCSezzleClient ---------------------------
(* Instances of SezzleClient: a read, a write and a forced authentication. *)
EXTENDS SezzleClient

CONSTANTS read, write, renew
=============================================================================
