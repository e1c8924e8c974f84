------------------------------ MODULE MCConsole ------------------------------
(* Instance of Console for TLC: an administrator and a mere reader.       *)
EXTENDS Console

Everything == {[res |-> "*", act |-> a] : a \in {"read", "manage"}}
Reader == {Need("users", "read"), Need("iot", "read")}

MCGrants == {Everything, Reader}
=============================================================================
