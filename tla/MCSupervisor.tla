---------------------------- MODULE MCSupervisor ----------------------------
(* Small instances of the supervisor. *)
EXTENDS Supervisor, TLC

\* Two of the three children, which run the same code: valkey, which would
\* adopt a stranger's port, and the exporter, which must not.
MCOrder   == <<"valkey", "exporter">>
MCGuarded == {"exporter"}
=============================================================================
