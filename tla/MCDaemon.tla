------------------------------ MODULE MCDaemon -------------------------------
(* A small instance of Daemon for TLC. *)
EXTENDS Daemon

CONSTANTS unit, manual

MCConfigDir == <<"/", "etc", "sidecar">>

\* The defaults, another port, a socket outside the runtime directory of the
\* unit, and a range whose ends are the wrong way round because only one of them
\* is given.
MCFiles ==
    { [kind |-> "missing"],
      [kind |-> "toml", given |-> [port |-> 50052, database |-> <<"data", "sidecar.db">>]],
      [kind |-> "toml", given |-> [socket |-> <<"/", "var", "lib", "sidecar", "sidecar.sock">>]],
      [kind |-> "toml", given |-> [port |-> 0, min |-> 30000]] }
=============================================================================
