------------------------------- MODULE Config --------------------------------
(***************************************************************************)
(* The configuration of the daemon, as internal/config loads it.  A file   *)
(* is missing, unreadable, malformed, or gives values to some of the keys; *)
(* a path is the sequence of its elements, and an absolute one begins with *)
(* "/".  The list allowed_services is passed on as it is.                  *)
(***************************************************************************)
EXTENDS Integers, Sequences

CONSTANT ConfigDir  \* filepath.Dir of the path given to --config

Default ==
    [port |-> 50051, socket |-> <<"/", "run", "sidecar", "sidecar.sock">>,
     database |-> <<"sidecar.db">>, min |-> 20000, max |-> 29999]

\* What a key that is not given has, before the defaults are filled in.
Zero == [port |-> 0, socket |-> << >>, database |-> << >>, min |-> 0, max |-> 0]

\* A value that is zero or empty stands for the default.
WithDefaults(given) ==
    [key \in DOMAIN Default |->
        IF key \in DOMAIN given /\ given[key] # Zero[key] THEN given[key] ELSE Default[key]]

RangeValid(cfg) == cfg.min >= 1 /\ cfg.max =< 65535 /\ cfg.min =< cfg.max

IsPath(path) == path \in Seq({path[i] : i \in DOMAIN path})

IsAbs(path) == path # << >> /\ Head(path) = "/"

\* The unit of install.sh is given an absolute path.
ASSUME ConfigDirAssumption == IsPath(ConfigDir) /\ IsAbs(ConfigDir)

\* What a file may be, and the type of the one value that Finalize changes.
IsFile(file) ==
    /\ file.kind \in {"missing", "unreadable", "malformed", "toml"}
    /\ file.kind = "toml" /\ "database" \in DOMAIN file.given => IsPath(file.given.database)

\* Mutant: a relative path is left to the working directory.
FinalizeUnresolved(cfg) == cfg

Finalize(cfg) ==
    IF IsAbs(cfg.database) THEN cfg ELSE [cfg EXCEPT !.database = ConfigDir \o @]

\* Mutant: the range is not looked at.
LoadFailsUnread(file) == file.kind \in {"unreadable", "malformed"}

LoadFails(file) ==
    \/ file.kind \in {"unreadable", "malformed"}
    \/ file.kind = "toml" /\ ~RangeValid(WithDefaults(file.given))

\* Load, when it does not fail.
Load(file) ==
    Finalize(IF file.kind = "missing" THEN Default ELSE WithDefaults(file.given))
=============================================================================
