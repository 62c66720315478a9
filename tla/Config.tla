------------------------------- MODULE Config -------------------------------
(***************************************************************************)
(* internal/config/config.go: what a configuration file makes of the       *)
(* defaults, and which results Load accepts.  Durations are milliseconds,  *)
(* already parsed; Malformed is one that time.ParseDuration rejects.  The  *)
(* keys that only reach the logger, the pool's idle connections or the     *)
(* garbage collector are left out.                                         *)
(***************************************************************************)
EXTENDS Integers

CONSTANTS
    Malformed,  \* a duration that does not parse
    Unreadable  \* a file that is there and cannot be read or parsed

Defaults ==
    [listen |-> ":8081", shutdown |-> 10000,
     tls |-> FALSE, cert |-> "", certKey |-> "", minVersion |-> "1.2",
     addr |-> "localhost:6379", dial |-> 2000, read |-> 200, write |-> 200, pool |-> 100,
     window |-> 10000, maxBody |-> 65536, failOpen |-> TRUE, storeTimeout |-> 500,
     prefix |-> "/internal/upstream"]

Durations == {"shutdown", "dial", "read", "write", "window", "storeTimeout"}

\* A file is the settings it holds; a missing file holds none.
Settings(file) ==
    [f \in DOMAIN Defaults |-> IF f \in DOMAIN file THEN file[f] ELSE Defaults[f]]

\* strings.TrimSpace leaves nothing.
Blank(text) == text \in {"", " "}

\* Fault variant: the pool size is not looked at either.
ValidateNoPool(c) ==
    /\ c.listen # ""
    /\ c.tls => ~Blank(c.cert) /\ ~Blank(c.certKey)
    /\ c.minVersion \in {"1.2", "1.3"}
    /\ c.addr # ""
    /\ c.window > 0
    /\ c.maxBody > 0
    /\ c.shutdown > 0
    /\ c.storeTimeout > 0
    /\ ~Blank(c.prefix)

\* The dial, read and write timeouts are not looked at.
Validate(c) ==
    /\ c.listen # ""
    /\ c.tls => ~Blank(c.cert) /\ ~Blank(c.certKey)
    /\ c.minVersion \in {"1.2", "1.3"}
    /\ c.addr # ""
    /\ c.window > 0
    /\ c.maxBody > 0
    /\ c.shutdown > 0
    /\ c.pool > 0
    /\ c.storeTimeout > 0
    /\ ~Blank(c.prefix)

\* ReadInConfig: a missing file is no error, an unreadable one is.
ReadInConfig(file) == file # Unreadable

\* Load returns a configuration, and it is Settings(file).
Loads(file) ==
    /\ ReadInConfig(file)
    /\ \A d \in Durations : Settings(file)[d] # Malformed
    /\ Validate(Settings(file))

-----------------------------------------------------------------------------
(* What main.go and NewRedis derive *)

\* http.Server.ReadTimeout; none when it is not positive.
ServerReadTimeout(c) == 5 * c.read

\* The context of the first ping is done at once unless this is positive.
CanDial(c) == c.dial > 0

\* go-redis puts its default in the place of a zero read timeout and takes a
\* negative one for none.  Only this timeout ends a read that is under way.
ClientReads(c) == c.read >= 0

=============================================================================
