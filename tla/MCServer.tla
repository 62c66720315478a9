------------------------------ MODULE MCServer ------------------------------
(***************************************************************************)
(* Server for TLC: two request goroutines, two lives of the process, and   *)
(* configuration files that set one or two keys.                           *)
(***************************************************************************)
EXTENDS Server, TLC

CONSTANTS g1, g2

\* Files that Load refuses, one per reason.
RefusedFiles ==
    {Unreadable}
    \cup {d :> Malformed : d \in Durations}
    \cup {d :> 0 : d \in {"shutdown", "window", "storeTimeout", "maxBody", "pool"}}
    \cup {d :> "" : d \in {"listen", "minVersion", "addr"}}
    \cup {"prefix" :> " ", "tls" :> TRUE, "tls" :> TRUE @@ "cert" :> "c.pem"}

\* Files that Load accepts, with the timeouts it does not look at.
AcceptedFiles ==
    {"failOpen" :> FALSE, "read" :> 0, "read" :> -1, "dial" :> 0,
     "dial" :> 0 @@ "failOpen" :> FALSE}

\* No key set: every default.
DefaultFile == {<< >>}

MCFiles == RefusedFiles \cup AcceptedFiles \cup DefaultFile

=============================================================================
