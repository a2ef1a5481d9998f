--------------------------- MODULE StreamContract ---------------------------
(***************************************************************************)
(* What the public streaming API promises about its mandatory events       *)
(* (TOKEN, FINAL_TEXT, COMPLETED, ERROR): within one reset generation they *)
(* form one append-only log, numbered without gaps, that ends with exactly *)
(* one terminal outcome, and the client reads it from the front.  Queue    *)
(* bounds, backpressure, rings and partial snapshots are invisible here.   *)
(***************************************************************************)
EXTENDS Integers, Sequences

VARIABLES
    st,      \* "open" or the terminal state reached
    log,     \* mandatory events produced in this generation
    cursor   \* how many of them the client has read

contractVars == <<st, log, cursor>>

Outcomes == {"completed", "failed", "cancelled"}

Mandatory(t, k) == [type |-> t, n |-> k]

Start == st = "open" /\ log = <<>> /\ cursor = 0

\* While the stream is open the log holds TOKEN events only, so its length is
\* also the number of the last token.
ProduceToken ==
    /\ st = "open"
    /\ log' = Append(log, Mandatory("token", Len(log) + 1))
    /\ UNCHANGED <<st, cursor>>

\* The final text holds every token but a closing end-of-stream.
Complete ==
    /\ st = "open" /\ st' = "completed"
    /\ \E k \in {Len(log), Len(log) - 1} :
          log' = log \o <<Mandatory("final", k), Mandatory("completed", 0)>>
    /\ UNCHANGED cursor

Abort(outcome, event) ==
    /\ st = "open" /\ st' = outcome
    /\ log' = Append(log, Mandatory(event, 0))
    /\ UNCHANGED cursor

Read ==
    /\ cursor < Len(log)
    /\ cursor' = cursor + 1
    /\ UNCHANGED <<st, log>>

Restart ==
    /\ st' = "open" /\ log' = <<>> /\ cursor' = 0

ContractNext ==
    \/ ProduceToken \/ Complete \/ Read \/ Restart
    \/ Abort("failed", "error") \/ Abort("cancelled", "cancelled")

ContractSpec == Start /\ [][ContractNext]_contractVars
=============================================================================
