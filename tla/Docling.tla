-------------------------------- MODULE Docling --------------------------------
(***************************************************************************)
(* One conversion by docling-serve (extract/docling_client.py): submit,    *)
(* poll until the deadline, fetch.  The service is external: it works on   *)
(* the task, or loses it, while the client sleeps.  Each call takes up to  *)
(* RequestTimeout; files that are read as they are do not come here.       *)
(***************************************************************************)
EXTENDS Naturals

CONSTANTS MaxWait,        \* max_wait
          PollInterval,   \* poll_interval
          RequestTimeout  \* request_timeout, all in seconds

ASSUME DoclingAssumption ==
    /\ MaxWait \in Nat /\ PollInterval \in Nat \ {0} /\ RequestTimeout \in Nat

VARIABLES
    task,     \* what the service makes of it: "none", "running", "success", "empty",
              \* "failure" or "lost"
    at,       \* the client: "submit", "poll", "sleep", "result", or how it ended
    waited,   \* the client's clock, which counts sleeps
    elapsed,  \* the time that has passed
    ready     \* history: waited when the conversion succeeded, or Never

doclingVars == <<task, at, waited, elapsed, ready>>

Never == MaxWait + PollInterval + 1

DoclingInit ==
    /\ task = "none" /\ at = "submit"
    /\ waited = 0 /\ elapsed = 0 /\ ready = Never

(* A call takes some time, and may not come back with an answer: a status that is not
   ok, a connection error and a timeout all end the conversion as a DoclingError. *)
Call(from, to) ==
    /\ at = from
    /\ \E t \in 0..RequestTimeout : elapsed' = elapsed + t
    /\ at' \in {to, "error"}
    /\ UNCHANGED <<waited, ready>>

Submit ==
    /\ Call("submit", "poll")
    /\ task' = IF at' = "poll" THEN "running" ELSE task

(* The head of the loop is the test of the deadline. *)
Poll ==
    /\ waited <= MaxWait
    /\ Call("poll", IF task \in {"success", "empty"} THEN "result"
                    ELSE IF task = "running" THEN "sleep" ELSE "error")
    /\ UNCHANGED task

SleepUncounted ==
    /\ at = "sleep" /\ at' = "poll"
    /\ elapsed' = elapsed + PollInterval
    /\ UNCHANGED <<task, ready, waited>>
SleepOneInterval ==
    /\ at = "sleep" /\ at' = "poll"
    /\ waited' = waited + PollInterval /\ elapsed' = elapsed + PollInterval
    /\ UNCHANGED <<task, ready>>

TimeOut ==
    /\ at = "poll" /\ waited > MaxWait
    /\ at' = "timed_out"
    /\ UNCHANGED <<task, waited, elapsed, ready>>

Fetch ==
    /\ Call("result", IF task = "success" THEN "text" ELSE "no_text")
    /\ UNCHANGED task

(* The service finishes the task, gives up, or is restarted without it. *)
Serve ==
    /\ task = "running" /\ at \in {"poll", "sleep"}
    /\ task' \in {"success", "empty", "failure", "lost"}
    /\ ready' = IF task' \in {"success", "empty"} THEN waited ELSE ready
    /\ UNCHANGED <<at, waited, elapsed>>

DoclingNext == Submit \/ Poll \/ SleepOneInterval \/ TimeOut \/ Fetch \/ Serve

DoclingSpec == DoclingInit /\ [][DoclingNext]_doclingVars

-----------------------------------------------------------------------------
(* A document holds its worker for a bounded time, well beyond max_wait though: every
   poll may take a request timeout that the client's clock does not count.  And
   max_wait is kept the other way: no conversion is timed out that was done an
   interval before the deadline (one that is done within the last may be). *)
WaitIsBounded ==
    LET polls == MaxWait \div PollInterval + 1
    IN  /\ elapsed <= polls * (PollInterval + RequestTimeout) + 2 * RequestTimeout
        /\ at = "timed_out" => ready + PollInterval > MaxWait

=============================================================================
