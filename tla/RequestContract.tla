--------------------------- MODULE RequestContract ---------------------------
(* What a caller of the protocol backend may rely on, with the connection,    *)
(* the lock, the futures and the timers left out: a call is submitted, the    *)
(* server executes some of its attempts (each at most once, and possibly      *)
(* after the caller gave up), and the call ends answered or failed.  A call   *)
(* is answered only if the server executed one of its attempts.               *)
EXTENDS Naturals

CONSTANTS Calls,        \* the requests callers submit
          MaxAttempts   \* RetryPolicy.max_attempts

VARIABLES status,       \* status[c]: where the call stands for its caller
          executed      \* the attempts <<c, k>> the server has executed

contractVars == <<status, executed>>

Statuses == {"new", "open", "answered", "failed"}

ContractTypeOK ==
    /\ status \in [Calls -> Statuses]
    /\ executed \in SUBSET (Calls \X (1 .. MaxAttempts))

ContractInit ==
    /\ status = [c \in Calls |-> "new"]
    /\ executed = {}

Submit(c) ==
    /\ status[c] = "new"
    /\ status' = [status EXCEPT ![c] = "open"]
    /\ UNCHANGED executed

\* The server works on its own: it may execute an attempt whose caller has
\* already been told that the call failed, but never the same attempt twice.
ExecuteAttempt(c, k) ==
    /\ status[c] # "new"
    /\ <<c, k>> \notin executed
    /\ executed' = executed \cup {<<c, k>>}
    /\ UNCHANGED status

Answer(c) ==
    /\ status[c] = "open"
    /\ \E k \in 1 .. MaxAttempts : <<c, k>> \in executed
    /\ status' = [status EXCEPT ![c] = "answered"]
    /\ UNCHANGED executed

Fail(c) ==
    /\ status[c] \in {"new", "open"}
    /\ status' = [status EXCEPT ![c] = "failed"]
    /\ UNCHANGED executed

ContractNext ==
    \E c \in Calls :
        \/ Submit(c)
        \/ \E k \in 1 .. MaxAttempts : ExecuteAttempt(c, k)
        \/ Answer(c)
        \/ Fail(c)

Contract == ContractInit /\ [][ContractNext]_contractVars
=============================================================================
