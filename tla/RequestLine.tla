------------------------------ MODULE RequestLine ------------------------------
(***************************************************************************)
(* What a connection promises those who make requests over it: each         *)
(* request has one outcome, an answer or a failure; they are answered in    *)
(* the order they were made, with none made once the line has closed and    *)
(* none answered after one has failed.                                      *)
(***************************************************************************)
EXTENDS Sequences

CONSTANTS Requests

VARIABLES line,       \* the requests made and not settled, in order
          outcome,    \* of each request: "unmade", "pending", "answered" or "failed"
          open        \* whether requests may still be made

vars == <<line, outcome, open>>

Init == line = <<>> /\ outcome = [r \in Requests |-> "unmade"] /\ open = TRUE

Ask(r) == /\ open /\ outcome[r] = "unmade"
          /\ line' = Append(line, r)
          /\ outcome' = [outcome EXCEPT ![r] = "pending"]
          /\ UNCHANGED open

\* The oldest is answered. The answer may be the last (open' = FALSE).
Answer == /\ line # <<>>
          /\ line' = Tail(line)
          /\ outcome' = [outcome EXCEPT ![Head(line)] = "answered"]
          /\ open' \in {open, FALSE}

Close == open' = FALSE /\ UNCHANGED <<line, outcome>>

\* All that are left fail together, the line having closed.
FailAll == /\ ~open
           /\ line' = <<>>
           /\ outcome' = [r \in Requests |-> IF outcome[r] = "pending" THEN "failed" ELSE outcome[r]]
           /\ UNCHANGED open

Next == (\E r \in Requests : Ask(r)) \/ Answer \/ Close \/ FailAll

Spec == Init /\ [][Next]_vars
================================================================================
