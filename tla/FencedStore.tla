---------------------------- MODULE FencedStore ----------------------------
(***************************************************************************)
(* What SaveConditional promises its callers, without its statements: a    *)
(* call writes its row at most once, in one atomic step that checks the    *)
(* fence and writes, and every answer is justified by the row at one       *)
(* instant of the call.  A call that failed may still take its one write   *)
(* later: the server may run a statement whose reply the client lost.      *)
(***************************************************************************)
EXTENDS FencedTable

CONSTANTS
  Calls,      \* calls of SaveConditional
  Requests,   \* the requests they may carry
  InitialTables, \* what the table may hold before the calls
  Deletable,  \* keys whose row somebody may delete physically
  HotKeys  \* keys that legacy writers outside Calls keep saving

VARIABLES
  table,    \* the rows
  req,      \* req[c]: the request of call c
  answer,   \* answer[c]: what the call returned
  applied   \* applied[c]: the call's statement took effect

vars == <<table, req, answer, applied>>

Saved == {"updated", "inserted", "unchanged"}    \* ConditionalSaveResult.Applied
Refused == {"conflict", "disappeared", "mismatch", "race"}
Answers == {"idle", "pending", "invalid", "rejected", "error"} \cup Saved \cup Refused

Init ==
  /\ table \in InitialTables
  /\ req \in [Calls -> Requests]
  /\ answer = [c \in Calls |-> "idle"]
  /\ applied = [c \in Calls |-> FALSE]

Invoke(c, r) ==
  /\ answer[c] = "idle"
  /\ req' = [req EXCEPT ![c] = r]
  /\ answer' = [answer EXCEPT ![c] = IF InvalidOptions(r) THEN "invalid" ELSE "pending"]
  /\ UNCHANGED <<table, applied>>

\* The one write of a call: the check of the fence and the write are a single step.
Write(c) ==
  LET k == req[c].key
      r == req[c]
  IN /\ answer[c] \in {"pending", "error"}
     /\ ~applied[c]
     /\ ~AliasTaken(table, k, r.body)
     /\ \/ /\ Matches(table[k], r)
           /\ table' = [table EXCEPT ![k] = Written(@, r)]
           /\ \/ answer[c] = "pending" /\ answer' = [answer EXCEPT ![c] = "updated"]
              \/ answer[c] = "error" /\ UNCHANGED answer
        \/ /\ table[k] = None
           /\ table' = [table EXCEPT ![k] = Inserted(r)]
           /\ \/ answer[c] = "pending" /\ answer' = [answer EXCEPT ![c] = "inserted"]
              \/ answer[c] = "error" /\ UNCHANGED answer
     /\ applied' = [applied EXCEPT ![c] = TRUE]
     /\ UNCHANGED req

\* An answer that leaves the row alone, and what the row must look like to give it.
Answer(c) ==
  LET row == table[req[c].key]
  IN /\ answer[c] = "pending"
     /\ \/ /\ IsTarget(row, req[c])
           /\ answer' = [answer EXCEPT ![c] = "unchanged"]
        \/ /\ row # None
           /\ Fenced(req[c])
           /\ ~ConditionHolds(row.fence, req[c].fence, AllowEqual(req[c]))
           /\ answer' = [answer EXCEPT ![c] = "rejected"]
        \/ \E a \in Refused \cup {"error"} : answer' = [answer EXCEPT ![c] = a]
     /\ UNCHANGED <<table, req, applied>>

\* A legacy writer saves the row: it keeps the fence of a row that is there.
HotWrite(k) ==
  /\ k \in HotKeys
  /\ \E b \in Bodies :
       /\ ~AliasTaken(table, k, b)
       /\ table' = [table EXCEPT ![k] =
                      [fence |-> IF @ = None THEN ZeroFence ELSE @.fence,
                       body  |-> Coerce[b]]]
  /\ UNCHANGED <<req, answer, applied>>

Delete(k) ==
  /\ k \in Deletable
  /\ table[k] # None
  /\ table' = [table EXCEPT ![k] = None]
  /\ UNCHANGED <<req, answer, applied>>

Next ==
  \/ \E c \in Calls : (\E r \in Requests : Invoke(c, r)) \/ Write(c) \/ Answer(c)
  \/ \E k \in Keys : HotWrite(k) \/ Delete(k)

Spec == Init /\ [][Next]_vars
=============================================================================
