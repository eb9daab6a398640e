-------------------------- MODULE ConditionalSave --------------------------
(***************************************************************************)
(* runConditionalSave (conditional_save.go), statement by statement.       *)
(* Calls run concurrently; each SQL statement is one atomic step on the    *)
(* table, outside explicit transactions, and between two statements of a   *)
(* call anything may happen to the row.  Whatever the code decides from a  *)
(* query's result without another statement belongs to the query's step.   *)
(***************************************************************************)
EXTENDS FencedTable

CONSTANTS
  Calls,      \* calls of SaveConditional
  Requests,   \* the requests they may carry
  FoundRows,  \* DSN option clientFoundRows: count matched rows, not changed rows
  InitialTables, \* what the table may hold before the calls
  Deletable,  \* keys whose row somebody may delete physically
  HotKeys, \* keys that legacy writers outside Calls keep saving
  MaxRounds,  \* conditionalSaveMaxRounds
  ForeignCap  \* the history variable foreign counts up to here

ASSUME CallAssumption ==
  /\ Requests \subseteq Request /\ Requests # {}
  /\ FoundRows \in BOOLEAN
  /\ Deletable \subseteq Keys
  /\ HotKeys \subseteq Keys
  /\ InitialTables \subseteq Tables
  /\ \A t \in InitialTables :
       /\ UniqueAlias(t)
       /\ \A k \in Keys : t[k] # None => Coerce[t[k].body] = t[k].body
  /\ None \notin Calls
  /\ MaxRounds \in Nat \ {0}
  /\ ForeignCap \in Nat

VARIABLES
  table,     \* the rows
  req,       \* req[c]: the request of call c
  pc,        \* pc[c]: the statement call c sends next
  round,     \* round[c]: the round of the loop
  dup,       \* dup[c]: the UNIQUE key the call's INSERT violated (duplicateErr)
  seen,      \* seen[c]: the fence last read (lastStored)
  compared,  \* compared[c]: the state of the previous failed comparison
  answer,    \* answer[c]: outcome or error returned
  late,      \* late[c]: statement on the server whose reply the client lost
  \* history, read by no action's guard:
  effects,   \* effects[c]: how many statements of call c took effect
  foreign,   \* foreign[c]: changes others made to call c's row while it ran
  deleted    \* keys whose row was deleted at some time

flow == <<req, pc, round, dup, seen, compared, answer>>
vars == <<table, flow, late, effects, foreign, deleted>>

Saved == {"updated", "inserted", "unchanged"}
Inconclusive == {"mismatch", "race"}
Answers == {"idle", "pending", "invalid", "rejected", "conflict", "disappeared", "error"}
             \cup Saved \cup Inconclusive
Statements == {"update", "read", "insert", "reread", "match"}

TypeOK ==
  /\ table \in Tables
  /\ req \in [Calls -> Requests]
  /\ pc \in [Calls -> Statements \cup {"done"}]
  /\ round \in [Calls -> 1..MaxRounds]
  /\ dup \in [Calls -> {"none", "pk", "alias"}]
  /\ seen \in [Calls -> Fences]
  /\ compared \in [Calls -> Fences \cup {None}]
  /\ answer \in [Calls -> Answers]
  /\ late \in [Calls -> {"none", "update", "insert"}]
  /\ effects \in [Calls -> Nat]
  /\ foreign \in [Calls -> 0..ForeignCap]
  /\ deleted \in SUBSET Keys

Init ==
  /\ table \in InitialTables
  /\ req = [c \in Calls |-> CHOOSE r \in Requests : TRUE]
  /\ pc = [c \in Calls |-> "done"]
  /\ round = [c \in Calls |-> 1]
  /\ dup = [c \in Calls |-> "none"]
  /\ seen = [c \in Calls |-> ZeroFence]
  /\ compared = [c \in Calls |-> None]
  /\ answer = [c \in Calls |-> "idle"]
  /\ late = [c \in Calls |-> "none"]
  /\ effects = [c \in Calls |-> 0]
  /\ foreign = [c \in Calls |-> 0]
  /\ deleted = {}
-----------------------------------------------------------------------------
\* SaveConditional up to the first statement: the plan is built or refused.
Start(c, r) ==
  /\ answer[c] = "idle"
  /\ req' = [req EXCEPT ![c] = r]
  /\ IF InvalidOptions(r)
       THEN /\ answer' = [answer EXCEPT ![c] = "invalid"]
            /\ UNCHANGED pc
       ELSE /\ answer' = [answer EXCEPT ![c] = "pending"]
            /\ pc' = [pc EXCEPT ![c] = "update"]
  /\ UNCHANGED <<table, round, dup, seen, compared, late, effects, foreign, deleted>>

Goto(c, statement) ==
  /\ pc' = [pc EXCEPT ![c] = statement]
  /\ UNCHANGED <<answer, round>>

Return(c, a) ==
  /\ pc' = [pc EXCEPT ![c] = "done"]
  /\ answer' = [answer EXCEPT ![c] = a]
  /\ UNCHANGED round

\* The end of a round that decided nothing: the next UPDATE, or no more rounds.
NextRoundForever(c) ==
  /\ pc' = [pc EXCEPT ![c] = "update"]
  /\ UNCHANGED <<answer, round>>

NextRoundOneTooMany(c) ==
  IF round[c] <= MaxRounds
    THEN /\ round' = [round EXCEPT ![c] = @ + 1]
         /\ pc' = [pc EXCEPT ![c] = "update"]
         /\ UNCHANGED answer
    ELSE Return(c, "race")

NextRoundNever(c) == Return(c, "race")

NextRound(c) ==
  IF round[c] < MaxRounds
    THEN /\ round' = [round EXCEPT ![c] = @ + 1]
         /\ pc' = [pc EXCEPT ![c] = "update"]
         /\ UNCHANGED answer
    ELSE Return(c, "race")

\* Some writer (a call or None) changes row k: count it against the calls under way there.
Disturb(writer, k) ==
  foreign' = [c \in Calls |->
                IF /\ c # writer /\ answer[c] = "pending" /\ req[c].key = k
                   /\ foreign[c] < ForeignCap
                  THEN foreign[c] + 1
                  ELSE foreign[c]]

Put(c, row) ==
  /\ table' = [table EXCEPT ![req[c].key] = row]
  /\ effects' = [effects EXCEPT ![c] = @ + 1]
  /\ Disturb(c, req[c].key)
  /\ UNCHANGED deleted

NoEffect == UNCHANGED <<table, effects, foreign, deleted>>

Row(c) == table[req[c].key]
Taken(c) == AliasTaken(table, req[c].key, req[c].body)

\* RowsAffected > 0: the row matches and changes (or clientFoundRows counts matches).
Affects(c) ==
  /\ Matches(Row(c), req[c])
  /\ FoundRows \/ Written(Row(c), req[c]) # Row(c)

UpdateApplies(c) ==
  /\ pc[c] = "update" /\ Affects(c) /\ ~Taken(c)
  /\ Put(c, Written(Row(c), req[c]))
  /\ Return(c, "updated")
  /\ UNCHANGED <<req, dup, seen, compared, late>>

UpdateZeroRows(c) ==
  /\ pc[c] = "update" /\ ~Affects(c)
  /\ Goto(c, "read")
  /\ NoEffect
  /\ UNCHANGED <<req, dup, seen, compared, late>>

\* The new body collides with another row's alternate UNIQUE column: 1062 from the UPDATE.
UpdateDuplicate(c) ==
  /\ pc[c] = "update" /\ Affects(c) /\ Taken(c)
  /\ Return(c, "error")
  /\ NoEffect
  /\ UNCHANGED <<req, dup, seen, compared, late>>

\* The decision on a state that was read and exists (the loop body after both reads).
Classify(c) ==
  LET want == req[c].fence
      stored == Row(c).fence
      holds == Fenced(req[c]) => ConditionHolds(stored, want, AllowEqual(req[c]))
  IN /\ seen' = [seen EXCEPT ![c] = IF Fenced(req[c]) THEN stored ELSE ZeroFence]
     /\ \/ /\ ~holds
           /\ Return(c, "rejected")
           /\ UNCHANGED compared
        \/ /\ holds /\ Fenced(req[c]) /\ stored # want
           /\ compared' = [compared EXCEPT ![c] = None]
           /\ NextRound(c)
        \/ /\ holds /\ (Fenced(req[c]) => stored = want)
           /\ Goto(c, "match")
           /\ UNCHANGED compared

ReadState(c) ==
  /\ pc[c] = "read"
  /\ \/ /\ Row(c) = None /\ dup[c] # "none"
        /\ Return(c, "disappeared")
        /\ UNCHANGED <<seen, compared>>
     \/ /\ Row(c) = None /\ dup[c] = "none"
        /\ Goto(c, "insert")
        /\ UNCHANGED <<seen, compared>>
     \/ Row(c) # None /\ Classify(c)
  /\ NoEffect
  /\ UNCHANGED <<req, dup, late>>

InsertApplies(c) ==
  /\ pc[c] = "insert" /\ Row(c) = None /\ ~Taken(c)
  /\ Put(c, Inserted(req[c]))
  /\ Return(c, "inserted")
  /\ UNCHANGED <<req, dup, seen, compared, late>>

\* 1062: the row was inserted meanwhile, or another row holds the alternate UNIQUE value.
InsertDuplicate(c) ==
  /\ pc[c] = "insert" /\ (Row(c) # None \/ Taken(c))
  /\ dup' = [dup EXCEPT ![c] = IF Row(c) # None THEN "pk" ELSE "alias"]
  /\ Goto(c, "reread")
  /\ NoEffect
  /\ UNCHANGED <<req, seen, compared, late>>

\* The state read again after 1062, to tell the two cases apart.
RereadTrustsDuplicate(c) ==
  /\ pc[c] = "reread"
  /\ Return(c, "conflict")
  /\ NoEffect
  /\ UNCHANGED <<req, dup, seen, compared, late>>

Reread(c) ==
  /\ pc[c] = "reread"
  /\ \/ /\ Row(c) = None
        /\ Return(c, "conflict")
        /\ UNCHANGED <<seen, compared>>
     \/ Row(c) # None /\ Classify(c)
  /\ NoEffect
  /\ UNCHANGED <<req, dup, late>>

\* The whole-row comparison, FOR UPDATE, in a statement of its own.
MatchTrustsState(c) ==
  /\ pc[c] = "match"
  /\ Return(c, "unchanged")
  /\ NoEffect
  /\ UNCHANGED <<req, dup, seen, compared, late>>

Match(c) ==
  /\ pc[c] = "match"
  /\ \/ /\ IsTarget(Row(c), req[c])
        /\ Return(c, "unchanged")
        /\ UNCHANGED compared
     \/ /\ ~IsTarget(Row(c), req[c]) /\ compared[c] = seen[c]
        /\ Return(c, "mismatch")
        /\ UNCHANGED compared
     \/ /\ ~IsTarget(Row(c), req[c]) /\ compared[c] # seen[c]
        /\ compared' = [compared EXCEPT ![c] = seen[c]]
        /\ NextRound(c)
  /\ NoEffect
  /\ UNCHANGED <<req, dup, seen, late>>

\* A statement fails without running (connection refused, lock wait timeout, 1213...).
StatementFails(c) ==
  /\ pc[c] \in Statements
  /\ Return(c, "error")
  /\ NoEffect
  /\ UNCHANGED <<req, dup, seen, compared, late>>

\* The client gives up on a write (deadline, broken connection) that the server still holds.
ReplyLostReadsOn(c) ==
  /\ pc[c] \in {"update", "insert"}
  /\ late' = [late EXCEPT ![c] = pc[c]]
  /\ Goto(c, "read")
  /\ NoEffect
  /\ UNCHANGED <<req, dup, seen, compared>>

ReplyLost(c) ==
  /\ pc[c] \in {"update", "insert"}
  /\ late' = [late EXCEPT ![c] = pc[c]]
  /\ Return(c, "error")
  /\ NoEffect
  /\ UNCHANGED <<req, dup, seen, compared>>

\* ... and runs it, with the same WHERE or the same UNIQUE checks as in time.
LateStatement(c) ==
  /\ late[c] # "none"
  /\ late' = [late EXCEPT ![c] = "none"]
  /\ IF Taken(c)
       THEN NoEffect
       ELSE \/ late[c] = "update" /\ Affects(c) /\ Put(c, Written(Row(c), req[c]))
            \/ late[c] = "update" /\ ~Affects(c) /\ NoEffect
            \/ late[c] = "insert" /\ Row(c) = None /\ Put(c, Inserted(req[c]))
            \/ late[c] = "insert" /\ Row(c) # None /\ NoEffect
  /\ UNCHANGED flow

\* A legacy writer outside Calls saves row k (UPDATE preserving the fence, or INSERT).
HotWrite(k) ==
  /\ k \in HotKeys
  /\ \E b \in Bodies :
       /\ ~AliasTaken(table, k, b)
       /\ table' = [table EXCEPT ![k] =
                      [fence |-> IF @ = None THEN ZeroFence ELSE @.fence,
                       body  |-> Coerce[b]]]
       /\ table' # table
  /\ Disturb(None, k)
  /\ UNCHANGED <<flow, late, effects, deleted>>

Delete(k) ==
  /\ k \in Deletable
  /\ table[k] # None
  /\ table' = [table EXCEPT ![k] = None]
  /\ deleted' = deleted \cup {k}
  /\ Disturb(None, k)
  /\ UNCHANGED <<flow, late, effects>>

\* A statement of call c that ran and whose reply arrived.
Reply(c) ==
  \/ UpdateApplies(c) \/ UpdateZeroRows(c) \/ UpdateDuplicate(c)
  \/ ReadState(c)
  \/ InsertApplies(c) \/ InsertDuplicate(c) \/ Reread(c)
  \/ Match(c)

Next ==
  \/ \E c \in Calls : \E r \in Requests : Start(c, r)
  \/ \E c \in Calls : Reply(c) \/ StatementFails(c) \/ ReplyLost(c) \/ LateStatement(c)
  \/ \E k \in Keys : HotWrite(k) \/ Delete(k)

Spec == Init /\ [][Next]_vars

\* A call whose next statement can run does send it and hears of it: the driver
\* returns a reply or an error for every statement.
Fairness == \A c \in Calls : WF_vars(Reply(c))

FairSpec == Spec /\ Fairness
-----------------------------------------------------------------------------
(***************************************************************************)
(* Properties                                                              *)
(***************************************************************************)

\* A row that stays never goes back to an older fence, whichever calls, late
\* statements and legacy writers touch it ("a fence only advances", SaveOptions).
FenceNeverRetreats ==
  [][\A k \in Keys : table[k] # None /\ table'[k] # None
                       => ~Older(table'[k].fence, table[k].fence)]_vars

\* Once a fenced call has answered that its row is there, or that a row not older
\* than its own is there, no interleaving brings the key back to an older version
\* (short of a physical DELETE, which the contract rules out for fenced tables).
AnsweredVersionsSurvive ==
  \A c \in Calls :
    (answer[c] \in Saved \cup {"rejected"} /\ Fenced(req[c]) /\ req[c].key \notin deleted)
      => Row(c) # None /\ ~Older(Row(c).fence, req[c].fence)

\* A call writes at most once, exactly once when it says "updated" or "inserted",
\* and not at all when it says anything else but an error: in particular
\* DB.SaveConditional may keep the cached row of a rejected call.
AnswersMatchEffects ==
  \A c \in Calls :
    /\ answer[c] \in {"updated", "inserted"} => effects[c] = 1
    /\ answer[c] = "error" => effects[c] \in {0, 1}
    /\ answer[c] \notin {"updated", "inserted", "error"} => effects[c] = 0

\* "conflicts with a different unique row" is only said when the INSERT was refused
\* because of another row, not because of the call's own primary key.
ConflictNamesAnotherRow ==
  \A c \in Calls : answer[c] = "conflict" => dup[c] = "alias"

\* A pending call has sent nothing that took effect, and a statement may only outlive
\* a call that failed: what the two properties above rest on.
CallInv ==
  \A c \in Calls :
    /\ pc[c] # "done" <=> answer[c] = "pending"
    /\ answer[c] = "pending" => effects[c] = 0
    /\ late[c] # "none" => answer[c] = "error" /\ effects[c] = 0

\* After 1062 on the primary key the row is there until it is deleted.
RereadInv ==
  \A c \in Calls :
    pc[c] = "reread" =>
      \/ dup[c] = "alias"
      \/ dup[c] = "pk" /\ (Row(c) # None \/ req[c].key \in deleted)

IInv ==
  /\ TypeOK
  /\ CallInv
  /\ RereadInv
  /\ AnswersMatchEffects
  /\ AnsweredVersionsSurvive
  /\ deleted \subseteq Deletable

\* With columns that store what is written, a call gives up (ErrConditionalSaveRace,
\* ErrSaveMatchMismatch) only after others changed its row at least ForeignCap times
\* while it ran: the second round absorbs every smaller amount of contention.
GivesUpOnlyUnderContention ==
  \A c \in Calls :
    answer[c] \in Inconclusive /\ Coerce[req[c].body] = req[c].body
      => foreign[c] = ForeignCap

\* Every call returns, however hot its row is.
EveryCallReturns ==
  \A c \in Calls : (answer[c] = "pending") ~> (answer[c] # "pending")

\* The statements implement the atomic fenced write.
Abstract == INSTANCE FencedStore WITH applied <- [c \in Calls |-> effects[c] # 0]

ImplementsFencedStore == Abstract!Spec
=============================================================================
