---------------------------- MODULE ConnectionPool ----------------------------
(***************************************************************************)
(* Requests and background jobs sharing the database connections: Store    *)
(* (internal/adapters/postgres/store.go) takes one from the pool for every *)
(* statement or transaction, WithinTx (tx.go) keeps one for a whole unit   *)
(* of work, and CreateActivity and AddPersonEmail (crm.go), which call     *)
(* begin even when their store is bound to a unit of work, need a second   *)
(* one while the first is held.                                            *)
(*                                                                         *)
(* The pool hands out connections in the order they were asked for, and no *)
(* deadline is set on the wait.                                            *)
(***************************************************************************)
EXTENDS Naturals, Sequences, FiniteSets, SequencesExt

CONSTANTS
  Workers,     \* requests and jobs at the same time
  Patient,     \* those whose context is not cancelled: the background jobs
  Conns,       \* size of the pool
  MaxNested    \* bound on the activities and addresses of one unit of work

ASSUME ConnectionPoolAssumption ==
  /\ Patient \subseteq Workers
  /\ Conns \in Nat \ {0} /\ MaxNested \in Nat

VARIABLES
  step,    \* what each worker is at
  left,    \* nested transactions its unit of work has still to do
  queue    \* workers waiting for a connection

vars == <<step, left, queue>>

\* Connections a worker holds at each step.
Holds == [idle |-> 0, begin |-> 0, statement |-> 0,   \* the last two wait for the first one
          query |-> 1, unit |-> 1,
          nested |-> 1,                               \* holds one and waits for the second
          both |-> 2]

Waiting == {"begin", "statement", "nested"}

held == SumFunction([w \in Workers |-> Holds[step[w]]])

Ask(w, s) == step' = [step EXCEPT ![w] = s] /\ queue' = Append(queue, w)
Go(w, s) == step' = [step EXCEPT ![w] = s] /\ UNCHANGED queue

Init ==
  /\ step = [w \in Workers |-> "idle"]
  /\ left = [w \in Workers |-> 0]
  /\ queue = <<>>

\* exec, query and queryRow outside a unit of work.
Statement(w) == step[w] = "idle" /\ Ask(w, "statement") /\ UNCHANGED left

\* WithinTx begins.
WithinTx(w) ==
  /\ step[w] = "idle"
  /\ Ask(w, "begin")
  /\ \E n \in 0..MaxNested : left' = [left EXCEPT ![w] = n]

\* CreateActivity or AddPersonEmail inside the unit of work.
CreateActivity(w) ==
  /\ step[w] = "unit" /\ left[w] > 0
  /\ Ask(w, "nested")
  /\ left' = [left EXCEPT ![w] = @ - 1]

\* The pool serves the one who has waited longest.
Acquire ==
  /\ queue # <<>>
  /\ held < Conns
  /\ LET w == Head(queue)
     IN step' = [step EXCEPT ![w] = CASE @ = "begin" -> "unit"
                                      [] @ = "statement" -> "query"
                                      [] @ = "nested" -> "both"]
  /\ queue' = Tail(queue)
  /\ UNCHANGED left

\* The nested transaction commits, or the deferred Rollback ends it.
FinishNested(w) == step[w] = "both" /\ Go(w, "unit") /\ UNCHANGED left

\* Mutated form: a unit of work that fails is tried again where it is.
MFinishUnit(w) ==
  /\ step[w] = "unit"
  /\ \/ Go(w, "idle") /\ left' = [left EXCEPT ![w] = 0]
     \/ /\ UNCHANGED <<step, queue>>
        /\ \E n \in 0..MaxNested : left' = [left EXCEPT ![w] = n]

\* The unit of work commits; or a step has failed and it rolls back.
FinishUnit(w) ==
  /\ step[w] = "unit"
  /\ Go(w, "idle")
  /\ left' = [left EXCEPT ![w] = 0]

FinishStatement(w) == step[w] = "query" /\ Go(w, "idle") /\ UNCHANGED left

\* The client goes away: the wait for a connection ends with an error, which
\* rolls a unit of work back.
Cancel(w) ==
  /\ w \notin Patient
  /\ step[w] \in Waiting
  /\ step' = [step EXCEPT ![w] = "idle"]
  /\ queue' = Remove(queue, w)
  /\ left' = [left EXCEPT ![w] = 0]

Finish(w) == FinishNested(w) \/ FinishUnit(w) \/ FinishStatement(w)

Next ==
  \/ Acquire
  \/ \E w \in Workers : Statement(w) \/ WithinTx(w) \/ CreateActivity(w) \/ Finish(w) \/ Cancel(w)

\* Statements return and the pool serves; nobody is made to begin or cancel.
Spec == Init /\ [][Next]_vars /\ WF_vars(Acquire) /\ \A w \in Workers : WF_vars(Finish(w))

-----------------------------------------------------------------------------
(* Properties.                                                             *)

\* Every connection is held by a unit of work that waits for another one.
Gridlock ==
  held = Conns /\ \A w \in Workers : Holds[step[w]] > 0 => step[w] = "nested"

\* Units of work that each hold a connection and wait for a second are the
\* only way the pool can starve anybody: unless they block it for good, every
\* request and job that has asked for a connection is done some day, on every
\* path of failure.
OnlyGridlockStarves ==
  []<>~Gridlock => \A w \in Workers : step[w] # "idle" ~> step[w] = "idle"
=============================================================================
