---------------------------- MODULE Correlation ----------------------------
(***************************************************************************)
(* What the request surface of MeshCoreSession promises its callers, as if *)
(* every frame of the radio named the command it answers.                  *)
(*                                                                         *)
(* There are no queues, stamps or reply codes here: a caller waits, the    *)
(* radio owes answers, and an answer settles the caller of its own command.*)
(* The protocol names no command, so the promise has two limits, which the *)
(* specification spells out: after a waiter gave up on an answer still     *)
(* owed, that answer may settle one other caller; after an answer was lost,*)
(* any answer may.  Both end with the link.  ReplyRouting implements it.   *)
(***************************************************************************)
CONSTANT Ids         \* the commands

VARIABLES
  outcome,           \* outcome[c]: how c's caller was settled
  waiting,           \* commands with a waiter
  owed,              \* commands the radio has yet to answer
  gaveUp,            \* on this link a waiter went while its answer was owed
  lost               \* on this link an answer never came

vars == <<outcome, waiting, owed, gaveUp, lost>>

\* The ways a caller is settled other than by a reply.
Failures == {"failed", "aborted", "closed", "notOk"}

Init ==
  /\ outcome = [c \in Ids |-> "none"]
  /\ waiting = {} /\ owed = {}
  /\ gaveUp = FALSE /\ lost = FALSE

\* Callers of S that still wait are settled, once and for all; of the others
\* nobody is told anything.
Settle(S, hows) ==
  \E how \in [S -> hows] :
    outcome' = [c \in Ids |-> IF c \in S /\ outcome[c] = "pending" THEN how[c]
                                                                 ELSE outcome[c]]

\* A command, with a caller that waits or, if its reply is nobody's, without.
Issue(c) ==
  /\ UNCHANGED <<gaveUp, lost>>
  /\ outcome[c] = "none" /\ c \notin waiting \cup owed
  /\ owed' = owed \cup {c}
  /\ \/ outcome' = [outcome EXCEPT ![c] = "pending"] /\ waiting' = waiting \cup {c}
     \/ UNCHANGED <<outcome, waiting>>

\* An answer settles the caller of its own command; another's only if its own
\* gave up, or if an answer was lost before.
Answer(c) ==
  /\ UNCHANGED <<gaveUp, lost>>
  /\ c \in owed /\ owed' = owed \ {c}
  /\ \E S \in {{}} \cup {{d} : d \in waiting} :
       /\ c \in waiting /\ ~lost => S = {c}
       /\ ~gaveUp /\ ~lost => S \subseteq {c}
       /\ waiting' = waiting \ S
       /\ Settle(S, {"replied"})

\* The answer is lost, and nobody is told.
Lose(c) ==
  /\ c \in owed /\ owed' = owed \ {c}
  /\ lost'
  /\ UNCHANGED <<outcome, waiting, gaveUp>>

\* The write failed: no answer will come, and a caller that waits is told.
Fail(c) ==
  /\ UNCHANGED <<gaveUp, lost>>
  /\ c \in owed /\ owed' = owed \ {c}
  /\ waiting' = waiting \ {c}
  /\ Settle(waiting \cap {c}, {"failed"})

\* A caller is told and its waiter goes (a timer), or is told and its waiter
\* stays for the answer (an abort).
GiveUp(c) ==
  /\ UNCHANGED <<owed, lost>>
  /\ gaveUp' = (gaveUp \/ c \in owed)
  /\ c \in waiting /\ waiting' = waiting \ {c}
  /\ Settle({c}, {"failed"})

Withdraw(c) ==
  /\ UNCHANGED <<waiting, owed, gaveUp, lost>>
  /\ c \in waiting
  /\ Settle({c}, {"aborted"})

\* The link ends and takes what was owed with it.  A session that saw the link
\* settles everybody; one that did not keeps its waiters, whose answers are lost.
Close ==
  /\ owed' = {} /\ ~gaveUp'
  /\ \/ waiting' = {} /\ Settle(waiting, Failures)
     \/ UNCHANGED <<outcome, waiting>>
  /\ lost' = (waiting' # {})

\* stop() on an open link settles some or all; their answers still come.
Stop ==
  /\ UNCHANGED <<owed, lost>>
  /\ \E S \in SUBSET waiting : waiting' = waiting \ S /\ Settle(S, Failures)
  /\ gaveUp' = (gaveUp \/ owed \cap (waiting \ waiting') # {})

Next ==
  \/ \E c \in Ids : Issue(c) \/ Answer(c) \/ Lose(c) \/ Fail(c) \/ GiveUp(c) \/ Withdraw(c)
  \/ Close \/ Stop

Spec == Init /\ [][Next]_vars
=============================================================================
