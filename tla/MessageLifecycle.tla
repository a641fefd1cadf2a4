-------------------------- MODULE MessageLifecycle --------------------------
(***************************************************************************)
(* What a durable stream promises of each message, with no queue, no       *)
(* consumers and no bookkeeping: a message is handled at most MaxAttempts  *)
(* times, ends acknowledged or dead-lettered, and stays there.  The one    *)
(* way out the broker leaves open is a handler that is cancelled: the      *)
(* message it held is lost.                                                *)
(***************************************************************************)
EXTENDS Naturals

CONSTANTS Messages, MaxAttempts

VARIABLES phase,     \* per message: where it is in its life
          attempts   \* per message: handlings that have failed

lvars == <<phase, attempts>>

Phases == {"new", "dropped", "queued", "handling", "done", "dead", "lost"}

LInit == phase = [m \in Messages |-> "new"] /\ attempts = [m \in Messages |-> 0]

Moves(m, from, to) == phase[m] = from /\ phase' = [phase EXCEPT ![m] = to]

LPublish(m) == (Moves(m, "new", "queued") \/ Moves(m, "new", "dropped")) /\ UNCHANGED attempts
LStart(m)   == Moves(m, "queued", "handling") /\ UNCHANGED attempts
LAck(m)     == Moves(m, "handling", "done") /\ UNCHANGED attempts
LLose(m)    == Moves(m, "handling", "lost") /\ UNCHANGED attempts
LNack(m)    ==
    /\ attempts' = [attempts EXCEPT ![m] = @ + 1]
    /\ IF attempts[m] + 1 < MaxAttempts
       THEN Moves(m, "handling", "queued")
       ELSE Moves(m, "handling", "dead")

LNext == \E m \in Messages : LPublish(m) \/ LStart(m) \/ LAck(m) \/ LNack(m) \/ LLose(m)

LSpec == LInit /\ [][LNext]_lvars
=============================================================================
