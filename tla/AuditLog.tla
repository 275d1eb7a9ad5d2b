------------------------------ MODULE AuditLog ------------------------------
(***************************************************************************)
(* What append of packages/core/src/store/jsonl.ts promises, with no lock, *)
(* no cache and no file: the log grows by one line at a time, at the end,  *)
(* each line linked to the one before it; an idempotency key is recorded   *)
(* once; and a call is answered in the same instant in which its line is   *)
(* there, or in which it is clear that there will be none.                 *)
(***************************************************************************)
EXTENDS Naturals, Sequences

CONSTANTS Keys, NoKey, MaxEvents

VARIABLES
  lines,   \* the lines of the log: an event, its key and the event before it
  answer   \* what each call of append was told

Events == 1..MaxEvents
Tip == IF lines = <<>> THEN 0 ELSE lines[Len(lines)].id
Known(key) == key # NoKey /\ \E i \in DOMAIN lines : lines[i].key = key

Init == lines = <<>> /\ answer = [e \in Events |-> "none"]

Answer(e, before, after) ==
  /\ answer[e] = before
  /\ answer' = [answer EXCEPT ![e] = after]

\* A call begins; a caller that dies is never answered.
Ask(e) == Answer(e, "none", "pending") /\ UNCHANGED lines

\* The line is there; what append does after it may still fail.
Record(e, key) ==
  /\ ~Known(key)
  /\ lines' = Append(lines, [id |-> e, key |-> key, prev |-> Tip])
  /\ \E how \in {"ok", "lateError"} : Answer(e, "pending", how)

Repeat(e, key) == Known(key) /\ Answer(e, "pending", "dup") /\ UNCHANGED lines

\* The log is corrupt, the lock is not to be had, or the write fails.
Refuse(e) ==
  /\ \E how \in {"refused", "lockError", "ioError"} : Answer(e, "pending", how)
  /\ UNCHANGED lines

Next ==
  \E e \in Events :
    \/ Ask(e) \/ Refuse(e)
    \/ \E key \in Keys \cup {NoKey} : Record(e, key) \/ Repeat(e, key)

Spec == Init /\ [][Next]_<<lines, answer>>

-----------------------------------------------------------------------------
\* An event is on a line exactly if its caller was told so, or that it failed
\* late, and on one line only.
Honest ==
  /\ \A e \in Events : answer[e] \in {"ok", "lateError"} <=> \E i \in DOMAIN lines : lines[i].id = e
  /\ \A i, j \in DOMAIN lines : lines[i].id = lines[j].id => i = j
=============================================================================
