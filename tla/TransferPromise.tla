-------------------------- MODULE TransferPromise --------------------------
(***************************************************************************)
(* What a transfer job promises the orchestrator, whatever happens inside  *)
(* execute: rows of the job reach the target; an Ok that was not cut short *)
(* by a cancelled token means that all of them did; a resume point leaves  *)
(* no row behind it; and nothing is written after an Ok.                   *)
(***************************************************************************)
EXTENDS Integers

CONSTANT None

VARIABLES todo,     \* the rows the job is responsible for
          written,  \* those the target has accepted
          outcome,  \* "running", "complete", "partial" or "failed"
          resume    \* TransferStats.last_pk of an Ok

vars == <<todo, written, outcome, resume>>

Init == written = {} /\ outcome = "running" /\ resume = None

(* A failed job's detached writers may still drain their channel.          *)
Deliver ==
  /\ outcome \in {"running", "failed"}
  /\ written \subseteq written' /\ written' \subseteq todo
  /\ UNCHANGED <<todo, outcome, resume>>

SafeResume(p) == p = None \/ \A k \in todo : k <= p => k \in written

Return ==
  /\ outcome = "running"
  /\ \/ outcome' = "complete" /\ todo \subseteq written
     \/ outcome' = "partial"
  /\ SafeResume(resume')
  /\ UNCHANGED <<todo, written>>

Fail == outcome = "running" /\ outcome' = "failed" /\ UNCHANGED <<todo, written, resume>>

Next == Deliver \/ Return \/ Fail

Spec == Init /\ [][Next]_vars
=============================================================================
