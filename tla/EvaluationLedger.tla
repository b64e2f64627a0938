-------------------------- MODULE EvaluationLedger --------------------------
(* What evaluation promises about attempts, whatever happens to runners, their *)
(* calls and the clock: entries are numbered as they start and bound to one    *)
(* request each; a job has one open entry at most, which is its last; an entry *)
(* ends once, with one outcome, and keeps it.                                  *)
EXTENDS Naturals

CONSTANTS Jobs, Requests, Outcomes, MaxAttempts, NoJob, NoRequest

VARIABLES opened, job, request, outcome
ledgerVars == <<opened, job, request, outcome>>

Entries == 1..opened
Open(i) == outcome[i] = "open"

LedgerInit ==
  /\ opened = 0
  /\ job = [i \in 1..MaxAttempts |-> NoJob]
  /\ request = [i \in 1..MaxAttempts |-> NoRequest]
  /\ outcome = [i \in 1..MaxAttempts |-> "none"]

\* A start that finds an open entry of its job closes it, as expired.
Start(j, q) ==
  /\ opened < MaxAttempts /\ opened' = opened + 1
  /\ \A i \in Entries : request[i] # q
  /\ job' = [job EXCEPT ![opened + 1] = j]
  /\ request' = [request EXCEPT ![opened + 1] = q]
  /\ outcome' = [i \in 1..MaxAttempts |->
                   IF i = opened + 1 THEN "open"
                   ELSE IF i \in Entries /\ job[i] = j /\ Open(i) THEN "lease_expired"
                   ELSE outcome[i]]

\* Entries that are overdue together may end together.
End(ending, o) ==
  /\ UNCHANGED <<opened, job, request>>
  /\ ending # {}
  /\ \A i \in ending : Open(i)
  /\ outcome' = [i \in 1..MaxAttempts |-> IF i \in ending THEN o ELSE outcome[i]]

LedgerNext ==
  \/ \E j \in Jobs, q \in Requests : Start(j, q)
  \/ \E i \in Entries, o \in Outcomes : End({i}, o)
  \/ \E ending \in SUBSET Entries : End(ending, "lease_expired")

LedgerSpec == LedgerInit /\ [][LedgerNext]_ledgerVars
=============================================================================
