----------------------------- MODULE Retention ------------------------------
(***************************************************************************)
(* What Storage promises about the records it is given (docs/              *)
(* storage-architecture.md, durability-and-recovery.md, README.md): each   *)
(* goes into the day of its timestamp or nowhere, and space is made by     *)
(* giving up the oldest day that still has records, as a whole.  A record  *)
(* is at risk until it has left the stream buffers; only records of one    *)
(* day are, and only they are lost to failures and crashes.  A crash while *)
(* a day is given up may leave any part of it.                             *)
(***************************************************************************)
EXTENDS Naturals

CONSTANTS Days,      \* days of timestamps
          MaxWrites  \* bound: records submitted

VARIABLES asked,     \* number of records submitted
          day_of,    \* the day of each of them
          stored,    \* the records kept for each day
          atRisk     \* those of them that a failure may take

absVars == <<asked, day_of, stored, atRisk>>

AbsInit == /\ asked = 0
           /\ day_of \in [1..MaxWrites -> Days]
           /\ stored = [d \in Days |-> {}]
           /\ atRisk = {}

\* write() is called.
Submit(d) == /\ asked < MaxWrites
             /\ asked' = asked + 1
             /\ day_of' = [day_of EXCEPT ![asked + 1] = d]
             /\ UNCHANGED <<stored, atRisk>>

\* The record submitted last goes into its day; older ones may be out of
\* danger by now, those of other days are.
Store == /\ asked > 0
         /\ stored' = [stored EXCEPT ![day_of[asked]] = @ \cup {asked}]
         /\ atRisk' \subseteq atRisk \cup {asked}
         /\ \A i \in atRisk' : day_of[i] = day_of[asked]
         /\ UNCHANGED <<asked, day_of>>

\* Records at risk are lost or out of danger.
Settle(lost) == /\ lost \subseteq atRisk
                /\ stored' = [d \in Days |-> stored[d] \ lost]
                /\ atRisk' \subseteq atRisk \ lost
                /\ UNCHANGED <<asked, day_of>>

OldestWithRecords(d) == \A e \in Days : stored[e] # {} => d <= e

\* The oldest day with records is given up.
Expire(d) == /\ OldestWithRecords(d)
             /\ stored' = [stored EXCEPT ![d] = {}]
             /\ atRisk' = atRisk \ stored[d]
             /\ UNCHANGED <<asked, day_of>>

\* A crash while it is: a part stays.
Break(d, kept) == /\ OldestWithRecords(d)
                  /\ kept \subseteq stored[d]
                  /\ stored' = [e \in Days |-> (IF e = d THEN kept ELSE stored[e])
                                                 \ atRisk]
                  /\ atRisk' = {}
                  /\ UNCHANGED <<asked, day_of>>

AbsNext == \/ Store
           \/ \E lost \in SUBSET atRisk : Settle(lost)
           \/ \E d \in Days : \/ Submit(d) \/ Expire(d)
                              \/ \E kept \in SUBSET stored[d] : Break(d, kept)

AbsSpec == AbsInit /\ [][AbsNext]_absVars

=============================================================================
