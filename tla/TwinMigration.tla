--------------------------- MODULE TwinMigration ---------------------------
(***************************************************************************)
(* Registration of a replica at the receiver and twin_migrate.py, which     *)
(* re-seals the replica's entries under another key while deliveries go on, *)
(* and has the receiver chain a custody event about it.  An envelope is the *)
(* key it is sealed to, and opens with that key alone.                      *)
(***************************************************************************)
EXTENDS Naturals, Sequences

CONSTANTS
  Entries,        \* ids of the replica's entries
  MaxMigrations   \* runs of twin_migrate (bound)

ASSUME MigrationAssumption == MaxMigrations \in Nat

VARIABLES
  meta,      \* the receiver's replica_meta: credentials and recipient key
  sealed,    \* per entry: the key its stored envelope opens with, or "none"
  shipKey,   \* the key the shipper is configured to seal to
  mig,       \* the run of twin_migrate: [step, picked, done]
  attempts,  \* runs of twin_migrate so far
  custodyLog \* the receiver's custody_log: per event the entries it names

migrationVars == <<meta, sealed, shipKey, mig, attempts, custodyLog>>

Idling == [step |-> "idle", picked |-> {}, done |-> {}]

MigrationInit ==
  /\ meta = [credentials |-> "none", key |-> "none"]
  /\ sealed = [i \in Entries |-> "none"] /\ shipKey = "old"
  /\ mig = Idling /\ attempts = 0 /\ custodyLog = <<>>

-----------------------------------------------------------------------------
\* verify_registration under the pinned key of the customer.
SignedByCustomer(credentials) == credentials # "unsigned"

(* The first registration of the pinned customer wins; the same credentials *)
(* again are idempotent, others are a conflict.                             *)
RegisterAtReceiver(credentials) ==
  /\ SignedByCustomer(credentials)
  /\ meta.key = "none"
  /\ meta' = [credentials |-> credentials, key |-> "old"]
  /\ UNCHANGED <<sealed, shipKey, mig, attempts, custodyLog>>

\* store_entry with the ship token of the registration; the shipper seals to
\* the key it is configured with, which the operator changes by hand.
StoreSealed(i, credentials) ==
  /\ meta.key # "none" /\ credentials = meta.credentials
  /\ sealed[i] = "none"
  /\ sealed' = [sealed EXCEPT ![i] = shipKey]
  /\ UNCHANGED <<attempts, meta, shipKey, mig, custodyLog>>

Reconfigure ==
  /\ shipKey = "old" /\ shipKey' = "new"
  /\ UNCHANGED <<attempts, meta, sealed, mig, custodyLog>>

\* migrate, one transaction up to MigrateCommit: the rows it selects, each
\* opened and re-sealed in turn.
MigrateSelect ==
  /\ mig.step = "idle" /\ meta.key # "none" /\ attempts < MaxMigrations
  /\ attempts' = attempts + 1
  /\ mig' = [step |-> "reseal", done |-> {},
             picked |-> {i \in Entries : sealed[i] # "none"}]
  /\ UNCHANGED <<meta, sealed, shipKey, custodyLog>>

\* open_envelope: the wrong key fails the authentication of the envelope.
Opens(key, i) == sealed[i] = key

\* Seeded fault: every row is committed by itself.
ResealRowCommitting(i) ==
  /\ mig.step = "reseal" /\ i \in mig.picked \ mig.done
  /\ IF Opens("old", i)
     THEN /\ mig' = [mig EXCEPT !.done = @ \cup {i}]
          /\ sealed' = [sealed EXCEPT ![i] = "new"]
     ELSE mig' = Idling /\ UNCHANGED sealed
  /\ UNCHANGED <<attempts, meta, shipKey, custodyLog>>

\* A row the old key does not open aborts, and nothing was committed.
ResealRow(i) ==
  /\ mig.step = "reseal" /\ i \in mig.picked \ mig.done
  /\ mig' = IF Opens("old", i) THEN [mig EXCEPT !.done = @ \cup {i}]
            ELSE Idling
  /\ UNCHANGED <<attempts, meta, sealed, shipKey, custodyLog>>

MigrateCommit ==
  /\ mig.step = "reseal" /\ mig.done = mig.picked
  /\ sealed' = [i \in Entries |-> IF i \in mig.done THEN "new" ELSE sealed[i]]
  /\ meta' = [meta EXCEPT !.key = "new"]
  /\ mig' = [mig EXCEPT !.step = "event"]
  /\ UNCHANGED <<attempts, shipKey, custodyLog>>

\* The custody event is posted after the commit; it may be refused or lost.
\* custody_event chains it under its own lock.
MigrateEvent ==
  /\ mig.step = "event"
  /\ mig' = Idling
  /\ \/ custodyLog' = Append(custodyLog, mig.done)
     \/ UNCHANGED custodyLog
  /\ UNCHANGED <<attempts, meta, sealed, shipKey>>

\* The process dies, or the database fails: the transaction is rolled back,
\* or the event is never posted.
MigrateDies ==
  /\ mig.step # "idle"
  /\ mig' = Idling
  /\ UNCHANGED <<attempts, meta, sealed, shipKey, custodyLog>>

MigrationNext ==
  \/ \E c \in {"first", "second", "unsigned"} :
       \/ RegisterAtReceiver(c)
       \/ \E i \in Entries : StoreSealed(i, c)
  \/ Reconfigure \/ MigrateSelect \/ MigrateCommit \/ MigrateEvent \/ MigrateDies
  \/ \E i \in Entries : ResealRow(i)

MigrationSpec == MigrationInit /\ [][MigrationNext]_migrationVars

-----------------------------------------------------------------------------
MigrationTypeOK ==
  /\ meta \in [credentials : {"none", "first", "second"}, key : {"none", "old", "new"}]
  /\ sealed \in [Entries -> {"none", "old", "new"}] /\ shipKey \in {"old", "new"}
  /\ mig.step \in {"idle", "reseal", "event"} /\ attempts \in 0..MaxMigrations

(* A migration is whole or it did not happen, and the custody log does not  *)
(* run ahead of it: a stored entry changes its key only together with every *)
(* other entry the migration selected and with the registration, and an     *)
(* event is chained only once the entries it names are under the key the    *)
(* registration names (migrate, "refusing a partial migration").            *)
MigrationWhole ==
  [][/\ (\E i \in Entries : sealed[i] # "none" /\ sealed'[i] # sealed[i])
          => meta'.key = "new" /\ \A i \in mig.picked : sealed'[i] = "new"
     /\ custodyLog' # custodyLog
          => meta.key = "new" /\ \A i \in mig.picked : sealed[i] = "new"
    ]_migrationVars
=============================================================================
