--------------------------- MODULE TwinCustodian ----------------------------
(***************************************************************************)
(* The custodian of the twin's keys (twin_custodian.py): it decrypts an     *)
(* entry for a request the customer signed, once per nonce, and writes a    *)
(* chained audit record.                                                    *)
(*                                                                         *)
(* Cryptography is ideal: a signature is the fact that the customer signed, *)
(* and an envelope opens with the key it was sealed to and no other.        *)
(* The custodian's handlers run on threads; it may be killed at any time    *)
(* and starts again from its files.  A file being rewritten is torn until   *)
(* the write is done; a torn file does not load.                            *)
(***************************************************************************)
EXTENDS Naturals, Sequences, FiniteSets

CONSTANTS
  Replicas,  \* replicas that ask the custodian
  Nonces,    \* nonces of customer authorizations
  Threads,   \* request threads of the custodian
  MaxTrail,  \* audit records (bound)
  MaxCrash,  \* crashes of the custodian (bound)
  Torn,      \* what a half-written file holds
  NoReq      \* no request, nobody

ASSUME CustodianAssumption == MaxTrail \in Nat /\ MaxCrash \in Nat

VARIABLES
  up,        \* the custodian process runs
  known,     \* its memory: registered replicas
  spent,     \* its memory: consumed nonces
  files,     \* replicas.json and nonces.json
  trail,     \* audit_log.jsonl
  req,       \* per thread: NoReq or the decrypt request it serves
  saver,     \* the thread that holds the lock across a file write
  released,  \* observer: plaintexts handed out per nonce
  crashes    \* crashes so far

custodianVars == <<up, known, spent, files, trail, req, saver, released, crashes>>

CustodianInit ==
  /\ up = TRUE /\ known = {} /\ spent = {} /\ trail = <<>>
  /\ files = [replicas |-> {}, nonces |-> {}]
  /\ req = [t \in Threads |-> NoReq] /\ saver = NoReq
  /\ released = [n \in Nonces |-> 0] /\ crashes = 0

-----------------------------------------------------------------------------
(* The custodian.                                                           *)
Record(event, r, granted) == [event |-> event, replica |-> r, granted |-> granted]

\* log(): one record behind the last, under the lock.
Log(event, r, granted) ==
  /\ saver = NoReq /\ Len(trail) < MaxTrail
  /\ trail' = Append(trail, Record(event, r, granted))

\* register(): memory and file, again for a replica that is known, and in a
\* second locked step the audit record.
RegisterReplica(t, r) ==
  /\ up /\ saver = NoReq /\ req[t] = NoReq
  /\ known' = known \cup {r}
  /\ files' = [files EXCEPT !.replicas = known']
  /\ req' = [req EXCEPT ![t] = [replica |-> r, step |-> "registered"]]
  /\ UNCHANGED <<up, spent, trail, saver, released, crashes>>

\* A request arrives: the replica it names, a nonce, whether the customer
\* signed it, whether its envelope opens with the custodian's key.
AskDecrypt(t, r, n, signed, opens) ==
  /\ up /\ req[t] = NoReq
  /\ req' = [req EXCEPT ![t] = [replica |-> r, nonce |-> n, signed |-> signed,
                                opens |-> opens, step |-> "check"]]
  /\ UNCHANGED <<up, known, spent, files, trail, saver, released, crashes>>

At(t, step) == up /\ req[t] # NoReq /\ req[t].step = step

Goto(t, step) == req' = [req EXCEPT ![t].step = step]

\* Seeded fault: the nonce is remembered, not saved.
ConsumeInMemory(t) ==
  LET q == req[t] IN
  /\ At(t, "check") /\ saver = NoReq
  /\ IF q.replica \in known /\ q.signed /\ q.nonce \notin spent
     THEN /\ spent' = spent \cup {q.nonce}
          /\ Goto(t, "open")
     ELSE Goto(t, "refuse") /\ UNCHANGED spent
  /\ UNCHANGED <<up, known, files, trail, saver, released, crashes>>

\* The checks in order, the last of which is consume_nonce: it adds the nonce
\* to memory and opens the file for writing, which empties it.
Consume(t) ==
  LET q == req[t] IN
  /\ At(t, "check") /\ saver = NoReq
  /\ IF q.replica \in known /\ q.signed /\ q.nonce \notin spent
     THEN /\ spent' = spent \cup {q.nonce}
          /\ files' = [files EXCEPT !.nonces = Torn] /\ saver' = t
          /\ Goto(t, "save")
     ELSE Goto(t, "refuse") /\ UNCHANGED <<spent, files, saver>>
  /\ UNCHANGED <<up, known, trail, released, crashes>>

LogRegistration(t) ==
  /\ At(t, "registered")
  /\ Log("register_replica", req[t].replica, TRUE)
  /\ req' = [req EXCEPT ![t] = NoReq]
  /\ UNCHANGED <<up, known, spent, files, saver, released, crashes>>

SaveNonces(t) ==
  /\ At(t, "save")
  /\ files' = [files EXCEPT !.nonces = spent] /\ saver' = NoReq
  /\ Goto(t, "open")
  /\ UNCHANGED <<up, known, spent, trail, released, crashes>>

\* A refusal, or an envelope that does not open: recorded, then answered.
RefuseDecrypt(t) ==
  /\ At(t, "refuse") \/ (At(t, "open") /\ ~req[t].opens)
  /\ Log("decrypt", req[t].replica, FALSE)
  /\ req' = [req EXCEPT ![t] = NoReq]
  /\ UNCHANGED <<up, known, spent, files, saver, released, crashes>>

LogGrant(t) ==
  /\ At(t, "open") /\ req[t].opens
  /\ Log("decrypt", req[t].replica, TRUE)
  /\ Goto(t, "answer")
  /\ UNCHANGED <<up, known, spent, files, saver, released, crashes>>

AnswerPlaintext(t) ==
  /\ At(t, "answer")
  /\ released' = [released EXCEPT ![req[t].nonce] = @ + 1]
  /\ req' = [req EXCEPT ![t] = NoReq]
  /\ UNCHANGED <<up, known, spent, files, trail, saver, crashes>>

CustodianDies ==
  /\ up /\ crashes < MaxCrash
  /\ up' = FALSE /\ crashes' = crashes + 1
  /\ req' = [t \in Threads |-> NoReq] /\ saver' = NoReq
  /\ UNCHANGED <<known, spent, files, trail, released>>

\* __init__: everything is read back; a torn file raises.
CustodianStarts ==
  /\ ~up /\ files.nonces # Torn
  /\ up' = TRUE /\ known' = files.replicas /\ spent' = files.nonces
  /\ UNCHANGED <<files, trail, req, saver, released, crashes>>

CustodianNext ==
  \/ \E t \in Threads :
       \/ \E r \in Replicas : RegisterReplica(t, r)
       \/ LogRegistration(t)
       \/ \E r \in Replicas, n \in Nonces, s, o \in BOOLEAN : AskDecrypt(t, r, n, s, o)
       \/ Consume(t) \/ SaveNonces(t) \/ RefuseDecrypt(t) \/ LogGrant(t)
       \/ AnswerPlaintext(t)
  \/ CustodianDies \/ CustodianStarts

CustodianSpec == CustodianInit /\ [][CustodianNext]_custodianVars

-----------------------------------------------------------------------------
CustodianTypeOK ==
  /\ up \in BOOLEAN /\ known \subseteq Replicas /\ spent \subseteq Nonces
  /\ Len(trail) <= MaxTrail /\ crashes \in 0..MaxCrash
  /\ saver \in Threads \cup {NoReq} /\ released \in [Nonces -> Nat]

Granted == {k \in 1..Len(trail) : trail[k].event = "decrypt" /\ trail[k].granted}

(* A nonce opens one envelope, and never in secret: over crashes, restarts  *)
(* and racing requests with the same authorization, no nonce releases a     *)
(* second plaintext, and there are never more plaintexts out than granted   *)
(* records in the audit log (consume_nonce, decrypt).                       *)
ReleasedOnRecord ==
  /\ \A n \in Nonces : released[n] <= 1
  /\ Cardinality({n \in Nonces : released[n] > 0}) <= Cardinality(Granted)
=============================================================================
