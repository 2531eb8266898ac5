----------------------------- MODULE LogRotation -----------------------------
(* The rotated log of governance/log_rotation_v1.py: numbered chunk files,  *)
(* a manifest that is replaced atomically, a manager that resumes from it   *)
(* after a restart, and verify().                                           *)
(*                                                                          *)
(* flush() holds the manager's lock throughout; what interleaves with it is *)
(* the death of the process, a failing disk, and somebody changing files.   *)
(* A head hash is the sequence of <<chunk id, payload>> it was computed     *)
(* from; the genesis hash is the empty one.                                 *)
EXTENDS Integers, Sequences, FiniteSets, FiniteSetsExt

CONSTANTS
  Slices,      \* what flush() may be given
  MaxChunks,   \* bound: chunks 0 .. MaxChunks - 1
  MaxDeaths,   \* bound: process deaths
  MaxHarm,     \* bound: files changed or removed from outside
  TornChunk    \* a chunk file whose write was cut short

ASSUME RotationAssumption ==
  /\ MaxChunks \in Nat /\ MaxDeaths \in Nat /\ MaxHarm \in Nat
  /\ TornChunk \notin Slices

VARIABLES
  chunks,    \* the chunk files: chunk id -> content
  manifest,  \* {} or the one [last, head] on disk
  engine,    \* the manager: "down", "stuck", or its EngineState and its step
  returned,  \* <<id, slice>> of every flush() that returned
  deaths,
  harmed,    \* how often a chunk file, or the manifest, was harmed from outside
  bereft     \* observer: a manager resumed from chunk files alone when an
             \* acknowledged slice was no longer in them

rotationVars == <<chunks, manifest, engine, returned, deaths, harmed, bereft>>

ChunkIds == 0 .. MaxChunks - 1

-----------------------------------------------------------------------------
\* list_chunks, sorted: the i-th chunk has i - 1 chunks before it.
ChunkList ==
  [i \in 1..Cardinality(DOMAIN chunks) |->
     CHOOSE c \in DOMAIN chunks : Cardinality({d \in DOMAIN chunks : d < c}) = i - 1]

\* _recompute_head and the loop of verify(): the fold over the chunk files.
ComputedHead == [i \in DOMAIN ChunkList |-> <<ChunkList[i], chunks[ChunkList[i]]>>]

\* json.loads raises on a chunk that was cut short.
ReadableChunks == \A c \in DOMAIN chunks : chunks[c] # TornChunk

EngineAt(index, prev) == [at |-> "idle", index |-> index, prev |-> prev]

\* Seeded fault: the restart takes the manifest's chunk for the next one.
ResumeStateSame ==
  IF manifest # {}
  THEN LET m == CHOOSE m \in manifest : TRUE IN {EngineAt(m.last, m.head)}
  ELSE IF DOMAIN chunks = {} THEN {EngineAt(0, <<>>)}
  ELSE IF ReadableChunks THEN {EngineAt(Max(DOMAIN chunks) + 1, ComputedHead)}
  ELSE {}

\* _resume_state: the manifest is authoritative; without one the chunks are
\* hashed anew, which fails on a torn chunk.
ResumeState ==
  IF manifest # {}
  THEN LET m == CHOOSE m \in manifest : TRUE IN {EngineAt(m.last + 1, m.head)}
  ELSE IF DOMAIN chunks = {} THEN {EngineAt(0, <<>>)}
  ELSE IF ReadableChunks THEN {EngineAt(Max(DOMAIN chunks) + 1, ComputedHead)}
  ELSE {}

\* verify(): no gap, and the manifest's head and last chunk agree with disk.
VerifyOk ==
  /\ ReadableChunks
  /\ DOMAIN chunks = 0 .. Cardinality(DOMAIN chunks) - 1
  /\ manifest = {} => DOMAIN chunks = {}
  /\ \A m \in manifest :
       /\ m.head = ComputedHead
       /\ DOMAIN chunks # {} => m.last = Max(DOMAIN chunks)

\* What the chunk files hold.
OnDisk == {<<c, chunks[c]>> : c \in DOMAIN chunks}

-----------------------------------------------------------------------------
RotationInit ==
  /\ chunks = <<>>
  /\ manifest = {}
  /\ engine = [at |-> "down"]
  /\ returned = {}
  /\ deaths = 0
  /\ harmed = [chunks |-> 0, manifest |-> 0]
  /\ bereft = FALSE

StartManager ==
  /\ engine.at = "down"
  /\ engine' \in (IF ResumeState = {} THEN {[at |-> "stuck"]} ELSE ResumeState)
  /\ bereft' = (bereft \/ (manifest = {} /\ ~(returned \subseteq OnDisk)))
  /\ UNCHANGED <<chunks, manifest, returned, deaths, harmed>>

WriteFile(id, content) == [c \in DOMAIN chunks \cup {id} |->
                             IF c = id THEN content ELSE chunks[c]]

\* write_chunk opens the file for writing: until it is closed it is torn.
FlushOpen(slice) ==
  /\ engine.at = "idle"
  /\ engine.index < MaxChunks
  /\ engine' = [at |-> "writing", index |-> engine.index, prev |-> engine.prev,
                slice |-> slice]
  /\ chunks' = WriteFile(engine.index, TornChunk)
  /\ UNCHANGED <<manifest, returned, deaths, harmed, bereft>>

\* The text goes into the open file; if it was removed meanwhile, with it.
FlushChunk ==
  /\ engine.at = "writing"
  /\ chunks' = IF engine.index \in DOMAIN chunks
               THEN WriteFile(engine.index, engine.slice) ELSE chunks
  /\ engine' = [engine EXCEPT !.at = "chunked"]
  /\ UNCHANGED <<manifest, returned, deaths, harmed, bereft>>

NewHead == Append(engine.prev, <<engine.index, engine.slice>>)

\* write_manifest: temporary file, fsync, rename.
FlushManifest ==
  /\ engine.at = "chunked"
  /\ manifest' = {[last |-> engine.index, head |-> NewHead]}
  /\ engine' = [engine EXCEPT !.at = "recorded"]
  /\ UNCHANGED <<chunks, returned, deaths, harmed, bereft>>

FlushReturn ==
  /\ engine.at = "recorded"
  /\ returned' = returned \cup {<<engine.index, engine.slice>>}
  /\ engine' = EngineAt(engine.index + 1, NewHead)
  /\ UNCHANGED <<chunks, manifest, deaths, harmed, bereft>>

\* The disk refuses the chunk or the manifest: flush() raises and the state
\* in memory stays as it was, so the next flush writes the same chunk.
FlushRaises ==
  /\ engine.at \in {"writing", "chunked"}
  /\ engine' = EngineAt(engine.index, engine.prev)
  /\ UNCHANGED <<chunks, manifest, returned, deaths, harmed, bereft>>

ManagerDies ==
  /\ engine.at # "down"
  /\ deaths < MaxDeaths
  /\ deaths' = deaths + 1
  /\ engine' = [at |-> "down"]
  /\ UNCHANGED <<chunks, manifest, returned, harmed, bereft>>

HarmLeft == harmed.chunks + harmed.manifest < MaxHarm

\* Somebody rewrites or spoils a chunk file, or removes it.
Harm(c) ==
  /\ HarmLeft
  /\ \/ \E content \in Slices \cup {TornChunk} : chunks' = WriteFile(c, content)
     \/ chunks' = [d \in DOMAIN chunks \ {c} |-> chunks[d]]
  /\ harmed' = [harmed EXCEPT !.chunks = @ + 1]
  /\ UNCHANGED <<manifest, engine, returned, deaths, bereft>>

\* Or removes the manifest.
DeleteManifest ==
  /\ HarmLeft
  /\ manifest # {}
  /\ manifest' = {}
  /\ harmed' = [harmed EXCEPT !.manifest = @ + 1]
  /\ UNCHANGED <<chunks, engine, returned, deaths, bereft>>

RotationNext ==
  \/ StartManager
  \/ \E slice \in Slices : FlushOpen(slice)
  \/ FlushChunk
  \/ FlushManifest
  \/ FlushReturn
  \/ FlushRaises
  \/ ManagerDies
  \/ \E c \in DOMAIN chunks : Harm(c)
  \/ DeleteManifest

RotationSpec == RotationInit /\ [][RotationNext]_rotationVars

-----------------------------------------------------------------------------
RotationTypeOK ==
  /\ DOMAIN chunks \subseteq ChunkIds
  /\ engine.at \in {"down", "stuck", "idle", "writing", "chunked", "recorded"}
  /\ Cardinality(manifest) <= 1
  /\ deaths \in 0 .. MaxDeaths /\ harmed.chunks + harmed.manifest \in 0 .. MaxHarm

\* The manifest vouches for what flush() acknowledged (log_rotation_v1.flush,
\* _resume_state, verify).  Through any deaths, failed writes, restarts and
\* deletions of the manifest every slice whose flush() returned stays in its
\* chunk as long as nobody changes the chunk files.  If somebody does, verify()
\* does not report ok over a manifest, unless a manager was started without
\* one on the changed files and chained them anew.  And no manager is stuck on
\* a torn chunk once a flush() has returned, unless the manifest was deleted.
ManifestVouches ==
  /\ harmed.chunks = 0 => returned \subseteq OnDisk
  /\ VerifyOk /\ manifest # {} /\ ~bereft => returned \subseteq OnDisk
  /\ engine.at = "stuck" => returned = {} \/ harmed.manifest > 0

\* "the recomputed head is checked against the manifest head (content
\* tampering), the chunk sequence is checked for gaps (deletion)" (verify): a
\* slice that was acknowledged and is no longer in its chunk is reported.
VerifySeesLoss == ~(returned \subseteq OnDisk) => ~VerifyOk

\* "Always returns a report; ok=False carries the violations" (verify): what a
\* manager that is up finds on disk can be read.
VerifyReports == engine.at = "idle" => ReadableChunks
=============================================================================
