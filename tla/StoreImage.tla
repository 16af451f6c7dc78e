----------------------------- MODULE StoreImage -----------------------------
(***************************************************************************)
(* What the JSONL store (crates/aizign-store-jsonl) concludes from the     *)
(* bytes it finds: decoding the commit document and the publication        *)
(* witness, validating a journal prefix, reading the committed snapshot,   *)
(* and what a writer may do with an existing image.                        *)
(*                                                                         *)
(* An image is a record of the four reserved artifacts.  A journal is a    *)
(* sequence of cells: a complete record, Foreign (a complete line of       *)
(* another schema version) or Torn (bytes that are no complete record).  A *)
(* length in bytes is a number of cells, and the SHA-256 digest of a       *)
(* prefix is that prefix itself: collisions are assumed away.              *)
(***************************************************************************)
EXTENDS Naturals, Sequences, FiniteSetsExt

CONSTANTS
  MaxEntries,     \* MAX_JOURNAL_ENTRIES (10 000 in the code)
  Absent,         \* the path names nothing
  Torn,           \* bytes that do not decode: empty or partially written
  Foreign         \* a journal line of an unsupported schema version

ASSUME MaxEntriesIsPositive == MaxEntries \in Nat \ {0}

STORE_METADATA_VERSION == 2

OK == "OK"
UNAVAILABLE == "JOURNAL_UNAVAILABLE"
LOCKED == "JOURNAL_LOCKED"
SCHEMA_UNSUPPORTED == "JOURNAL_SCHEMA_UNSUPPORTED"
CORRUPT == "JOURNAL_CORRUPT"
BOUND_EXCEEDED == "JOURNAL_BOUND_EXCEEDED"
OUTCOME_UNKNOWN == "JOURNAL_OUTCOME_UNKNOWN"

JournalErrorCode == {UNAVAILABLE, LOCKED, SCHEMA_UNSUPPORTED, CORRUPT,
                     BOUND_EXCEEDED, OUTCOME_UNKNOWN}

-----------------------------------------------------------------------------
\* CommitPoint::for_prefix.
for_prefix(prefix, entries) ==
  [version |-> STORE_METADATA_VERSION, generation |-> entries + 1,
   bytes |-> Len(prefix), entries |-> entries, digest |-> prefix]

\* CommitPoint::empty.
empty == for_prefix(<<>>, 0)

\* CommitPoint::decode: the code it fails with, or OK.
decode_commit(doc) ==
  IF doc = Torn THEN CORRUPT
  ELSE IF doc.version # STORE_METADATA_VERSION THEN SCHEMA_UNSUPPORTED
  ELSE IF doc.entries > MaxEntries THEN BOUND_EXCEEDED
  ELSE IF doc.generation # doc.entries + 1 THEN CORRUPT
  ELSE OK

\* PublishWitness::{initializing, clean, prepared} and their predicates.
witness(started, published) ==
  [version |-> STORE_METADATA_VERSION, started |-> started, published |-> published]

initializing == witness(1, 0)
clean(generation) == witness(generation, generation)
prepared(next_generation) == witness(next_generation, next_generation - 1)

is_clean(w) == w.started = w.published
is_initializing(w) == w.started = 1 /\ w.published = 0
is_prepared_successor(w) == w.published > 0 /\ w.started = w.published + 1

\* PublishWitness::decode.
decode_publish(doc) ==
  IF doc = Torn THEN CORRUPT
  ELSE IF doc.version # STORE_METADATA_VERSION THEN SCHEMA_UNSUPPORTED
  ELSE IF \/ doc.started = 0
          \/ doc.started > MaxEntries + 1
          \/ doc.published > MaxEntries + 1 THEN CORRUPT
  ELSE IF is_clean(doc) \/ is_initializing(doc) \/ is_prepared_successor(doc) THEN OK
  ELSE CORRUPT

-----------------------------------------------------------------------------
\* record::decode_line followed by the sequence check, for the cell at i.
decode_line(cells, i) ==
  IF cells[i] = Torn THEN CORRUPT
  ELSE IF cells[i] = Foreign THEN SCHEMA_UNSUPPORTED
  ELSE IF cells[i].seq # i THEN CORRUPT
  ELSE OK

\* decode_contents: the first line that fails decides.
decode_contents(cells) ==
  LET bad == {i \in DOMAIN cells : i > MaxEntries \/ decode_line(cells, i) # OK}
  IN IF bad = {} THEN OK
     ELSE IF Min(bad) > MaxEntries THEN BOUND_EXCEEDED
     ELSE decode_line(cells, Min(bad))

prefix_of(journal, point) == SubSeq(journal, 1, point.bytes)

\* The digest, decoding and entry-count checks on the committed prefix that
\* read_snapshot and validate_prepared_commit_prefix share.
check_prefix(journal, point) ==
  IF prefix_of(journal, point) # point.digest THEN CORRUPT
  ELSE IF decode_contents(prefix_of(journal, point)) # OK
       THEN decode_contents(prefix_of(journal, point))
  ELSE IF Len(prefix_of(journal, point)) # point.entries THEN CORRUPT
  ELSE OK

\* Faulty variant of require_prepared_commit_relation: the commit document of
\* the append in progress is not expected.
require_published_only(w, point) ==
  IF point.generation = w.published THEN OK ELSE CORRUPT

require_prepared_commit_relation(w, point) ==
  IF point.generation \in {w.published, w.started} THEN OK ELSE CORRUPT

validate_prepared_commit_prefix(journal, point, w) ==
  IF Len(journal) < point.bytes THEN CORRUPT
  ELSE IF point.generation = w.started /\ Len(journal) # point.bytes THEN CORRUPT
  ELSE check_prefix(journal, point)

\* The PREPARED branch: contradictory images are corrupt, all others unknown.
read_prepared(journal, point, w) ==
  IF require_prepared_commit_relation(w, point) # OK
  THEN require_prepared_commit_relation(w, point)
  ELSE IF validate_prepared_commit_prefix(journal, point, w) # OK
       THEN validate_prepared_commit_prefix(journal, point, w)
  ELSE OUTCOME_UNKNOWN

\* Faulty variant of read_clean: an unpublished tail is ignored.
read_clean_ignoring_tail(journal, point, w) ==
  IF w # clean(point.generation) THEN CORRUPT
  ELSE IF Len(journal) < point.bytes THEN CORRUPT
  ELSE check_prefix(journal, point)

\* The CLEAN branch: bytes past the commit point are an unknown outcome.
read_clean(journal, point, w) ==
  IF w # clean(point.generation) THEN CORRUPT
  ELSE IF Len(journal) > point.bytes THEN OUTCOME_UNKNOWN
  ELSE IF Len(journal) < point.bytes THEN CORRUPT
  ELSE check_prefix(journal, point)

\* The commit document and the witness, in the order they are opened and
\* decoded: a commit of another version is found before a missing witness.
decode_metadata(image) ==
  IF image.commit = Absent THEN UNAVAILABLE
  ELSE IF decode_commit(image.commit) # OK THEN decode_commit(image.commit)
  ELSE IF image.publish = Absent THEN UNAVAILABLE
  ELSE decode_publish(image.publish)

exact_empty(image) == image.commit = empty /\ Len(image.journal) = 0

\* read_snapshot: OK, or the code it fails with.  When it is OK the entries
\* are the whole journal.
read_snapshot(image) ==
  IF image.journal = Absent THEN UNAVAILABLE
  ELSE IF decode_metadata(image) # OK THEN decode_metadata(image)
  ELSE IF is_initializing(image.publish)
       THEN IF exact_empty(image) THEN UNAVAILABLE ELSE CORRUPT
  ELSE IF is_prepared_successor(image.publish)
       THEN read_prepared(image.journal, image.commit, image.publish)
  ELSE read_clean(image.journal, image.commit, image.publish)

-----------------------------------------------------------------------------
\* Faulty variant of resume_or_validate_existing: a PREPARED append is taken
\* for a finished one and released.
resume_releases_prepared(image) ==
  IF decode_metadata(image) # OK THEN decode_metadata(image)
  ELSE IF is_initializing(image.publish) \/ is_prepared_successor(image.publish)
       THEN "resume_witness"
  ELSE read_snapshot(image)

\* resume_or_validate_existing, up to its first write: OK, the decision to
\* complete an initialization, or the code it fails with.
resume_or_validate_existing(image) ==
  IF decode_metadata(image) # OK THEN decode_metadata(image)
  ELSE IF is_initializing(image.publish)
       THEN IF exact_empty(image) THEN "resume_witness" ELSE CORRUPT
  ELSE IF is_prepared_successor(image.publish)
       THEN read_prepared(image.journal, image.commit, image.publish)
  ELSE read_snapshot(image)

\* What open_with_ops does with a store some artifact of which existed: the
\* existence of the witness was sampled earlier, before the lock was taken.
open_existing(image, publish_exists) ==
  IF image.commit = Absent THEN UNAVAILABLE
  ELSE IF decode_commit(image.commit) # OK THEN decode_commit(image.commit)
  ELSE IF publish_exists THEN resume_or_validate_existing(image)
  ELSE IF exact_empty(image) THEN "create_witness"
  ELSE UNAVAILABLE

\* The checks JsonlJournalReader::open makes before it takes the lock.
reader_open(image) ==
  IF image.lock = Absent \/ image.journal = Absent \/ image.commit = Absent
  THEN UNAVAILABLE
  ELSE IF decode_commit(image.commit) # OK THEN decode_commit(image.commit)
  ELSE IF image.publish = Absent THEN UNAVAILABLE
  ELSE OK
=============================================================================
