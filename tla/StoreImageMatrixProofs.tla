----------------------- MODULE StoreImageMatrixProofs -----------------------
(***************************************************************************)
(* What the store concludes from an image, and what the engine replays     *)
(* from it, for every bound, every journal of any length and every pair of *)
(* documents, not only for the ones a run enumerates.                      *)
(***************************************************************************)
EXTENDS StoreImageMatrix, StoreImageProofs

-----------------------------------------------------------------------------
(* The image is any image, and nothing in the specification changes it.    *)

Image == [lock : {<<>>, Absent}, journal : Seq(Cell) \cup {Absent},
          commit : CommitDocument \cup {Torn, Absent},
          publish : WitnessDocument \cup {Torn, Absent}]

\* What a reader and a writer conclude from the image.
ReaderVerdict ==
  IF reader_open(image) # OK THEN reader_open(image) ELSE read_snapshot(image)

Exists == {n \in DOMAIN image : image[n] # Absent}

WriterVerdict ==
  IF Exists = {} THEN "fresh"
  ELSE IF ~({"lock", "journal", "commit"} \subseteq Exists) THEN UNAVAILABLE
  ELSE open_existing(image, "publish" \in Exists)

Verdicts ==
  /\ image \in Image
  /\ reader # Pending => reader = ReaderVerdict
  /\ writer # Pending => writer = WriterVerdict

\* The documents an arbitrary image may hold are documents.
LEMMA ArbitraryDocuments ==
  ASSUME NEW j \in Seq(Cell)
  PROVE Commits(j) \subseteq CommitDocument /\ Witnesses \subseteq WitnessDocument
<1> USE MaxEntriesIsPositive, MatrixConstants
<1> DEFINE old == [empty EXCEPT !.version = 1]
           Of(b) == [version : {2}, generation : 0 .. MaxEntries + 2, bytes : {b},
                     entries : 0 .. MaxEntries + 1, digest : Digests(j, b)]
<1>1. ASSUME NEW bytes \in 0 .. MaxCells
      PROVE Digests(j, bytes) \subseteq Seq(Cell)
  <2>1. [i \in 1 .. bytes |-> Foreign] \in Seq(Cell)
    BY DEF Cell
  <2>2. ASSUME NEW n \in {bytes} \cap 0 .. Len(j) PROVE SubSeq(j, 1, n) \in Seq(Cell)
    OBVIOUS
  <2> QED
    BY <2>1, <2>2 DEF Digests
<1>2. old \in CommitDocument
  <2>1. <<>> \in Seq(Cell) /\ Len(<<>>) = 0
    OBVIOUS
  <2>2. old = [version |-> 1, generation |-> 1, bytes |-> 0, entries |-> 0, digest |-> <<>>]
    BY <2>1 DEF empty, for_prefix
  <2> HIDE DEF old
  <2> QED
    BY <2>1, <2>2 DEF CommitDocument
<1>3. ASSUME NEW b \in 0 .. MaxCells PROVE Of(b) \subseteq CommitDocument
  BY <1>1 DEF CommitDocument
<1>4. Commits(j) \subseteq CommitDocument
  <2>1. Commits(j) = {old} \cup UNION {Of(b) : b \in 0 .. MaxCells}
    BY DEF Commits
  <2>2. \A b \in 0 .. MaxCells : Of(b) \subseteq CommitDocument
    BY <1>3
  <2> HIDE DEF old, Of
  <2>3. UNION {Of(b) : b \in 0 .. MaxCells} \subseteq CommitDocument
    BY <2>2, Zenon
  <2> QED
    BY <1>2, <2>1, <2>3
<1>5. [clean(1) EXCEPT !.version = 1] \in WitnessDocument
  BY DEF clean, witness, WitnessDocument, STORE_METADATA_VERSION
<1>6. Witnesses \subseteq WitnessDocument
  BY <1>5 DEF Witnesses, WitnessDocument
<1> QED
  BY <1>4, <1>6

\* Every initial image is an image.
LEMMA InitialImage ==
  ASSUME Init
  PROVE image \in Image
<1> USE MaxEntriesIsPositive, MatrixConstants
<1>1. CASE ArbitraryImage
  <2>1. PICK l \in {<<>>, Absent}, j \in Journals \cup {Absent},
             p \in Witnesses \cup {Torn, Absent} :
          \E c \in Commits(IF j = Absent THEN <<>> ELSE j) \cup {Torn, Absent} :
            image = [lock |-> l, journal |-> j, commit |-> c, publish |-> p]
    BY <1>1 DEF ArbitraryImage
  <2> DEFINE cells == IF j = Absent THEN <<>> ELSE j
  <2>2. PICK c \in Commits(cells) \cup {Torn, Absent} :
          image = [lock |-> l, journal |-> j, commit |-> c, publish |-> p]
    BY <2>1
  <2>3. j \in Seq(Cell) \cup {Absent}
    BY DEF Journals, SeqOf
  <2>4. cells \in Seq(Cell)
    BY <2>3
  <2>5. c \in CommitDocument \cup {Torn, Absent} /\ p \in WitnessDocument \cup {Torn, Absent}
    BY <2>4, ArbitraryDocuments
  <2> QED
    BY <2>2, <2>3, <2>5 DEF Image
<1>2. CASE PublishedHistory
  <2>1. PICK signals \in SeqOf(Signals, MaxEntries) :
          LET journal == [i \in DOMAIN signals |-> [seq |-> i, signal |-> signals[i]]] IN
            image = [lock |-> <<>>, journal |-> journal,
                     commit |-> for_prefix(journal, Len(journal)),
                     publish |-> clean(Len(journal) + 1)]
    BY <1>2 DEF PublishedHistory
  <2> DEFINE journal == [i \in DOMAIN signals |-> [seq |-> i, signal |-> signals[i]]]
  <2>2. PICK m \in 0 .. MaxEntries : signals \in [1 .. m -> Signals]
    BY DEF SeqOf
  <2>3. journal \in [1 .. m -> Cell]
    BY <2>2 DEF Cell
  <2>4. journal \in Seq(Cell) /\ Len(journal) \in Nat
    BY <2>3
  <2> HIDE DEF journal
  <2>5. for_prefix(journal, Len(journal)) \in CommitDocument
    BY <2>4 DEF for_prefix, CommitDocument, STORE_METADATA_VERSION
  <2>6. clean(Len(journal) + 1) \in WitnessDocument
    BY <2>4 DEF clean, witness, WitnessDocument, STORE_METADATA_VERSION
  <2>7. image = [lock |-> <<>>, journal |-> journal,
                 commit |-> for_prefix(journal, Len(journal)),
                 publish |-> clean(Len(journal) + 1)]
    BY <2>1 DEF journal
  <2> QED
    BY <2>4, <2>5, <2>6, <2>7 DEF Image
<1> QED
  BY <1>1, <1>2 DEF Init

\* A request ends in the verdict of the image, whenever it is made.
LEMMA VerdictsHold == Spec => []Verdicts
<1>1. Init => Verdicts
  BY InitialImage DEF Init, Verdicts
<1>2. Verdicts /\ [Next]_vars => Verdicts'
  <2> SUFFICES ASSUME Verdicts, [Next]_vars PROVE Verdicts'
    OBVIOUS
  <2>1. CASE Read
    BY <2>1 DEF Verdicts, Read, ReaderVerdict, WriterVerdict, Exists
  <2>2. CASE Write
    BY <2>2 DEF Verdicts, Write, ReaderVerdict, WriterVerdict, Exists
  <2>3. CASE Replay
    BY <2>3 DEF Verdicts, Replay, ReaderVerdict, WriterVerdict, Exists
  <2>4. CASE UNCHANGED vars
    BY <2>4 DEF Verdicts, vars, ReaderVerdict, WriterVerdict, Exists
  <2> QED
    BY <2>1, <2>2, <2>3, <2>4 DEF Next
<1> QED
  BY <1>1, <1>2, PTL DEF Spec

-----------------------------------------------------------------------------
(* The clean-authority conditions.                                         *)

\* Lines that decode are the lines of a history.
LEMMA HistoryDecodes ==
  ASSUME NEW cells \in Seq(Cell)
  PROVE IsHistory(cells) <=> Len(cells) <= MaxEntries /\ decode_contents(cells) = OK
<1> USE MaxEntriesIsPositive
<1>1. DOMAIN cells = 1 .. Len(cells) /\ Len(cells) \in Nat
  OBVIOUS
<1>2. ASSUME NEW i \in DOMAIN cells
      PROVE decode_line(cells, i) = OK
              <=> cells[i] \notin {Torn, Foreign} /\ cells[i].seq = i
  BY DEF decode_line, OK, CORRUPT, SCHEMA_UNSUPPORTED
<1>3. decode_contents(cells) = OK
        <=> \A i \in DOMAIN cells : ~(i > MaxEntries) /\ decode_line(cells, i) = OK
  BY <1>1, ContentsDecode
<1>4. Len(cells) <= MaxEntries => \A i \in DOMAIN cells : ~(i > MaxEntries)
  BY <1>1
<1> QED
  BY <1>2, <1>3, <1>4 DEF IsHistory

\* The checks on a committed prefix that is the whole journal.
LEMMA WholePrefix ==
  ASSUME NEW j \in Seq(Cell), NEW c \in CommitDocument,
         c.entries <= MaxEntries, Len(j) = c.bytes
  PROVE check_prefix(j, c) = OK
          <=> j = c.digest /\ IsHistory(j) /\ Len(j) = c.entries
<1>1. prefix_of(j, c) = j
  BY DEF prefix_of
<1>2. c.entries \in Nat /\ Len(j) \in Nat
  BY DEF CommitDocument
<1>3. Len(j) = c.entries => (IsHistory(j) <=> decode_contents(j) = OK)
  BY <1>2, HistoryDecodes
<1> QED
  BY <1>1, <1>3 DEF check_prefix, OK, CORRUPT

\* A PREPARED image is never read as known.
LEMMA PreparedIsNeverKnown ==
  ASSUME NEW j, NEW c, NEW w
  PROVE read_prepared(j, c, w) \in JournalErrorCode
<1>1. check_prefix(j, c) \in JournalErrorCode \cup {OK}
  BY PrefixCodes
<1>2. validate_prepared_commit_prefix(j, c, w) \in JournalErrorCode \cup {OK}
  BY <1>1 DEF validate_prepared_commit_prefix, JournalErrorCode
<1> QED
  BY <1>2 DEF read_prepared, require_prepared_commit_relation, JournalErrorCode

\* The documents a clean authority rests on decode.
LEMMA DocumentsDecode ==
  ASSUME image \in Image
  PROVE /\ decode_commit(image.commit) = OK /\ image.commit # Absent
             <=> WellFormedCommit(image.commit)
        /\ WellFormedCommit(image.commit) => image.commit \in CommitDocument
        /\ image.publish # Absent /\ decode_publish(image.publish) = OK
             => image.publish \in WitnessDocument
<1>1. image.commit \in CommitDocument \cup {Torn, Absent}
      /\ image.publish \in WitnessDocument \cup {Torn, Absent}
  BY DEF Image
<1>2. decode_commit(image.commit) = OK /\ image.commit # Absent
        <=> WellFormedCommit(image.commit)
  BY <1>1, MaxEntriesIsPositive
  DEF decode_commit, WellFormedCommit, OK, CORRUPT, SCHEMA_UNSUPPORTED, BOUND_EXCEEDED,
      STORE_METADATA_VERSION, CommitDocument
<1> QED
  BY <1>1, <1>2 DEF WellFormedCommit, decode_publish, OK, CORRUPT

\* The witness of a clean authority is a CLEAN one and nothing else.
LEMMA CleanWitness ==
  ASSUME NEW g \in 1 .. MaxEntries + 1
  PROVE /\ decode_publish(clean(g)) = OK /\ clean(g) # Absent
        /\ ~is_initializing(clean(g)) /\ ~is_prepared_successor(clean(g))
<1> USE MaxEntriesIsPositive, MatrixConstants
<1>1. clean(g) \in WitnessDocument
  BY DEF clean, witness, WitnessDocument, STORE_METADATA_VERSION
<1>2. clean(g) # Torn /\ clean(g) # Absent
  BY <1>1
<1>3. clean(g).started = g /\ clean(g).published = g
      /\ clean(g).version = STORE_METADATA_VERSION
  BY DEF clean, witness
<1>4. decode_publish(clean(g)) = OK
  BY <1>2, <1>3 DEF decode_publish, is_clean
<1> QED
  BY <1>2, <1>3, <1>4 DEF is_initializing, is_prepared_successor

\* A snapshot is read exactly from a clean authority.
LEMMA SnapshotIsCleanAuthority ==
  ASSUME image \in Image
  PROVE reader_open(image) = OK /\ read_snapshot(image) = OK <=> CleanAuthority
<1> USE MaxEntriesIsPositive, MatrixConstants
<1> DEFINE j == image.journal
           c == image.commit
           w == image.publish
<1>1. /\ DOMAIN image = {"lock", "journal", "commit", "publish"}
      /\ j \in Seq(Cell) \cup {Absent}
  BY DEF Image
<1>2. (\A n \in DOMAIN image : image[n] # Absent)
        <=> image.lock # Absent /\ j # Absent /\ c # Absent /\ w # Absent
  BY <1>1
<1>3. reader_open(image) = OK
        <=> (\A n \in DOMAIN image : image[n] # Absent) /\ WellFormedCommit(c)
  BY <1>2, DocumentsDecode, MetadataCodes DEF reader_open, OK, UNAVAILABLE
<1> SUFFICES ASSUME j \in Seq(Cell), c \in CommitDocument, w # Absent, c # Absent, j # Absent,
                    WellFormedCommit(c), \A n \in DOMAIN image : image[n] # Absent
             PROVE read_snapshot(image) = OK <=> CleanAuthority
  BY <1>1, <1>2, <1>3, DocumentsDecode DEF CleanAuthority
<1>4. c.entries \in Nat /\ c.entries <= MaxEntries /\ c.generation = c.entries + 1
      /\ c.bytes \in Nat /\ Len(j) \in Nat
  BY DEF WellFormedCommit, CommitDocument
<1>5. decode_metadata(image) = decode_publish(w)
  BY DocumentsDecode DEF decode_metadata
<1>6. CleanAuthority <=> /\ w = clean(c.generation) /\ Len(j) = c.bytes
                         /\ j = c.digest /\ IsHistory(j) /\ Len(j) = c.entries
  BY <1>4 DEF CleanAuthority, IsHistory
<1>7. read_clean(j, c, w) = OK <=> CleanAuthority
  <2>1. read_clean(j, c, w) = OK
          <=> w = clean(c.generation) /\ Len(j) = c.bytes /\ check_prefix(j, c) = OK
    BY <1>4 DEF read_clean, OK, CORRUPT, OUTCOME_UNKNOWN
  <2>2. Len(j) = c.bytes =>
          (check_prefix(j, c) = OK <=> j = c.digest /\ IsHistory(j) /\ Len(j) = c.entries)
    BY <1>4, WholePrefix
  <2> QED
    BY <1>6, <2>1, <2>2
<1>8. ASSUME read_snapshot(image) = OK PROVE CleanAuthority
  <2>1. read_prepared(j, c, w) # OK
    BY PreparedIsNeverKnown DEF JournalErrorCode, OK, UNAVAILABLE, LOCKED,
       SCHEMA_UNSUPPORTED, CORRUPT, BOUND_EXCEEDED, OUTCOME_UNKNOWN
  <2>2. read_clean(j, c, w) = OK
    BY <1>8, <2>1 DEF read_snapshot, OK, UNAVAILABLE, CORRUPT
  <2> QED
    BY <1>7, <2>2
<1>9. ASSUME CleanAuthority PROVE read_snapshot(image) = OK
  <2>1. c.generation \in 1 .. MaxEntries + 1 /\ w = clean(c.generation)
    BY <1>4, <1>6, <1>9
  <2>2. decode_publish(w) = OK /\ ~is_initializing(w) /\ ~is_prepared_successor(w)
    BY <2>1, CleanWitness
  <2>3. read_snapshot(image) = read_clean(j, c, w)
    BY <1>5, <2>2 DEF read_snapshot
  <2> QED
    BY <1>7, <1>9, <2>3
<1> QED
  BY <1>8, <1>9

\* A reader ends in a known result exactly on a clean authority.
LEMMA ReaderKnows ==
  ASSUME image \in Image
  PROVE ReaderVerdict = OK <=> CleanAuthority
BY SnapshotIsCleanAuthority DEF ReaderVerdict

\* KnownIsCleanAuthority for every image and every bound: read_snapshot and
\* JsonlJournalReader::open return a known result exactly when the
\* clean-authority conditions of the store's contract hold.
THEOREM KnownResultsAreClean == Spec => []KnownIsCleanAuthority
<1>1. Verdicts => KnownIsCleanAuthority
  BY ReaderKnows DEF Verdicts, KnownIsCleanAuthority
<1> QED
  BY <1>1, VerdictsHold, PTL

-----------------------------------------------------------------------------
(* What a writer may do with an existing image.                            *)

\* The names of an image.
LEMMA Names ==
  ASSUME image \in Image
  PROVE /\ DOMAIN image = {"lock", "journal", "commit", "publish"}
        /\ Exists = {} <=> \A n \in DOMAIN image : image[n] = Absent
        /\ {"lock", "journal", "commit"} \subseteq Exists
             <=> image.lock # Absent /\ image.journal # Absent /\ image.commit # Absent
        /\ "publish" \in Exists <=> image.publish # Absent
<1>1. DOMAIN image = {"lock", "journal", "commit", "publish"}
  BY DEF Image
<1> QED
  BY <1>1 DEF Exists

\* No code an image is refused with is a permission.
LEMMA CodesRefuse ==
  /\ JournalErrorCode \cap {OK, "fresh", "create_witness", "resume_witness"} = {}
  /\ {UNAVAILABLE, CORRUPT, OUTCOME_UNKNOWN} \subseteq JournalErrorCode
BY DEF JournalErrorCode, OK, UNAVAILABLE, LOCKED, SCHEMA_UNSUPPORTED, CORRUPT,
   BOUND_EXCEEDED, OUTCOME_UNKNOWN

\* The exact initialization image, as the code and as the contract say it.
LEMMA ExactInitialization ==
  ASSUME image \in Image, image.journal # Absent, image.publish # Absent,
         decode_publish(image.publish) = OK
  PROVE /\ is_initializing(image.publish) <=> image.publish = initializing
        /\ exact_empty(image) <=> image.journal = <<>> /\ image.commit = empty
<1>1. image.publish \in WitnessDocument
  BY DocumentsDecode
<1>2. image.publish.version = STORE_METADATA_VERSION
  BY DEF decode_publish, OK, CORRUPT, SCHEMA_UNSUPPORTED
<1>3. is_initializing(image.publish) <=> image.publish = initializing
  BY <1>1, <1>2 DEF is_initializing, initializing, witness, WitnessDocument
<1>4. image.journal \in Seq(Cell)
  BY DEF Image
<1>5. Len(image.journal) = 0 <=> image.journal = <<>>
  BY <1>4
<1> QED
  BY <1>3, <1>5 DEF exact_empty

\* The commit point an initialization publishes decodes.
LEMMA EmptyDecodes ==
  /\ empty \in CommitDocument /\ WellFormedCommit(empty)
  /\ initializing \in WitnessDocument /\ decode_publish(initializing) = OK
  /\ \A g \in Nat : initializing # clean(g)
<1> USE MaxEntriesIsPositive, MatrixConstants
<1>1. <<>> \in Seq(Cell) /\ Len(<<>>) = 0
  OBVIOUS
<1>2. empty \in CommitDocument
  BY <1>1 DEF empty, for_prefix, CommitDocument, STORE_METADATA_VERSION
<1>3. WellFormedCommit(empty)
  BY <1>1, <1>2 DEF WellFormedCommit, empty, for_prefix, STORE_METADATA_VERSION
<1>4. initializing \in WitnessDocument
  BY DEF initializing, witness, WitnessDocument, STORE_METADATA_VERSION
<1>5. initializing.started = 1 /\ initializing.published = 0
      /\ initializing.version = STORE_METADATA_VERSION
  BY DEF initializing, witness
<1>6. decode_publish(initializing) = OK
  BY <1>4, <1>5 DEF decode_publish, is_initializing
<1>7. ASSUME NEW g \in Nat PROVE initializing # clean(g)
  <2>1. clean(g).started = clean(g).published
    BY DEF clean, witness
  <2> QED
    BY <1>5, <2>1
<1> QED
  BY <1>2, <1>3, <1>4, <1>6, <1>7

\* An empty store released as CLEAN is a clean authority.
LEMMA EmptyCleanAuthority ==
  ASSUME image \in Image, CompletableInit, image.publish = clean(1)
  PROVE CleanAuthority
<1>1. image.lock # Absent /\ image.journal = <<>> /\ image.commit = empty
  BY DEF CompletableInit
<1>2. DOMAIN image = {"lock", "journal", "commit", "publish"}
  BY Names
<1>3. image.publish # Absent
  BY CleanWitness, MaxEntriesIsPositive
<1>4. image.commit # Absent
  BY <1>1, EmptyDecodes DEF WellFormedCommit
<1>5. image.journal # Absent
  BY <1>1 DEF Image
<1>6. \A n \in DOMAIN image : image[n] # Absent
  BY <1>1, <1>2, <1>3, <1>4, <1>5
<1>7. /\ image.commit.generation = 1 /\ image.commit.bytes = 0
      /\ image.commit.entries = 0 /\ image.commit.digest = <<>>
  BY <1>1 DEF empty, for_prefix
<1>8. Len(image.journal) = 0 /\ DOMAIN image.journal = {}
  BY <1>1
<1> QED
  BY <1>1, <1>6, <1>7, <1>8, EmptyDecodes DEF CleanAuthority

Completes == {"fresh", "create_witness", "resume_witness"}

\* A writer finds all four artifacts.
LEMMA ResumeVerdict ==
  ASSUME image \in Image, \A n \in DOMAIN image : image[n] # Absent,
         WellFormedCommit(image.commit)
  PROVE LET verdict == resume_or_validate_existing(image) IN
        /\ verdict \in {OK} \cup Completes <=> CleanAuthority \/ CompletableInit
        /\ \/ read_snapshot(image) = verdict
           \/ read_snapshot(image) = UNAVAILABLE /\ verdict = "resume_witness"
<1> DEFINE verdict == resume_or_validate_existing(image)
           w == image.publish
<1>1. /\ image.lock # Absent /\ image.journal # Absent /\ image.commit # Absent
      /\ w # Absent
  BY Names
<1>2. decode_metadata(image) = decode_publish(w) /\ reader_open(image) = OK
  BY <1>1, DocumentsDecode DEF decode_metadata, reader_open
<1>3. CleanAuthority <=> read_snapshot(image) = OK
  BY <1>2, SnapshotIsCleanAuthority
<1>4. CompletableInit
        <=> /\ image.journal = <<>> /\ image.commit = empty
            /\ w \in {initializing, clean(1)}
  BY <1>1 DEF CompletableInit
<1>5. CASE decode_publish(w) # OK
  <2>1. verdict = decode_publish(w) /\ read_snapshot(image) = verdict
    BY <1>1, <1>2, <1>5 DEF resume_or_validate_existing, read_snapshot
  <2>2. verdict \in JournalErrorCode
    BY <1>2, <1>5, <2>1, MetadataCodes
  <2>3. ~CompletableInit
    BY <1>4, <1>5, EmptyDecodes, CleanWitness, MaxEntriesIsPositive
  <2> QED
    BY <1>3, <2>1, <2>2, <2>3, CodesRefuse DEF Completes
<1>6. CASE decode_publish(w) = OK /\ is_initializing(w)
  <2>1. w = initializing /\ (exact_empty(image) <=> CompletableInit)
    BY <1>1, <1>4, <1>6, ExactInitialization
  <2>2. verdict = (IF exact_empty(image) THEN "resume_witness" ELSE CORRUPT)
    BY <1>2, <1>6 DEF resume_or_validate_existing
  <2>3. read_snapshot(image) = (IF exact_empty(image) THEN UNAVAILABLE ELSE CORRUPT)
    BY <1>1, <1>2, <1>6 DEF read_snapshot
  <2> QED
    BY <1>3, <2>1, <2>2, <2>3, CodesRefuse DEF Completes, OK, CORRUPT, UNAVAILABLE
<1>7. CASE decode_publish(w) = OK /\ ~is_initializing(w) /\ is_prepared_successor(w)
  <2>1. verdict = read_prepared(image.journal, image.commit, w)
        /\ read_snapshot(image) = verdict
    BY <1>1, <1>2, <1>7 DEF resume_or_validate_existing, read_snapshot
  <2>2. verdict \in JournalErrorCode
    BY <2>1, PreparedIsNeverKnown
  <2>3. w # initializing
    BY <1>1, <1>7, ExactInitialization
  <2>4. w # clean(1)
    BY <1>7, CleanWitness, MaxEntriesIsPositive
  <2> QED
    BY <1>3, <1>4, <2>1, <2>2, <2>3, <2>4, CodesRefuse DEF Completes
<1>8. CASE decode_publish(w) = OK /\ ~is_initializing(w) /\ ~is_prepared_successor(w)
  <2>1. verdict = read_snapshot(image)
    BY <1>2, <1>8 DEF resume_or_validate_existing
  <2>2. w # initializing
    BY <1>1, <1>8, ExactInitialization
  <2>3. CompletableInit => CleanAuthority
    BY <1>4, <2>2, EmptyCleanAuthority
  <2>4. verdict \in JournalErrorCode \cup {OK}
    BY <2>1, SnapshotCodes
  <2> QED
    BY <1>3, <2>1, <2>3, <2>4, CodesRefuse DEF Completes
<1> QED
  BY <1>5, <1>6, <1>7, <1>8

\* The verdicts of a writer and of a reader on the same image.
LEMMA WriterGoesOn ==
  ASSUME image \in Image
  PROVE /\ WriterVerdict \in {OK} \cup Completes
             <=> \/ CleanAuthority
                 \/ CompletableInit
                 \/ \A n \in DOMAIN image : image[n] = Absent
        /\ \/ ReaderVerdict = WriterVerdict
           \/ ReaderVerdict = UNAVAILABLE /\ WriterVerdict \in Completes
<1> DEFINE Existing == {"lock", "journal", "commit"} \subseteq Exists
<1>1. CASE Exists = {}
  <2>1. WriterVerdict = "fresh" /\ \A n \in DOMAIN image : image[n] = Absent
    BY <1>1, Names DEF WriterVerdict
  <2>2. reader_open(image) = UNAVAILABLE
    BY <2>1, Names DEF reader_open
  <2>3. ReaderVerdict = UNAVAILABLE
    BY <2>2 DEF ReaderVerdict, OK, UNAVAILABLE
  <2> QED
    BY <2>1, <2>3 DEF Completes
<1>2. CASE Exists # {} /\ ~Existing
  <2>1. WriterVerdict = UNAVAILABLE
    BY <1>2 DEF WriterVerdict
  <2>2. reader_open(image) = UNAVAILABLE
    BY <1>2, Names DEF reader_open
  <2>3. ReaderVerdict = UNAVAILABLE
    BY <2>2 DEF ReaderVerdict, OK, UNAVAILABLE
  <2>4. ~CleanAuthority
    BY <2>3, ReaderKnows DEF OK, UNAVAILABLE
  <2>5. ~CompletableInit
    <3> SUFFICES ASSUME CompletableInit PROVE FALSE
      OBVIOUS
    <3>1. image.lock # Absent /\ image.journal = <<>> /\ image.commit = empty
      BY DEF CompletableInit
    <3>2. image.commit # Absent
      BY <3>1, EmptyDecodes DEF WellFormedCommit
    <3>3. image.journal # Absent
      BY <3>1 DEF Image
    <3> QED
      BY <1>2, <3>1, <3>2, <3>3, Names
  <2>6. ~ \A n \in DOMAIN image : image[n] = Absent
    BY <1>2, Names
  <2> QED
    BY <2>1, <2>3, <2>4, <2>5, <2>6 DEF Completes, OK, UNAVAILABLE
<1>3. CASE Existing
  <2>1. /\ image.lock # Absent /\ image.journal # Absent /\ image.commit # Absent
        /\ ~ \A n \in DOMAIN image : image[n] = Absent
    BY <1>3, Names
  <2>2. WriterVerdict = open_existing(image, "publish" \in Exists)
    BY <1>3 DEF WriterVerdict
  <2>3. CASE decode_commit(image.commit) # OK
    <3>1. WriterVerdict = decode_commit(image.commit)
      BY <2>1, <2>2, <2>3 DEF open_existing
    <3>2. ReaderVerdict = WriterVerdict
      BY <2>1, <2>3, <3>1 DEF ReaderVerdict, reader_open
    <3>3. WriterVerdict \in JournalErrorCode
      BY <2>3, <3>1, MetadataCodes
    <3>4. ~CleanAuthority
      BY <3>2, <3>3, ReaderKnows, CodesRefuse
    <3>5. ~CompletableInit
      <4>1. image.commit # empty
        BY <2>1, <2>3, DocumentsDecode, EmptyDecodes
      <4> QED
        BY <4>1 DEF CompletableInit
    <3> QED
      BY <2>1, <3>2, <3>3, <3>4, <3>5, CodesRefuse DEF Completes
  <2>4. CASE decode_commit(image.commit) = OK /\ image.publish = Absent
    <3>1. WriterVerdict = IF exact_empty(image) THEN "create_witness" ELSE UNAVAILABLE
      BY <2>1, <2>2, <2>4, Names DEF open_existing
    <3>2. reader_open(image) = UNAVAILABLE
      BY <2>1, <2>4 DEF reader_open
    <3>3. ReaderVerdict = UNAVAILABLE
      BY <3>2 DEF ReaderVerdict, OK, UNAVAILABLE
    <3>4. ~CleanAuthority
      BY <3>3, ReaderKnows DEF OK, UNAVAILABLE
    <3>5. exact_empty(image) <=> CompletableInit
      <4>1. image.journal \in Seq(Cell)
        BY <2>1 DEF Image
      <4>2. Len(image.journal) = 0 <=> image.journal = <<>>
        BY <4>1
      <4> QED
        BY <2>1, <2>4, <4>2 DEF exact_empty, CompletableInit
    <3> QED
      BY <2>1, <3>1, <3>3, <3>4, <3>5 DEF Completes, OK, UNAVAILABLE
  <2>5. CASE decode_commit(image.commit) = OK /\ image.publish # Absent
    <3>1. \A n \in DOMAIN image : image[n] # Absent
      BY <2>1, <2>5, Names
    <3>2. WellFormedCommit(image.commit)
      BY <2>1, <2>5, DocumentsDecode
    <3>3. WriterVerdict = resume_or_validate_existing(image)
      BY <2>1, <2>2, <2>5, Names DEF open_existing
    <3>4. reader_open(image) = OK
      BY <2>1, <2>5 DEF reader_open
    <3>5. ReaderVerdict = read_snapshot(image)
      BY <3>4 DEF ReaderVerdict
    <3> QED
      BY <2>1, <3>1, <3>2, <3>3, <3>5, ResumeVerdict DEF Completes
  <2> QED
    BY <2>3, <2>4, <2>5
<1> QED
  BY <1>1, <1>2, <1>3

\* WriterPermission for every image and every bound: open_with_ops goes on only
\* on a clean store, on an exact initialization image or in an empty directory,
\* and refuses anything else with the code a reader gets.
THEOREM WritersArePermitted == Spec => []WriterPermission
<1>1. Verdicts => WriterPermission
  BY WriterGoesOn DEF Verdicts, WriterPermission, Completes
<1> QED
  BY <1>1, VerdictsHold, PTL

-----------------------------------------------------------------------------
(* The cut points of an append.                                            *)

\* The witness an append writes before anything else.
LEMMA PreparedWitness ==
  ASSUME NEW n \in Nat, n < MaxEntries
  PROVE LET w == prepared(n + 2) IN
        /\ decode_publish(w) = OK /\ w.started = n + 2 /\ w.published = n + 1
        /\ ~is_initializing(w) /\ is_prepared_successor(w)
<1> USE MaxEntriesIsPositive, MatrixConstants
<1> DEFINE w == prepared(n + 2)
<1>1. w = [version |-> STORE_METADATA_VERSION, started |-> n + 2, published |-> n + 1]
  BY DEF prepared, witness
<1>2. w \in WitnessDocument
  BY <1>1 DEF WitnessDocument, STORE_METADATA_VERSION
<1>3. w.started = n + 2 /\ w.published = n + 1 /\ w.version = STORE_METADATA_VERSION
  BY <1>1
<1>4. w # Torn
  BY <1>2
<1> HIDE DEF w
<1>5. is_prepared_successor(w) /\ ~is_initializing(w)
  BY <1>3 DEF is_prepared_successor, is_initializing
<1>6. decode_publish(w) = OK
  BY <1>3, <1>4, <1>5 DEF decode_publish
<1> QED
  BY <1>3, <1>5, <1>6 DEF w

\* A commit point over a history decodes, and its prefix passes the checks.
LEMMA HistoryCommit ==
  ASSUME NEW j \in Seq(Cell), NEW n \in 0 .. Len(j), n <= MaxEntries,
         IsHistory(SubSeq(j, 1, n))
  PROVE LET c == for_prefix(SubSeq(j, 1, n), n) IN
        /\ c \in CommitDocument /\ WellFormedCommit(c)
        /\ c.generation = n + 1 /\ c.bytes = n
        /\ check_prefix(j, c) = OK
<1> USE MaxEntriesIsPositive, MatrixConstants
<1> DEFINE old == SubSeq(j, 1, n)
           c == for_prefix(old, n)
<1>1. old \in Seq(Cell) /\ Len(old) = n
  OBVIOUS
<1>2. c = [version |-> STORE_METADATA_VERSION, generation |-> n + 1, bytes |-> n,
           entries |-> n, digest |-> old]
  BY <1>1 DEF for_prefix
<1> HIDE DEF c
<1>3. c \in CommitDocument
  <2>1. n \in Nat /\ n + 1 \in Nat /\ STORE_METADATA_VERSION \in Nat
    BY DEF STORE_METADATA_VERSION
  <2> QED
    BY <1>1, <1>2, <2>1 DEF CommitDocument
<1>4. /\ c.version = 2 /\ c.generation = n + 1 /\ c.bytes = n /\ c.entries = n
      /\ c.digest = old
  BY <1>2 DEF STORE_METADATA_VERSION
<1>5. WellFormedCommit(c)
  BY <1>3, <1>4 DEF WellFormedCommit
<1>6. prefix_of(j, c) = old
  BY <1>4 DEF prefix_of
<1>7. decode_contents(old) = OK
  BY <1>1, HistoryDecodes
<1>8. check_prefix(j, c) = OK
  BY <1>1, <1>4, <1>6, <1>7 DEF check_prefix, OK, CORRUPT
<1> QED
  BY <1>3, <1>4, <1>5, <1>8 DEF c

\* Reader and writer conclude that the outcome is unknown.
LEMMA CutPointVerdicts ==
  ASSUME image \in Image, AppendCutPoint
  PROVE ReaderVerdict = OUTCOME_UNKNOWN /\ WriterVerdict = OUTCOME_UNKNOWN
<1> USE MaxEntriesIsPositive, MatrixConstants
<1> DEFINE j == image.journal
           c == image.commit
           w == image.publish
<1>1. /\ \A x \in DOMAIN image : image[x] # Absent
      /\ image.lock # Absent /\ j # Absent /\ c # Absent /\ w # Absent
      /\ Exists # {} /\ {"lock", "journal", "commit"} \subseteq Exists
      /\ "publish" \in Exists
  BY Names DEF AppendCutPoint
<1>2. j \in Seq(Cell)
  BY <1>1 DEF Image
<1>3. PICK old \in Prefixes(j) :
        /\ IsHistory(old) /\ Len(old) < MaxEntries
        /\ w = prepared(Len(old) + 2)
        /\ \/ c = for_prefix(old, Len(old))
           \/ /\ Len(j) = Len(old) + 1 /\ IsHistory(j)
              /\ c = for_prefix(j, Len(old) + 1)
  BY DEF AppendCutPoint
<1>4. PICK n \in 0 .. Len(j) : old = SubSeq(j, 1, n)
  BY DEF Prefixes
<1>5. Len(old) = n /\ n \in Nat /\ n < MaxEntries
  BY <1>2, <1>3, <1>4
<1>6. /\ decode_publish(w) = OK /\ w.started = n + 2 /\ w.published = n + 1
      /\ ~is_initializing(w) /\ is_prepared_successor(w)
  BY <1>3, <1>5, PreparedWitness
<1>7. /\ WellFormedCommit(c) /\ check_prefix(j, c) = OK
      /\ require_prepared_commit_relation(w, c) = OK
      /\ validate_prepared_commit_prefix(j, c, w) = OK
  <2>1. CASE c = for_prefix(old, n)
    <3>1. n <= MaxEntries /\ IsHistory(old) /\ n \in 0 .. Len(j) /\ old = SubSeq(j, 1, n)
      BY <1>3, <1>4, <1>5
    <3>2. c = for_prefix(SubSeq(j, 1, n), n) /\ IsHistory(SubSeq(j, 1, n))
      BY <2>1, <3>1
    <3>3. /\ WellFormedCommit(c) /\ c.generation = n + 1 /\ c.bytes = n
          /\ check_prefix(j, c) = OK
      BY <1>2, <3>1, <3>2, HistoryCommit
    <3> QED
      BY <1>2, <1>5, <1>6, <3>3
      DEF require_prepared_commit_relation, validate_prepared_commit_prefix
  <2>2. CASE Len(j) = n + 1 /\ IsHistory(j) /\ c = for_prefix(j, n + 1)
    <3>1. j = SubSeq(j, 1, n + 1) /\ n + 1 \in 0 .. Len(j) /\ n + 1 <= MaxEntries
      BY <1>2, <1>5, <2>2
    <3>2. c = for_prefix(SubSeq(j, 1, n + 1), n + 1) /\ IsHistory(SubSeq(j, 1, n + 1))
      BY <2>2, <3>1
    <3>3. /\ WellFormedCommit(c) /\ c.generation = (n + 1) + 1 /\ c.bytes = n + 1
          /\ check_prefix(j, c) = OK
      BY <1>2, <3>1, <3>2, HistoryCommit
    <3> QED
      BY <1>2, <1>5, <1>6, <2>2, <3>3
      DEF require_prepared_commit_relation, validate_prepared_commit_prefix
  <2> QED
    BY <1>3, <1>5, <2>1, <2>2
<1>8. read_prepared(j, c, w) = OUTCOME_UNKNOWN
  BY <1>7 DEF read_prepared
<1>9. decode_commit(c) = OK /\ decode_metadata(image) = OK /\ reader_open(image) = OK
  BY <1>1, <1>6, <1>7, DocumentsDecode DEF decode_metadata, reader_open
<1>10. read_snapshot(image) = OUTCOME_UNKNOWN
  BY <1>1, <1>6, <1>8, <1>9 DEF read_snapshot
<1>11. open_existing(image, "publish" \in Exists) = OUTCOME_UNKNOWN
  BY <1>1, <1>6, <1>8, <1>9 DEF open_existing, resume_or_validate_existing
<1> QED
  BY <1>1, <1>9, <1>10, <1>11 DEF ReaderVerdict, WriterVerdict

\* AppendCutPointIsUnknown for every history and every bound: whatever partial
\* record an interrupted append left, require_prepared_commit_relation and
\* validate_prepared_commit_prefix admit it as an unknown outcome.
THEOREM CutPointsAreUnknown == Spec => []AppendCutPointIsUnknown
<1>1. Verdicts => AppendCutPointIsUnknown
  BY CutPointVerdicts DEF Verdicts, AppendCutPointIsUnknown
<1> QED
  BY <1>1, VerdictsHold, PTL

-----------------------------------------------------------------------------
(* The engine's replay.  That a map holds what the history holds is not    *)
(* inductive by itself: the loop consumes complete records only, since it  *)
(* starts from a known result, and the map has exactly the ids consumed.   *)

Record == [seq : Nat, signal : Signals]

Ids(history) == {history[i].event_id : i \in DOMAIN history}

Maps == UNION {[ids -> Signals] : ids \in SUBSET EventIds}

Replayed ==
  /\ state \in Maps
  /\ DOMAIN state = Ids(events)
  /\ \A i \in DOMAIN events : state[events[i].event_id] = events[i]
  /\ replay_ok(events)

ReplayInv ==
  /\ events \in Seq(Signals)
  /\ \/ state = None /\ events = <<>>
     \/ state = ApplyError /\ ~replay_ok(events)
     \/ Replayed

\* A map is neither of the two constants.
LEMMA MapsAreMaps == None \notin Maps /\ ApplyError \notin Maps
BY ReplayConstants DEF Maps

\* The entries a reader returned are complete records.
LEMMA ReplayedSignals ==
  ASSUME Verdicts, reader = OK
  PROVE image.journal \in Seq(Record)
<1>1. image \in Image /\ CleanAuthority
  BY ReaderKnows, MatrixConstants DEF Verdicts
<1>2. image.journal \in Seq(Cell)
  BY <1>1, Names DEF Image, CleanAuthority
<1>3. \A i \in 1 .. Len(image.journal) : image.journal[i] \in Record
  BY <1>1, <1>2 DEF CleanAuthority, Cell, Record
<1> QED
  BY <1>2, <1>3

\* One more signal, with an id the history does not hold yet.
LEMMA ApplyNew ==
  ASSUME NEW h \in Seq(Signals), NEW m \in Maps, NEW s \in Signals,
         DOMAIN m = Ids(h), \A i \in DOMAIN h : m[h[i].event_id] = h[i],
         replay_ok(h), s.event_id \notin DOMAIN m
  PROVE LET g == Append(h, s)
            n == insert(m, s)
        IN /\ n \in Maps
           /\ DOMAIN n = Ids(g)
           /\ \A i \in DOMAIN g : n[g[i].event_id] = g[i]
           /\ replay_ok(g)
<1> DEFINE g == Append(h, s)
           n == insert(m, s)
<1>1. /\ DOMAIN g = 1 .. Len(h) + 1 /\ DOMAIN h = 1 .. Len(h) /\ Len(h) \in Nat
      /\ g[Len(h) + 1] = s /\ \A i \in 1 .. Len(h) : g[i] = h[i]
  OBVIOUS
<1>2. DOMAIN n = DOMAIN m \cup {s.event_id} /\ n[s.event_id] = s
      /\ \A id \in DOMAIN m : n[id] = m[id]
  BY DEF insert
<1>3. n \in Maps
  <2>1. PICK ids \in SUBSET EventIds : m \in [ids -> Signals]
    BY DEF Maps
  <2>2. DOMAIN n \in SUBSET EventIds
    BY <1>2, <2>1 DEF EventIds
  <2>3. n \in [DOMAIN n -> Signals]
    BY <2>1 DEF insert
  <2> HIDE DEF n
  <2> QED
    BY <2>2, <2>3 DEF Maps
<1>4. DOMAIN n = Ids(g)
  <2>1. Ids(g) = Ids(h) \cup {s.event_id}
    <3> HIDE DEF g
    <3> QED
      BY <1>1 DEF Ids
  <2> QED
    BY <1>2, <2>1
<1> HIDE DEF g, n
<1>5. ASSUME NEW i \in DOMAIN g PROVE n[g[i].event_id] = g[i]
  <2>1. CASE i = Len(h) + 1
    BY <1>1, <1>2, <2>1
  <2>2. CASE i \in 1 .. Len(h)
    <3>1. h[i].event_id \in DOMAIN m /\ g[i] = h[i] /\ m[h[i].event_id] = h[i]
      BY <1>1, <2>2 DEF Ids
    <3> QED
      BY <1>2, <3>1
  <2> QED
    BY <1>1, <2>1, <2>2
<1>6. replay_ok(g)
  <2> SUFFICES ASSUME NEW i \in DOMAIN g, NEW k \in DOMAIN g, g[i].event_id = g[k].event_id
               PROVE i = k
    BY DEF replay_ok
  <2>1. CASE i \in 1 .. Len(h) /\ k \in 1 .. Len(h)
    BY <1>1, <2>1 DEF replay_ok
  <2>2. \A l \in 1 .. Len(h) : g[l].event_id # s.event_id
    BY <1>1 DEF Ids
  <2> QED
    BY <1>1, <2>1, <2>2
<1> QED
  BY <1>3, <1>4, <1>5, <1>6 DEF g, n

\* One more signal, with an id the history holds.
LEMMA ApplyOld ==
  ASSUME NEW h \in Seq(Signals), NEW s \in Signals, s.event_id \in Ids(h)
  PROVE ~replay_ok(Append(h, s))
<1> DEFINE g == Append(h, s)
<1>1. PICK i \in 1 .. Len(h) : h[i].event_id = s.event_id
  BY DEF Ids
<1>2. /\ DOMAIN g = 1 .. Len(h) + 1 /\ Len(h) \in Nat
      /\ g[Len(h) + 1] = s /\ g[i] = h[i]
  OBVIOUS
<1> HIDE DEF g
<1>3. i \in DOMAIN g /\ Len(h) + 1 \in DOMAIN g /\ i # Len(h) + 1
  BY <1>2
<1>4. ~replay_ok(g)
  BY <1>1, <1>2, <1>3 DEF replay_ok
<1> QED
  BY <1>4 DEF g

\* The loop keeps the map and the history together.
LEMMA ReplayStep ==
  ASSUME ReplayInv, Verdicts, Replay
  PROVE ReplayInv'
<1>1. CASE NewState
  <2>1. events = <<>> /\ events' = <<>> /\ state' = [id \in {} |-> None]
    BY <1>1, MapsAreMaps, ReplayConstants DEF NewState, ReplayInv, Replayed
  <2>2. DOMAIN events' = {} /\ DOMAIN state' = {}
    BY <2>1
  <2>3. state' \in Maps
    <3>1. {} \in SUBSET EventIds
      OBVIOUS
    <3>2. state' \in [{} -> Signals]
      BY <2>1
    <3> QED
      BY <3>1, <3>2 DEF Maps
  <2>4. Replayed'
    BY <2>2, <2>3 DEF Replayed, Ids, replay_ok
  <2> QED
    BY <2>1, <2>4 DEF ReplayInv
<1>2. CASE /\ Len(events) < Len(image.journal)
           /\ Apply(image.journal[Len(events) + 1].signal)
  <2> DEFINE s == image.journal[Len(events) + 1].signal
  <2>1. events \in Seq(Signals) /\ Len(events) \in Nat
    BY DEF ReplayInv
  <2>2. s \in Signals
    <3>1. image.journal \in Seq(Record)
      BY ReplayedSignals DEF Replay
    <3>2. Len(events) + 1 \in 1 .. Len(image.journal)
      BY <1>2, <2>1, <3>1
    <3>3. image.journal[Len(events) + 1] \in Record
      BY <3>1, <3>2
    <3> QED
      BY <3>3 DEF Record
  <2> HIDE DEF s
  <2>3. /\ state \notin {None, ApplyError}
        /\ events' = Append(events, s)
        /\ state' = IF s.event_id \in DOMAIN state THEN ApplyError
                    ELSE insert(state, s)
    BY <1>2 DEF Apply, s
  <2>4. Replayed
    BY <2>3 DEF ReplayInv
  <2>5. events' \in Seq(Signals)
    BY <2>1, <2>2, <2>3
  <2>6. CASE s.event_id \in DOMAIN state
    <3>1. ~replay_ok(Append(events, s))
      BY <2>1, <2>2, <2>4, <2>6, ApplyOld DEF Replayed
    <3> QED
      BY <2>3, <2>5, <2>6, <3>1 DEF ReplayInv
  <2>7. CASE s.event_id \notin DOMAIN state
    <3> DEFINE g == Append(events, s)
               n == insert(state, s)
    <3>1. state' = n /\ events' = g
      BY <2>3, <2>7
    <3>2. /\ n \in Maps /\ DOMAIN n = Ids(g)
          /\ \A i \in DOMAIN g : n[g[i].event_id] = g[i]
          /\ replay_ok(g)
      BY <2>1, <2>2, <2>4, <2>7, ApplyNew DEF Replayed
    <3> HIDE DEF g, n
    <3>3. Replayed'
      BY <3>1, <3>2 DEF Replayed, Ids, replay_ok
    <3> QED
      BY <2>5, <3>3 DEF ReplayInv
  <2> QED
    BY <2>6, <2>7
<1> QED
  BY <1>1, <1>2 DEF Replay

\* The invariant of the replay loop.
LEMMA ReplayHolds == Spec => []ReplayInv
<1>1. Init => ReplayInv
  BY DEF Init, NoReplay, ReplayInv
<1>2. ReplayInv /\ Verdicts /\ [Next]_vars => ReplayInv'
  <2> SUFFICES ASSUME ReplayInv, Verdicts, [Next]_vars PROVE ReplayInv'
    OBVIOUS
  <2>1. CASE Replay
    BY <2>1, ReplayStep
  <2>2. CASE UNCHANGED <<events, state>>
    BY <2>2 DEF ReplayInv, Replayed, Ids, replay_ok
  <2> QED
    BY <2>1, <2>2 DEF Next, Read, Write, vars
<1> QED
  BY <1>1, <1>2, VerdictsHold, PTL DEF Spec

\* ReplayMatchesHistory for every set of signals and every length: the loop of
\* WorkflowState::replay fails exactly when an event id repeats, and its map is
\* otherwise the closed form the other modules use.
THEOREM ReplayIsClosedForm == Spec => []ReplayMatchesHistory
<1>1. ReplayInv => ReplayMatchesHistory
  <2> SUFFICES ASSUME ReplayInv PROVE ReplayMatchesHistory
    OBVIOUS
  <2>1. CASE state = None
    BY <2>1, ReplayConstants DEF ReplayMatchesHistory
  <2>2. CASE state = ApplyError /\ ~replay_ok(events)
    BY <2>2, ReplayConstants DEF ReplayMatchesHistory
  <2>3. CASE Replayed
    <3>1. ASSUME NEW s \in Signals
          PROVE lookup(s.event_id) = accepted(events, s.event_id)
      <4>1. CASE s.event_id \in DOMAIN state
        <5>1. PICK i \in DOMAIN events : events[i].event_id = s.event_id
          BY <2>3, <4>1 DEF Replayed, Ids
        <5>2. {j \in DOMAIN events : events[j].event_id = s.event_id} = {i}
          BY <2>3, <5>1 DEF Replayed, replay_ok
        <5>3. state[s.event_id] = events[i]
          BY <2>3, <5>1 DEF Replayed
        <5> QED
          BY <4>1, <5>2, <5>3 DEF lookup, accepted
      <4>2. CASE s.event_id \notin DOMAIN state
        <5>1. {j \in DOMAIN events : events[j].event_id = s.event_id} = {}
          BY <2>3, <4>2 DEF Replayed, Ids
        <5> QED
          BY <4>2, <5>1 DEF lookup, accepted
      <4> QED
        BY <4>1, <4>2
    <3>2. replay_ok(events) /\ state # None /\ state # ApplyError
      BY <2>3, MapsAreMaps DEF Replayed
    <3> QED
      BY <3>1, <3>2 DEF ReplayMatchesHistory
  <2> QED
    BY <2>1, <2>2, <2>3 DEF ReplayInv
<1> QED
  BY <1>1, ReplayHolds, PTL

\* DecideAgreesWithReconcile along every history: a submission and a
\* reconciliation of one signal never contradict each other (decision.rs,
\* recovery/mod.rs).  It follows from what both make of the accepted signals.
THEOREM DecisionsAgree == Spec => []DecideAgreesWithReconcile
<1>1. DecideAgreesWithReconcile
  BY DEF DecideAgreesWithReconcile, decide, reconcile
<1> QED
  BY <1>1, PTL
=============================================================================
