-------------------------- MODULE StoreImageMatrix --------------------------
(***************************************************************************)
(* One request over an arbitrary image, well formed or not: the store's    *)
(* reading of it, against the contract of spec/store/v2 (the               *)
(* clean-authority conditions and the existing-image matrix, stated here   *)
(* independently of the code), and then the engine's replay of what the    *)
(* store handed over.                                                      *)
(***************************************************************************)
EXTENDS StoreImage, WorkflowReplay, SequencesExt

CONSTANTS
  Pending,        \* no verdict yet
  Cells,          \* journal cells that occur in arbitrary images
  MaxCells        \* bound: length of the journals of arbitrary images

\* What a journal line, a commit document and a witness hold when they decode
\* as JSON: the fields have their types and nothing more.
Cell == [seq : Nat, signal : Signals] \cup {Torn, Foreign}
CommitDocument == [version : Nat, generation : Nat, bytes : Nat, entries : Nat,
                   digest : Seq(Cell)]
WitnessDocument == [version : Nat, started : Nat, published : Nat]

ASSUME MatrixConstants ==
  /\ MaxCells \in Nat
  /\ Cells \subseteq Cell
  /\ \A none \in {Absent, Torn} :
       none \notin CommitDocument /\ none \notin WitnessDocument
  /\ Pending # OK

VARIABLES image, reader, writer
vars == <<image, reader, writer, events, state>>

Journals == SeqOf(Cells, MaxCells)

\* The digests of `bytes` cells that a commit document found beside this
\* journal may hold: the matching one, where there is one, and another.
Digests(journal, bytes) ==
  {[i \in 1..bytes |-> Foreign]}
  \cup {SubSeq(journal, 1, n) : n \in {bytes} \cap 0..Len(journal)}

\* Decodable documents of the supported version, and one of an older version.
Commits(journal) ==
  {[empty EXCEPT !.version = 1]}
  \cup UNION {[version : {2}, generation : 0..MaxEntries + 2, bytes : {bytes},
               entries : 0..MaxEntries + 1, digest : Digests(journal, bytes)] :
                bytes \in 0..MaxCells}

Witnesses ==
  [version : {2}, started : 0..MaxEntries + 2, published : 0..MaxEntries + 2]
  \cup {[clean(1) EXCEPT !.version = 1]}

ArbitraryImage ==
  \E l \in {<<>>, Absent}, j \in Journals \cup {Absent},
     p \in Witnesses \cup {Torn, Absent} :
    \E c \in Commits(IF j = Absent THEN <<>> ELSE j) \cup {Torn, Absent} :
      image = [lock |-> l, journal |-> j, commit |-> c, publish |-> p]

\* A cleanly published store of any history the format can hold, also one
\* that no sequence of appends would have produced.
PublishedHistory ==
  \E signals \in SeqOf(Signals, MaxEntries) :
    LET journal == [i \in DOMAIN signals |-> [seq |-> i, signal |-> signals[i]]] IN
      image = [lock |-> <<>>, journal |-> journal,
               commit |-> for_prefix(journal, Len(journal)),
               publish |-> clean(Len(journal) + 1)]

Init ==
  /\ ArbitraryImage \/ PublishedHistory
  /\ reader = Pending
  /\ writer = Pending
  /\ NoReplay

\* A reader opens the store and loads the committed snapshot.
Read ==
  /\ reader = Pending
  /\ reader' = IF reader_open(image) # OK THEN reader_open(image)
               ELSE read_snapshot(image)
  /\ UNCHANGED <<image, writer, events, state>>

\* A writer opens the store; "fresh" is the decision to initialize it.
Write ==
  /\ writer = Pending
  /\ LET exists == {n \in DOMAIN image : image[n] # Absent} IN
       writer' = IF exists = {} THEN "fresh"
                 ELSE IF ~({"lock", "journal", "commit"} \subseteq exists)
                 THEN UNAVAILABLE
                 ELSE open_existing(image, "publish" \in exists)
  /\ UNCHANGED <<image, reader, events, state>>

\* The engine replays the entries the reader returned, one after the other.
Replay ==
  /\ reader = OK
  /\ \/ NewState
     \/ /\ Len(events) < Len(image.journal)
        /\ Apply(image.journal[Len(events) + 1].signal)
  /\ UNCHANGED <<image, reader, writer>>

Next == Read \/ Write \/ Replay

Spec == Init /\ [][Next]_vars

-----------------------------------------------------------------------------
WellFormedCommit(c) ==
  c # Absent /\ c # Torn /\ c.version = 2 /\ c.entries <= MaxEntries
    /\ c.generation = c.entries + 1

\* "Clean authority" of spec/store/v2/README.md, condition by condition.
CleanAuthority ==
  /\ \A n \in DOMAIN image : image[n] # Absent
  /\ WellFormedCommit(image.commit)
  /\ image.publish = clean(image.commit.generation)
  /\ Len(image.journal) = image.commit.bytes
  /\ image.journal = image.commit.digest
  /\ \A i \in DOMAIN image.journal :
       image.journal[i] \notin {Torn, Foreign} /\ image.journal[i].seq = i
  /\ Len(image.journal) = image.commit.entries

\* A reader returns a known result exactly when every clean-authority
\* condition holds (read_snapshot and JsonlJournalReader::open).
KnownIsCleanAuthority == reader # Pending => (reader = OK <=> CleanAuthority)

\* The three images a writer may complete the initialization of.
CompletableInit ==
  /\ image.lock # Absent /\ image.journal = <<>> /\ image.commit = empty
  /\ image.publish \in {Absent, initializing, clean(1)}

\* A writer goes on past open only on a clean store, on an exact
\* initialization image or in a directory with no reserved artifact; any
\* other image, torn, tampered with or PREPARED, is refused before a write,
\* and with the code a reader of the image gets.
WriterPermission ==
  LET completes == {"fresh", "create_witness", "resume_witness"} IN
    /\ writer # Pending =>
         (writer \in {OK} \cup completes
            <=> \/ CleanAuthority
                \/ CompletableInit
                \/ \A n \in DOMAIN image : image[n] = Absent)
    /\ reader # Pending /\ writer # Pending =>
         reader = writer \/ (reader = UNAVAILABLE /\ writer \in completes)

\* A decodable history of G - 1 records.
IsHistory(cells) ==
  /\ Len(cells) <= MaxEntries
  /\ \A i \in DOMAIN cells : cells[i] \notin {Torn, Foreign} /\ cells[i].seq = i

\* The images one append from generation G passes through after its PREPARED
\* witness is written: the old commit over the old journal, possibly with a
\* partial or complete new record, or the new commit over the new journal.
AppendCutPoint ==
  /\ \A n \in DOMAIN image : image[n] # Absent
  /\ \E old \in Prefixes(image.journal) :
       /\ IsHistory(old) /\ Len(old) < MaxEntries
       /\ image.publish = prepared(Len(old) + 2)
       /\ \/ image.commit = for_prefix(old, Len(old))
          \/ /\ Len(image.journal) = Len(old) + 1 /\ IsHistory(image.journal)
             /\ image.commit = for_prefix(image.journal, Len(old) + 1)

\* Every cut point of a single append is reported as an unknown outcome, to
\* the reader and to the next writer alike: never as known, and never as
\* corruption (require_prepared_commit_relation and
\* validate_prepared_commit_prefix admit exactly these).
AppendCutPointIsUnknown ==
  AppendCutPoint =>
    reader \in {Pending, OUTCOME_UNKNOWN} /\ writer \in {Pending, OUTCOME_UNKNOWN}
=============================================================================
