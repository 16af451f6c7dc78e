-------------------------- MODULE StoreImageProofs --------------------------
(***************************************************************************)
(* What holds of the store's reading of an image, for every image.         *)
(***************************************************************************)
EXTENDS StoreImage, WellFoundedInduction, TLAPS

\* A set of naturals that is not empty has a minimum.
LEMMA MinIsMember ==
  ASSUME NEW S \in SUBSET Nat, S # {}
  PROVE Min(S) \in S
<1> DEFINE R == {ss \in Nat \X Nat : ss[1] < ss[2]}
<1>1. IsWellFoundedOn(R, Nat)
  BY NatLessThanWellFounded, Zenon DEF OpToRel
<1> HIDE DEF R
<1>2. PICK x \in S : \A y \in S : ~(<<y, x>> \in R)
  BY <1>1, WFMin
<1>3. ASSUME NEW y \in S PROVE x <= y
  <2>1. x \in Nat /\ y \in Nat
    OBVIOUS
  <2>2. ~(y < x)
    <3> SUFFICES ASSUME y < x PROVE FALSE
      OBVIOUS
    <3>1. <<y, x>> \in R
      BY <2>1 DEF R
    <3> QED
      BY <1>2, <3>1
  <2> QED
    BY <2>1, <2>2
<1>4. \E m \in S : \A y \in S : m <= y
  BY <1>3
<1> QED
  BY <1>4 DEF Min

\* Contents decode exactly when every line does and the bound is kept.
LEMMA ContentsDecode ==
  ASSUME NEW cells, DOMAIN cells \in SUBSET Nat
  PROVE decode_contents(cells) = OK
          <=> \A i \in DOMAIN cells : ~(i > MaxEntries) /\ decode_line(cells, i) = OK
<1> DEFINE bad == {i \in DOMAIN cells : i > MaxEntries \/ decode_line(cells, i) # OK}
<1>1. bad \in SUBSET Nat
  OBVIOUS
<1>2. ASSUME decode_contents(cells) = OK PROVE bad = {}
  <2> SUFFICES ASSUME bad # {} PROVE FALSE
    OBVIOUS
  <2>1. Min(bad) \in bad
    BY <1>1, MinIsMember
  <2>2. ~(Min(bad) > MaxEntries)
    BY <1>2 DEF decode_contents, OK, BOUND_EXCEEDED
  <2>3. decode_line(cells, Min(bad)) # OK
    BY <2>1, <2>2
  <2> QED
    BY <1>2, <2>3 DEF decode_contents, OK, BOUND_EXCEEDED
<1>3. ASSUME bad = {} PROVE decode_contents(cells) = OK
  BY <1>3 DEF decode_contents
<1> QED
  BY <1>2, <1>3

\* Every check of an image ends in a known code.
LEMMA PrefixCodes ==
  ASSUME NEW journal, NEW point
  PROVE check_prefix(journal, point) \in JournalErrorCode \cup {OK}
<1>1. ASSUME NEW cells, NEW i
      PROVE decode_line(cells, i) \in JournalErrorCode \cup {OK}
  BY DEF decode_line, JournalErrorCode, CORRUPT, SCHEMA_UNSUPPORTED, OK
<1>2. ASSUME NEW cells
      PROVE decode_contents(cells) \in JournalErrorCode \cup {OK}
  BY <1>1 DEF decode_contents, JournalErrorCode, BOUND_EXCEEDED, OK
<1> QED
  BY <1>2 DEF check_prefix, JournalErrorCode, CORRUPT, OK

\* The codes of the two metadata documents.
LEMMA MetadataCodes ==
  ASSUME NEW image
  PROVE /\ decode_commit(image.commit) \in JournalErrorCode \cup {OK}
        /\ decode_metadata(image) \in JournalErrorCode \cup {OK}
BY DEF decode_metadata, decode_commit, decode_publish, JournalErrorCode, CORRUPT,
   SCHEMA_UNSUPPORTED, BOUND_EXCEEDED, UNAVAILABLE, OK

\* The codes of a snapshot.
LEMMA SnapshotCodes ==
  ASSUME NEW image
  PROVE /\ read_prepared(image.journal, image.commit, image.publish)
             \in JournalErrorCode \cup {OK}
        /\ read_snapshot(image) \in JournalErrorCode \cup {OK}
<1>1. read_prepared(image.journal, image.commit, image.publish) \in JournalErrorCode \cup {OK}
  BY PrefixCodes DEF read_prepared, require_prepared_commit_relation,
     validate_prepared_commit_prefix, JournalErrorCode, CORRUPT, OUTCOME_UNKNOWN, OK
<1>2. read_clean(image.journal, image.commit, image.publish) \in JournalErrorCode \cup {OK}
  BY PrefixCodes DEF read_clean, JournalErrorCode, CORRUPT, OUTCOME_UNKNOWN, OK
<1> QED
  BY <1>1, <1>2, MetadataCodes DEF read_snapshot, JournalErrorCode, CORRUPT, UNAVAILABLE, OK

\* The codes of opening for writing and for reading.
LEMMA OpenCodes ==
  ASSUME NEW image, NEW publish_exists
  PROVE /\ reader_open(image) \in JournalErrorCode \cup {OK}
        /\ open_existing(image, publish_exists)
             \in JournalErrorCode \cup {OK, "create_witness", "resume_witness"}
<1>1. reader_open(image) \in JournalErrorCode \cup {OK}
  BY MetadataCodes DEF reader_open, JournalErrorCode, UNAVAILABLE, OK
<1>2. resume_or_validate_existing(image)
        \in JournalErrorCode \cup {OK, "create_witness", "resume_witness"}
  BY MetadataCodes, SnapshotCodes
  DEF resume_or_validate_existing, JournalErrorCode, CORRUPT
<1> QED
  BY <1>1, <1>2, MetadataCodes DEF open_existing, JournalErrorCode, UNAVAILABLE
=============================================================================
