------------------------------ MODULE PlateSearch ------------------------------
(***************************************************************************)
(* Searching plate reads.  A fuzzy search scores the rows by the trigrams  *)
(* they share with the query, raises the score of a plate that differs     *)
(* only in characters that OCR confuses, and returns the best page, newer  *)
(* rows first among equals.  A database with pg_trgm scores by itself and  *)
(* raises nothing; the search is done over if it found no row.  Plates are *)
(* sequences of characters, clean already; a row's place in the table is   *)
(* its age.                                                                *)
(***************************************************************************)
EXTENDS PlateDecode

CONSTANTS
  Characters,
  Confused,      \* per character: what dsai_ocr_map makes of it
  Blank,         \* the padding
  MaxLength,     \* bound: characters of a plate
  NRows,         \* bound: rows
  PageSize,      \* limit
  Scale,         \* the similarity 1.0
  Threshold      \* similarity_threshold, in units of which Scale are 1.0

Plates == UNION {[1 .. n -> Characters] : n \in 1 .. MaxLength}

ASSUME SearchAssumption ==
  /\ Confused \in [Characters -> Characters] /\ Blank \notin Characters
  /\ {MaxLength, NRows} \subseteq Nat /\ PageSize \in Nat \ {0}
  /\ Scale \in Nat \ {0} /\ Threshold \in 0 .. Scale
  \* 0.88 and any share of trigrams are whole numbers of units.
  /\ Scale % 100 = 0 /\ \A n \in 1 .. 2 * (MaxLength + 1) : Scale % n = 0

VARIABLES
  native,        \* the database has pg_trgm
  reads,         \* the tenant's rows, oldest first
  page           \* rows of the last result

searchVars == <<native, reads, page>>

SearchInit == native \in BOOLEAN /\ reads = <<>> /\ page = {}

Trigrams(p) ==
  LET padded == <<Blank, Blank>> \o p \o <<Blank>> IN
  {SubSeq(padded, i, i + 2) : i \in 1 .. Len(padded) - 2}

Canonical(p) == [i \in DOMAIN p |-> Confused[p[i]]]

\* similarity() of pg_trgm.
Shared(p, q) ==
  (Scale * Cardinality(Trigrams(p) \cap Trigrams(q))) \div Cardinality(Trigrams(p) \cup Trigrams(q))

\* Mutant: no raise.
Unraised(p, q) == Shared(p, q)

\* What the score of a confused plate is raised to.
Raised == (88 * Scale) \div 100

\* dsai_trigram_similarity.
Similarity(p, q) ==
  IF Canonical(p) = Canonical(q) /\ Shared(p, q) < Raised THEN Raised ELSE Shared(p, q)

\* Better rows first, newer ones first among equals.
Before(score, i, j) == score[i] > score[j] \/ (score[i] = score[j] /\ i > j)

Best(score, S) == {i \in S : Cardinality({j \in S : Before(score, j, i)}) < PageSize}

PageBy(score) == Best(score, {i \in DOMAIN reads : score[i] >= Threshold})

\* search_fuzzy: by the database, then again in Python.
FuzzyPage(q) ==
  LET first == PageBy([i \in DOMAIN reads |-> Shared(q, reads[i])]) IN
  IF native /\ first # {} THEN first
  ELSE PageBy([i \in DOMAIN reads |-> Similarity(q, reads[i])])

\* search_exact.
ExactPage(q) ==
  LET same == {i \in DOMAIN reads : reads[i] = q} IN
  {i \in same : Cardinality({j \in same : j > i}) < PageSize}

Read(p) == Len(reads) < NRows /\ reads' = Append(reads, p) /\ page' = {} /\ UNCHANGED native

SearchFuzzy(q) == page' = FuzzyPage(q) /\ UNCHANGED <<native, reads>>
SearchExact(q) == page' = ExactPage(q) /\ UNCHANGED <<native, reads>>

SearchNext == \E p \in Plates : Read(p) \/ SearchFuzzy(p) \/ SearchExact(p)

SearchSpec == SearchInit /\ [][SearchNext]_searchVars

--------------------------------------------------------------------------------
SearchTypeOK == reads \in Seq(Plates) /\ Len(reads) <= NRows /\ page \subseteq DOMAIN reads

\* A plate that was asked for crowds out of its page only rows read later: of plates that
\* differ from it, none but those made of the very same trigrams.
ExactComesFirst ==
  [][\A q \in Plates : SearchFuzzy(q) =>
       \A i \in page', j \in DOMAIN reads \ page' :
         reads[j] = q => reads[i] = q \/ Trigrams(reads[i]) = Trigrams(q)]_searchVars

\* Without pg_trgm, a plate that OCR confuses with the query comes before any that differs
\* more, however the trigrams fall: only rows of such plates keep it off the page, unless the
\* request asks for more than such a plate is raised to.
ConfusedIsFound ==
  [][~native /\ Threshold <= Raised => \A q \in Plates : SearchFuzzy(q) =>
       \A j \in DOMAIN reads \ page' : Canonical(reads[j]) = Canonical(q) =>
         Cardinality({i \in page' : Similarity(q, reads[i]) >= Raised}) = PageSize]_searchVars

\* "Ranks exact and OCR-confused plate reads (e.g. 0/O, 1/I) by trigram similarity", whatever
\* the database.
ConfusedIsAlwaysFound ==
  [][\A q \in Plates : SearchFuzzy(q) =>
       \A j \in DOMAIN reads \ page' : Canonical(reads[j]) = Canonical(q) =>
         Cardinality({i \in page' : Similarity(q, reads[i]) >= Raised}) = PageSize]_searchVars

\* A plate is read as it was seen, and then found under what it was read as.
PlatesAreFound == [](SearchTypeOK /\ TextIsRuns) /\ ExactComesFirst /\ ConfusedIsFound
================================================================================
