------------------------------- MODULE Titles -------------------------------
(***************************************************************************)
(* What the program reads out of a listing's title: the relevance label    *)
(* (relevance.py, classify) and the quality tier (quality.py, label_tier). *)
(* Titles and queries are sequences of normalized words; the word lists,   *)
(* and which words the fuzzy comparison takes for one another, are         *)
(* constants.                                                              *)
(***************************************************************************)
EXTENDS Integers, Sequences, FiniteSets, SequencesExt

CONSTANTS
  Word,
  ModelNumbers,         \* words that match _MODEL_NUMBER_RE
  Stopwords,
  HARD_REJECT, SOFT,    \* accessories, and words that may name one
  PART_WORDS, PART_WORDS_LEADING,
  Alike,                \* pairs of words that count as the same word
  Signals               \* the words of each tier that has any

ASSUME TitlesAssumption ==
  /\ UNION {ModelNumbers, Stopwords, HARD_REJECT, SOFT, PART_WORDS, PART_WORDS_LEADING} \subseteq Word
  /\ Alike \subseteq Word \X Word

(* Words of a title the query did not ask for. *)
Unasked(words, query) == words \ ToSet(query)

(* The title up to the first word of the query. *)
Lead(query, title) ==
  LET asked == {n \in DOMAIN title : title[n] \in ToSet(query) \ Stopwords}
  IN  {title[n] : n \in {k \in DOMAIN title : \A a \in asked : k < a}}

PhonePartWords(query, title) ==
  Unasked((ToSet(title) \cap PART_WORDS) \cup (Lead(query, title) \cap PART_WORDS_LEADING), query)

ModelMissing(query, title) == (ToSet(query) \cap ModelNumbers) \ ToSet(title) # {}

Accessories(query, title) == Unasked(ToSet(title) \cap HARD_REJECT, query)
Ambiguous(query, title)   == Unasked(ToSet(title) \cap SOFT, query)

StrongPartMatch(query, title, kind) ==
  kind = "part" /\ (ToSet(query) \ (ModelNumbers \cup Stopwords)) \cap ToSet(title) # {}

(* Where the telling words of the query are: all of it, if none tells. *)
Significant(query) ==
  LET telling == {n \in DOMAIN query : query[n] \notin Stopwords}
  IN  IF telling = {} THEN DOMAIN query ELSE telling

Hits(query, title) ==
  {n \in Significant(query) :
     query[n] \in ToSet(title) \/ \E w \in ToSet(title) : <<query[n], w>> \in Alike}

Label == {"match", "low_confidence", "reject"}

Covered(query, title) ==
  LET matched == Cardinality(Hits(query, title))
      wanted  == Cardinality(Significant(query))
  IN  CASE matched = wanted      -> "match"
        [] matched < wanted /\ 2 * matched >= wanted -> "low_confidence"
        [] 2 * matched < wanted  -> "reject"

(* Mutant: an ambiguous word caps the label of a part item only. *)
Classify_SoftForParts(query, title, kind) ==
  CASE \/ query = <<>> \/ title = <<>>
       \/ kind = "phone" /\ PhonePartWords(query, title) # {}
       \/ ModelMissing(query, title)
       \/ Accessories(query, title) # {} /\ ~StrongPartMatch(query, title, kind) -> "reject"
    [] OTHER ->
       IF Accessories(query, title) # {} \/ (kind = "part" /\ Ambiguous(query, title) # {})
       THEN "low_confidence"
       ELSE Covered(query, title)

Classify(query, title, kind) ==
  CASE \/ query = <<>> \/ title = <<>>
       \/ kind = "phone" /\ PhonePartWords(query, title) # {}
       \/ ModelMissing(query, title)
       \/ Accessories(query, title) # {} /\ ~StrongPartMatch(query, title, kind) -> "reject"
    [] OTHER ->
       IF Accessories(query, title) \cup Ambiguous(query, title) # {}
       THEN "low_confidence"
       ELSE Covered(query, title)

-----------------------------------------------------------------------------
(* Humbler part tiers first, then the conditions of whole devices. *)
TierOrder == <<"incell", "oled", "original", "reacondicionado", "nuevo">>

Tier == ToSet(TierOrder) \cup {"unlabeled"}

LabelTier(title) ==
  LET named == {n \in DOMAIN TierOrder : ToSet(title) \cap Signals[TierOrder[n]] # {}}
  IN  IF named = {} THEN "unlabeled" ELSE TierOrder[CHOOSE n \in named : \A m \in named : n <= m]

=============================================================================
