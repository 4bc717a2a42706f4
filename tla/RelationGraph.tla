--------------------------- MODULE RelationGraph ---------------------------
(***************************************************************************)
(* The relation graph of a scenario (graphrag/graph_store.py,              *)
(* graphrag/extractor.py, graphrag/schema.py): texts are merged into       *)
(* entities and relations one after the other, the index is written, and   *)
(* questions are answered with relations of the index.                     *)
(*                                                                         *)
(* A text is what the extractor finds in it: the names mentioned, in the   *)
(* order of their extraction, and its sentences with the names and the     *)
(* kind of relation that each one shows.  A directory counts as a file.    *)
(***************************************************************************)
EXTENDS Integers, FiniteSets, SequencesExt, RuleValues

CONSTANTS
    NameOrder,   \* the names there may be, in alphabetical order
    EntityId,    \* stable_entity_id: two names may have one id
    Texts,       \* bound: texts; [place, mentions, sentences]
    Questions,   \* bound: what may be asked; [names, kinds]
    MaxTexts,    \* bound: texts of the scenario
    FileLimit,   \* max_files
    PathLimit    \* max_paths

Names == {NameOrder[i] : i \in DOMAIN NameOrder}
RelationKinds == {"requires", "approves", "depends_on", "troubleshoots", "governs", "related_to"}

\* What the extractor finds in a text: no name twice.
Sentence == [names : SUBSET Names, kind : RelationKinds]

ASSUME GraphAssumption ==
    /\ PathLimit \in Nat \ {0} /\ FileLimit \in Nat /\ MaxTexts \in Nat
    /\ NameOrder \in Seq(Names)
    /\ \A t \in Texts :
          /\ t.place \in {"faq", "file", "directory"}
          /\ t.mentions \in Seq(Names) /\ t.sentences \in Seq(Sentence)
          /\ \A i, j \in DOMAIN t.mentions : t.mentions[i] = t.mentions[j] => i = j

VARIABLES
    corpus,     \* the FAQ rows and the paths below the data directory, in order
    merged,     \* how many of them the rebuild at work has passed, None if there is none
    entities,   \* entities_by_name: [refs, count]
    relations,  \* relation_map: [source, kind, target, ref, sentence, support], 0 for a text
    index,      \* the index on disk, or None
    answer      \* to the last question, or None

graphVars == <<corpus, merged, entities, relations, index, answer>>

GraphInit ==
    /\ corpus = <<>> /\ merged = None
    /\ entities = <<>> /\ relations = <<>>
    /\ index = None /\ answer = None

AddText(text) ==
    /\ merged = None /\ Len(corpus) < MaxTexts
    /\ text.place = "faq" => \A i \in DOMAIN corpus : corpus[i].place = "faq"
    /\ corpus' = Append(corpus, text)
    /\ UNCHANGED <<merged, entities, relations, index, answer>>

-----------------------------------------------------------------------------
(* Extraction.                                                             *)

\* The neighbours in a list of names, with what relates them and where that stands.
Neighbours(names, kind, sentence) ==
    [i \in 1..(Len(names) - 1) |->
        [source |-> names[i], kind |-> kind, target |-> names[i + 1], sentence |-> sentence]]

\* A text none of whose sentences has two names relates its first four names.
Cooccurring(text) ==
    Neighbours(SubSeq(text.mentions, 1, IF Len(text.mentions) < 4 THEN Len(text.mentions) ELSE 4),
               "related_to", 0)

\* The names of a sentence, in the order in which the text mentions them first.
InSentence(text, i) ==
    Neighbours(Keeping(text.mentions, text.sentences[i].names), text.sentences[i].kind, i)

Said(text) == Joined([i \in DOMAIN text.sentences |-> InSentence(text, i)])

ExtractRelations(text) == IF Said(text) = <<>> THEN Cooccurring(text) ELSE Said(text)

RelationId(r) == <<EntityId[r.source], r.kind, EntityId[r.target]>>

Update(f, k, v) == [x \in DOMAIN f \cup {k} |-> IF x = k THEN v ELSE f[x]]

MergeEntityUncounted(known, name, ref) ==
    Update(known, name, IF name \in DOMAIN known
                          THEN [refs |-> known[name].refs \cup {ref},
                                count |-> known[name].count + 1]
                          ELSE [refs |-> {ref}, count |-> 0])

\* A name known already has one more text.
MergeEntity(known, name, ref) ==
    Update(known, name, IF name \in DOMAIN known
                          THEN [refs |-> known[name].refs \cup {ref},
                                count |-> known[name].count + 1]
                          ELSE [refs |-> {ref}, count |-> 1])

MergeRelationMoving(known, r, ref) ==
    LET id == RelationId(r)
    IN  Update(known, id,
            IF id \in DOMAIN known
              THEN [known[id] EXCEPT !.support = @ + 1, !.ref = ref]
              ELSE [source |-> r.source, kind |-> r.kind, target |-> r.target, ref |-> ref,
                    sentence |-> r.sentence, support |-> 1])

\* A relation known already keeps its names, its evidence and its source and gains support.
MergeRelation(known, r, ref) ==
    LET id == RelationId(r)
    IN  Update(known, id,
            IF id \in DOMAIN known THEN [known[id] EXCEPT !.support = @ + 1]
            ELSE [source |-> r.source, kind |-> r.kind, target |-> r.target, ref |-> ref,
                  sentence |-> r.sentence, support |-> 1])

MergeEntities(known, names, ref) ==
    LET merge[i \in 0..Len(names)] ==
            IF i = 0 THEN known ELSE MergeEntity(merge[i - 1], names[i], ref)
    IN  merge[Len(names)]

MergeRelations(known, found, ref) ==
    LET merge[i \in 0..Len(found)] ==
            IF i = 0 THEN known ELSE MergeRelation(merge[i - 1], found[i], ref)
    IN  merge[Len(found)]

-----------------------------------------------------------------------------
(* Rebuilding.                                                             *)

StartRebuild ==
    /\ merged = None
    /\ merged' = 0 /\ entities' = <<>> /\ relations' = <<>>
    /\ UNCHANGED <<corpus, index, answer>>

\* Paths beyond the limit are not looked at; the FAQ rows come first and have none.
PathsPassed(n) == Cardinality({i \in 1..n : corpus[i].place # "faq"})

MergeText ==
    /\ merged # None /\ merged < Len(corpus)
    /\ LET n    == merged + 1
           text == corpus[n]
       IN  IF PathsPassed(n) > FileLimit
             THEN merged' = Len(corpus) /\ UNCHANGED <<entities, relations>>
             ELSE /\ merged' = n
                  /\ IF text.place = "directory" THEN UNCHANGED <<entities, relations>>
                     ELSE /\ entities' = MergeEntities(entities, text.mentions, n)
                          /\ relations' = MergeRelations(relations, ExtractRelations(text), n)
    /\ UNCHANGED <<corpus, index, answer>>

Position(name) == CHOOSE i \in DOMAIN NameOrder : NameOrder[i] = name

\* Relations by support, then by the names at their ends; the sort is stable, so that of
\* relations alike in these the one found earlier comes first.
SortKey(r) == <<-r.support, Position(r.source), Position(r.target), r.ref, r.sentence>>

Stronger(r, s) ==
    \E i \in 1..5 : /\ SortKey(r)[i] < SortKey(s)[i]
                    /\ \A j \in 1..(i - 1) : SortKey(r)[j] = SortKey(s)[j]

StrongestFirst(S) ==
    LET Rank(r) == Cardinality({s \in S : Stronger(s, r)})
    IN  [k \in 1..Cardinality(S) |-> CHOOSE r \in S : Rank(r) = k - 1]

WriteIndex ==
    /\ merged # None /\ merged = Len(corpus)
    /\ index' = [entities  |-> entities,
                 relations |-> StrongestFirst({relations[id] : id \in DOMAIN relations})]
    /\ merged' = None
    /\ UNCHANGED <<corpus, entities, relations, answer>>

-----------------------------------------------------------------------------
(* Questions.                                                              *)

MatchLimit == 8

\* The entities asked for, the better known first when there are too many.
MatchEntities(question) ==
    LET found   == question.names \cap DOMAIN index.entities
        Rank(n) == Cardinality({m \in found :
                      LET a == index.entities[n].count
                          b == index.entities[m].count
                      IN  b > a \/ (b = a /\ Position(m) < Position(n))})
    IN  {n \in found : Rank(n) < MatchLimit}

Lesser(a, b) == IF a < b THEN a ELSE b

Score(r, matched, question) ==
    Lesser(99, 60 + 6 * Lesser(r.support, 5)
                  + (IF {r.source, r.target} \subseteq matched THEN 15 ELSE 0)
                  + (IF r.kind \in question.kinds THEN 10 ELSE 0))

TouchesAsSource(r, name) == r.source = name

Touches(r, name) == r.source = name \/ r.target = name

Scored(matched, question) ==
    [i \in DOMAIN index.relations |->
        [relation |-> index.relations[i], score |-> Score(index.relations[i], matched, question)]]

PathsOf(scored, name) == Keeping(scored, {p \in ToSet(scored) : Touches(p.relation, name)})

\* The relations of the matched entities, entity by entity.
PathsAlong(scored, order) == Joined([k \in DOMAIN order |-> PathsOf(scored, order[k])])

\* Paths by score; of equals the earlier first.
BestFirst(paths) ==
    LET Better(j, i) == \/ paths[j].score > paths[i].score
                        \/ paths[j].score = paths[i].score /\ j < i
        Rank(i) == Cardinality({j \in DOMAIN paths : Better(j, i)})
    IN  [k \in DOMAIN paths |-> paths[CHOOSE i \in DOMAIN paths : Rank(i) = k - 1]]

\* A full answer is returned as it is, a shorter one sorted.
RetrievePaths(question, matched, order) ==
    LET paths == PathsAlong(Scored(matched, question), order)
    IN  IF Len(paths) >= PathLimit THEN SubSeq(paths, 1, PathLimit) ELSE BestFirst(paths)

FallbackPaths ==
    [i \in 1..Lesser(Len(index.relations), PathLimit) |->
        [relation |-> index.relations[i],
         score    |-> 50 + 5 * Lesser(index.relations[i].support, 5)]]

\* The matched entities are a set, which may be gone through in any order.
Orders(S) == {order \in [1..Cardinality(S) -> S] : ToSet(order) = S}

\* An index without entities is no index: it is rebuilt first.
Query(question) ==
    /\ merged = None /\ index # None /\ DOMAIN index.entities # {}
    /\ LET matched == MatchEntities(question)
       IN  \E order \in Orders(matched) :
              LET paths == RetrievePaths(question, matched, order)
              IN  answer' = [question |-> question, matched |-> matched, fallback |-> paths = <<>>,
                             paths |-> IF paths # <<>> THEN paths ELSE FallbackPaths,
                             from |-> index]
    /\ UNCHANGED <<corpus, merged, entities, relations, index>>

GraphNext ==
    \/ \E text \in Texts : AddText(text)
    \/ StartRebuild \/ MergeText \/ WriteIndex
    \/ \E question \in Questions : Query(question)

GraphSpec == GraphInit /\ [][GraphNext]_graphVars

-----------------------------------------------------------------------------
(* Properties.                                                             *)

\* The evidence shown for a relation is a sentence of the source shown for it, with both
\* names in it and of the kind it shows, however many texts, and names that share an id, have
\* been merged into it.
IsShownBy(r, text) ==
    IF r.sentence = 0
      THEN {r.source, r.target} \subseteq ToSet(text.mentions) /\ r.kind = "related_to"
      ELSE /\ r.sentence \in DOMAIN text.sentences
           /\ {r.source, r.target} \subseteq text.sentences[r.sentence].names
           /\ r.kind = text.sentences[r.sentence].kind

EvidenceIsFromItsSource ==
    \A id \in DOMAIN relations :
        /\ relations[id].ref \in DOMAIN corpus
        /\ IsShownBy(relations[id], corpus[relations[id].ref])

\* The evidence count of an entity is the number of texts that mention it, of those within
\* the limit of files; it ranks what a question is answered with.
CountsAreOfTexts ==
    merged # None =>
        \A name \in DOMAIN entities :
            LET mentioning == {i \in 1..merged : /\ PathsPassed(i) <= FileLimit
                                                 /\ corpus[i].place # "directory"
                                                 /\ name \in ToSet(corpus[i].mentions)}
            IN  /\ entities[name].count = Cardinality(mentioning)
                /\ entities[name].refs = mentioning

\* What an answer shows is about what was asked: a fallback is given only when the index has
\* no relation of a matched entity, and an answer that is not full has left none out.
AnswersAreComplete ==
    answer # None =>
        LET about == {r \in ToSet(answer.from.relations) :
                         {r.source, r.target} \cap answer.matched # {}}
            shown == {answer.paths[i].relation : i \in DOMAIN answer.paths}
        IN  IF answer.fallback THEN about = {}
            ELSE shown \subseteq about /\ (Len(answer.paths) < PathLimit => about \subseteq shown)

\* The graph says what its texts say: evidence is from the text it names, counts are of texts,
\* and an answer leaves out only what its limit leaves out.
GraphIsTrueToTexts == EvidenceIsFromItsSource /\ CountsAreOfTexts /\ AnswersAreComplete

\* Refuted by TLC, since the search returns unsorted as soon as it has enough paths:
\* "sorted by score, descending", the first path is the best one.
BestComesFirst ==
    answer # None =>
        \A i \in DOMAIN answer.paths : i > 1 => answer.paths[i - 1].score >= answer.paths[i].score
=============================================================================
