---------------------------- MODULE MCOperations ----------------------------
(***************************************************************************)
(* What is done to the system by its operators, its scripts and the page   *)
(* of the contract workbench, one component at a time: the others rest in  *)
(* their initial state.                                                    *)
(***************************************************************************)
EXTENDS KbVersions, KbRelease, QualityCycle, QualityGates, OcrReview,
        ContractPage, IntentModel, RelationGraph

TwoScenarios == <<"s1", "s2">>

\* Files of every kind, and FAQ rows that agree, disagree or have nothing to be compared with.
Page(text, length, words, numbers, polarity) ==
    [text |-> text, length |-> length, words |-> words, numbers |-> numbers,
     polarity |-> polarity]
LongPage  == Page("p1", 150, {"w1", "w2", "w3"}, {1}, "positive")
ShortPage == Page("p2", 60, {"w1", "w2"}, {2}, "negative")
TinyRow   == Page("p3", 10, {"w3"}, {}, "mixed")
BlankPage == Page("p0", 0, {}, {}, "mixed")
FourPages == {LongPage, ShortPage, TinyRow, BlankPage}
File(kind, pages, images) ==
    [kind |-> kind, pages |-> pages, images |-> images, source |-> "s1", known |-> TRUE,
     broken |-> FALSE, noise |-> FALSE, reviewed |-> FALSE]
ElevenShapes ==
    { File("text", <<LongPage>>, 0), File("text", <<ShortPage>>, 0),
      File("container", <<BlankPage, LongPage>>, 1), File("container", <<ShortPage>>, 1),
      File("container", <<BlankPage>>, 1), File("picture", <<>>, 1),
      File("table", <<TinyRow>>, 0),
      [File("text", <<LongPage>>, 0) EXCEPT !.known = FALSE],
      [File("text", <<LongPage>>, 0) EXCEPT !.broken = TRUE],
      [File("text", <<ShortPage>>, 0) EXCEPT !.noise = TRUE],
      [File("text", <<ShortPage>>, 0) EXCEPT !.noise = TRUE, !.reviewed = TRUE] }
FaqRow(question, source, words, numbers, polarity) ==
    [question |-> question, answer |-> TRUE, source |-> source, known |-> TRUE,
     words |-> words, numbers |-> numbers, polarity |-> polarity]
SixRows ==
    { FaqRow("q1", "s1", {"w1", "w2"}, {1}, "positive"),
      FaqRow("q2", None, {"w1", "w2", "w3"}, {}, "negative"),
      FaqRow(None, "s1", {"w1"}, {}, "mixed"),
      [FaqRow("q3", "s1", {"w1"}, {}, "mixed") EXCEPT !.answer = FALSE],
      [FaqRow("q1", "s2", {"w3"}, {1}, "positive") EXCEPT !.known = FALSE],
      FaqRow("q4", "s1", {"w3"}, {1, 2}, "positive") }

\* Two scans of one stem, the second quoting a review mark.
Scan(stem, lines, sure, quotes) ==
    [stem |-> stem, lines |-> lines, sure |-> sure, quotes |-> quotes]
TwoScans == <<Scan("n1", 3, TRUE, FALSE), Scan("n1", 2, FALSE, TRUE)>>
TwoDirs == <<"d1", "d2">>

\* Datasets: two that are apart, one that shares questions with both under other labels, one
\* with a question twice and one without a label.
Line(key, lbl) == [key |-> key, label |-> lbl, sound |-> TRUE]
FiveContents ==
    { <<Line("q1", "faq"), Line("q2", "follow")>>, <<Line("q3", "faq"), Line("q4", "follow")>>,
      <<Line("q2", "faq"), Line("q4", "follow")>>, <<Line("q1", "faq"), Line("q1", "follow")>>,
      <<Line("q1", "faq")>> }

\* Texts that show the same relation in other words, two names with one id, and a directory.
Text(place, mentions, sentences) ==
    [place |-> place, mentions |-> mentions, sentences |-> sentences]
Says(names, kind) == [names |-> names, kind |-> kind]
ThreeNames == <<"a", "b", "b_">>
IdOfName == [n \in {"a", "b", "b_"} |-> IF n = "a" THEN "a" ELSE "b"]
FiveTexts ==
    { Text("faq", <<"a", "b">>, <<Says({"a", "b"}, "requires")>>),
      Text("file", <<"b", "a">>,
           <<Says({"a"}, "requires"), Says({"a", "b"}, "approves")>>),
      Text("file", <<"a", "b_">>,
           <<Says({"b_"}, "approves"), Says({"a", "b_"}, "requires")>>),
      Text("faq", <<"b", "a", "b_">>, <<>>),
      Text("directory", <<>>, <<>>) }
Question(names, kinds) == [names |-> names, kinds |-> kinds]
FourQuestions ==
    { Question({"a"}, {}), Question({"b", "b_"}, {"requires"}), Question({"a", "b"}, {"approves"}),
      Question({}, {}) }

\* Conversations: one in a session of the dataset, one in a new session and one left out by
\* the limit; one of three turns; none.
Asks(source, origin, profile) ==
    [source |-> source, origin |-> origin, profile |-> profile, keywords |-> TRUE]
Talking(fixed, turns) == [fixed |-> fixed, turns |-> turns]
ThreeTalks ==
    { << Talking(TRUE, <<Asks(TRUE, TRUE, FALSE), Asks(TRUE, TRUE, TRUE)>>),
         Talking(FALSE, <<Asks(TRUE, FALSE, FALSE), Asks(TRUE, TRUE, FALSE)>>),
         Talking(FALSE, <<Asks(TRUE, TRUE, TRUE)>>) >>,
      << Talking(FALSE, <<Asks(TRUE, TRUE, FALSE), Asks(FALSE, TRUE, FALSE),
                          Asks(TRUE, FALSE, TRUE)>>) >>,
      <<>> }
GoodReply == [fails |-> None, found |-> TRUE, inferred |-> TRUE, profiled |-> TRUE,
              covered |-> TRUE, isolated |-> TRUE]
SixReplies ==
    { GoodReply, [GoodReply EXCEPT !.inferred = FALSE, !.profiled = FALSE],
      [GoodReply EXCEPT !.found = FALSE, !.covered = FALSE],
      [GoodReply EXCEPT !.isolated = FALSE] }
    \cup {[GoodReply EXCEPT !.fails = f] : f \in {"answer", "saved"}}

\* Times: up to two of twenty or nineteen cases are slow, in one way or the other, and the
\* first case may be the slow one; short datasets with failures.
Took(total, first) == [total |-> total, first |-> first, timed |-> TRUE, error |-> FALSE]
SlowAmong(n) ==
    {[i \in 1..n |-> IF i \in {a, b} THEN slow ELSE Took(2, 1)] :
        a \in 0..n, b \in 0..n, slow \in {Took(9, 1), Took(5, None)}}
Broken == [Took(1, None) EXCEPT !.timed = FALSE, !.error = TRUE]
ManyTimings ==
    SlowAmong(21) \cup SlowAmong(19)
    \cup UNION {[1..n -> {Took(2, 1), Took(4, 3), Took(9, 2), Broken}] : n \in 0..3}

-----------------------------------------------------------------------------

VARIABLE component

Components == {"versions", "release", "cycle", "quality",
               "ocr", "page", "model", "graph", "followup", "performance"}

OperationsInit ==
    /\ component \in Components
    /\ Init /\ ReleaseInit /\ CycleInit /\ QualityInit /\ OcrInit
    /\ PageInit /\ ModelInit /\ GraphInit /\ FollowupInit /\ PerformanceInit
    /\ component # "release" => \A s \in ScenarioIds : data[s] = "x"
    /\ component # "quality" => hasFaq
    /\ component # "model" => evalFile[1].key = "q1"
    /\ component # "followup" => talk = <<>>
    /\ component # "performance" => load = <<>>

gateVars == <<followupVars, performanceVars>>

operationsVars == <<component, vars, releaseVars, cycleVars, qualityVars,
                    ocrVars, pageVars, modelVars, graphVars, gateVars>>

OperationsNext ==
    /\ UNCHANGED component
    /\ \/ /\ component = "versions" /\ Next
          /\ UNCHANGED <<releaseVars, cycleVars, qualityVars, ocrVars, pageVars,
                         modelVars, graphVars, gateVars>>
       \/ /\ component = "release" /\ ReleaseNext
          /\ UNCHANGED <<vars, cycleVars, qualityVars, ocrVars, pageVars,
                         modelVars, graphVars, gateVars>>
       \/ /\ component = "cycle" /\ CycleNext
          /\ UNCHANGED <<vars, releaseVars, qualityVars, ocrVars, pageVars,
                         modelVars, graphVars, gateVars>>
       \/ /\ component = "quality" /\ QualityNext
          /\ UNCHANGED <<vars, releaseVars, cycleVars, ocrVars, pageVars,
                         modelVars, graphVars, gateVars>>
       \/ /\ component = "ocr" /\ OcrNext
          /\ UNCHANGED <<vars, releaseVars, cycleVars, qualityVars, pageVars,
                         modelVars, graphVars, gateVars>>
       \/ /\ component = "page" /\ PageNext
          /\ UNCHANGED <<vars, releaseVars, cycleVars, qualityVars, ocrVars,
                         modelVars, graphVars, gateVars>>
       \/ /\ component = "model" /\ ModelNext
          /\ UNCHANGED <<vars, releaseVars, cycleVars, qualityVars, ocrVars,
                         pageVars, graphVars, gateVars>>
       \/ /\ component = "graph" /\ GraphNext
          /\ UNCHANGED <<vars, releaseVars, cycleVars, qualityVars, ocrVars,
                         pageVars, modelVars, gateVars>>
       \/ /\ component = "followup" /\ FollowupNext
          /\ UNCHANGED <<vars, releaseVars, cycleVars, qualityVars, ocrVars,
                         pageVars, modelVars, graphVars, performanceVars>>
       \/ /\ component = "performance" /\ PerformanceNext
          /\ UNCHANGED <<vars, releaseVars, cycleVars, qualityVars, ocrVars,
                         pageVars, modelVars, graphVars, followupVars>>

OperationsSpec == OperationsInit /\ [][OperationsNext]_operationsVars
=============================================================================
