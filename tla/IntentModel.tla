----------------------------- MODULE IntentModel -----------------------------
(***************************************************************************)
(* The life of the intent model: the datasets it is trained on, the files  *)
(* a training leaves one after the other, the process that loads them and  *)
(* the report about them (intent/model_classifier.py,                      *)
(* intent/governance.py, intent/decision.py and                            *)
(* scripts/intent/train_intent_bert.py).                                   *)
(*                                                                         *)
(* A line of a dataset is the key of its question, the mark of a history   *)
(* included, and a label.  A training is the datasets it has used: what    *)
(* the weights have learned is nothing but that.                           *)
(***************************************************************************)
EXTENDS Integers, SequencesExt, RuleValues

CONSTANTS
    Labels,        \* RETRIEVAL_INTENTS
    DatasetContents,      \* bound: what a dataset file may contain, a sequence of lines
    MaxTrainings,  \* bound: trainings started
    MaxEdits       \* bound: changes of the default evaluation set

ASSUME ModelAssumption ==
    /\ \A c \in DatasetContents : c \in Seq([key : STRING, label : STRING, sound : BOOLEAN])
    /\ MaxTrainings \in Nat /\ MaxEdits \in Nat

\* What a file holds is told from its absence.
ASSUME NoneIsNoTraining == None \notin [train : DatasetContents, eval : DatasetContents]

VARIABLES
    evalFile,   \* the default evaluation set
    artefact,   \* the files of the model directory: the training that wrote each, or None
    training,   \* the training at work, or None
    service,    \* the model loaded by the API process, or None
    refused,    \* the last load of the API process was refused
    modelReport, \* the report last written, or None
    trainings, edits

modelVars == <<evalFile, artefact, training, service, refused, modelReport, trainings, edits>>

ModelFiles == {"config", "weights", "tokenizer", "labels"}

-----------------------------------------------------------------------------
(* Datasets.                                                               *)

KeysOf(lines) == {line.key : line \in Range(lines)}

\* What load_intent_examples accepts: every line is sound, no question occurs twice and no
\* label is missing.
Loads(lines) ==
    /\ lines # <<>>
    /\ \A i \in DOMAIN lines : lines[i].sound /\ lines[i].label \in Labels
    /\ \A i, j \in DOMAIN lines : lines[i].key = lines[j].key => i = j
    /\ Labels \subseteq {line.label : line \in Range(lines)}

\* Comparing whole lines would not see a question that has another label there.
SplitByLine(train, eval) == Range(train) \cap Range(eval) = {}

\* validate_intent_dataset_split
SplitIsClean(train, eval) == KeysOf(train) \cap KeysOf(eval) = {}

ModelInit ==
    /\ evalFile \in {c \in DatasetContents : Loads(c)}
    /\ artefact = [f \in ModelFiles |-> None]
    /\ training = None /\ service = None /\ refused = FALSE /\ modelReport = None
    /\ trainings = 0 /\ edits = 0

EditEvalFile(lines) ==
    /\ edits < MaxEdits /\ lines # evalFile
    /\ evalFile' = lines /\ edits' = edits + 1
    /\ UNCHANGED <<artefact, training, service, refused, modelReport, trainings>>

-----------------------------------------------------------------------------
(* Training.                                                               *)

\* The datasets are read and compared before anything is trained.
StartTraining(train, eval) ==
    /\ training = None /\ trainings < MaxTrainings
    /\ Loads(train) /\ Loads(eval) /\ SplitIsClean(train, eval)
    /\ training' = [train |-> train, eval |-> eval, next |-> 1]
    /\ trainings' = trainings + 1
    /\ UNCHANGED <<evalFile, artefact, service, refused, modelReport, edits>>

LabelsFirst == <<"labels", "config", "weights", "tokenizer">>

\* The order in which the files are written; the labels, with the digests of the datasets, last.
SaveOrder == <<"config", "weights", "tokenizer", "labels">>

SaveFile ==
    /\ training # None /\ training.next <= Len(SaveOrder)
    /\ artefact' = [artefact EXCEPT ![SaveOrder[training.next]] =
                        [train |-> training.train, eval |-> training.eval]]
    /\ training' = [training EXCEPT !.next = @ + 1]
    /\ UNCHANGED <<evalFile, service, refused, modelReport, trainings, edits>>

\* The process ends at any point: what it has written stays.
TrainingDies ==
    /\ training # None
    /\ training' = None
    /\ UNCHANGED <<evalFile, artefact, service, refused, modelReport, trainings, edits>>

-----------------------------------------------------------------------------
(* Serving.                                                                *)

\* What a service asks of the directory: the tokenizer is not among it.
Loadable(found) == \A f \in {"config", "labels", "weights"} : found[f] # None

\* The first question, or the warm-up, loads the model once for the life of the process.
LoadModel ==
    /\ service = None
    /\ IF Loadable(artefact) THEN service' = artefact /\ refused' = FALSE
                             ELSE refused' = TRUE /\ UNCHANGED service
    /\ UNCHANGED <<evalFile, artefact, training, modelReport, trainings, edits>>

RestartProcess ==
    /\ service # None
    /\ service' = None
    /\ UNCHANGED <<evalFile, artefact, training, refused, modelReport, trainings, edits>>

-----------------------------------------------------------------------------
(* The report.                                                             *)

\* The report asks for every file; it evaluates on the default evaluation set, whatever the
\* training was called with, and repeats the digest that the labels have recorded.
BuildReport(right) ==
    LET complete == \A f \in ModelFiles : artefact[f] # None
        judged   == complete /\ Loads(evalFile)
    IN  [artifactOk |-> complete,
         ok |-> judged /\ 4 * right >= 3 * Len(evalFile),
         on |-> IF judged THEN evalFile ELSE None,
         of |-> artefact["weights"],
         recorded |-> IF artefact["labels"] = None THEN None ELSE artefact["labels"].eval]

\* A training that has saved everything writes the report itself.
TrainingReports(right) ==
    /\ training # None /\ training.next > Len(SaveOrder)
    /\ modelReport' = BuildReport(right)
    /\ training' = None
    /\ UNCHANGED <<evalFile, artefact, service, refused, trainings, edits>>

\* The report is asked for on its own.
WriteReport(right) ==
    /\ modelReport' = BuildReport(right)
    /\ UNCHANGED <<evalFile, artefact, training, service, refused, trainings, edits>>

ModelNext ==
    \/ \E lines \in DatasetContents : EditEvalFile(lines)
    \/ \E train, eval \in DatasetContents : StartTraining(train, eval)
    \/ SaveFile \/ TrainingDies \/ LoadModel \/ RestartProcess
    \/ \E right \in {0, Len(evalFile)} : TrainingReports(right) \/ WriteReport(right)

ModelSpec == ModelInit /\ [][ModelNext]_modelVars

-----------------------------------------------------------------------------
(* Properties.                                                             *)

\* A model is served only with all its files, though nothing asks for the tokenizer: the
\* labels are asked for and they are written last.
ServedIsComplete == service # None => \A f \in ModelFiles : service[f] # None

\* An accuracy is reported as that of held-out questions: when the evaluation set is the one
\* whose digest the report repeats and labels and weights are of one training, no question
\* evaluated was trained on.
ReportedIsHeldOut ==
    modelReport # None /\ modelReport.ok /\ modelReport.on = modelReport.recorded
        /\ modelReport.of.eval = modelReport.recorded
    => KeysOf(modelReport.of.train) \cap KeysOf(modelReport.on) = {}

\* Whatever training died where and whatever was edited since: a model is served with all its
\* files, and a reported accuracy is one on held-out questions.
ModelIsAccounted == ServedIsComplete /\ ReportedIsHeldOut
=============================================================================
