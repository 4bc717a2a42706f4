---------------------------- MODULE FollowupGate ----------------------------
(***************************************************************************)
(* Conversations replayed turn by turn against the service, and the gate   *)
(* on the report: scripts/quality/evaluate_followup_chain and              *)
(* check_followup_gate.  Each turn is retrieved for diagnosis first, which *)
(* saves nothing, and then answered; the service saves the turn before it  *)
(* sends the end event.                                                    *)
(*                                                                         *)
(* What the service shows is chosen from Replies.  Shares are compared     *)
(* exactly (the code rounds them to four places), an answer covers all the *)
(* keywords of its turn or none, and the average time is left out.         *)
(***************************************************************************)
EXTENDS Integers, Sequences, FiniteSets, RuleValues

CONSTANTS
    Talks,          \* the datasets: sequences of conversations
    Replies,        \* what replaying a turn may show
    TurnLimit,      \* --limit: conversations replayed
    MaxReplays      \* bound: evaluations

\* What a turn expects: a source, an effective source, a prompt profile, keywords.
Turns == [source : BOOLEAN, origin : BOOLEAN, profile : BOOLEAN, keywords : BOOLEAN]

\* fixed: the conversation names its session, which a later evaluation enters again.
Conversation == [fixed : BOOLEAN, turns : Seq(Turns)]

\* fails: the retrieval for diagnosis, the answer before or after the turn is saved, or both
\* retrieval and answer; the others: what the report would find of what the turn expects.
Reply == [fails : {None, "diagnosis", "answer", "saved", "both"}, found : BOOLEAN,
          inferred : BOOLEAN, profiled : BOOLEAN, covered : BOOLEAN, isolated : BOOLEAN]

ASSUME FollowupAssumption ==
    /\ Talks \subseteq Seq(Conversation)
    /\ Replies \subseteq Reply
    /\ TurnLimit \in Nat /\ MaxReplays \in Nat

ASSUME NoneIsNoFailure == None \notin {"diagnosis", "answer", "saved", "both", "passed", "failed"}

VARIABLES
    talk,       \* the dataset being replayed
    replays,    \* evaluations begun
    at,         \* conversation being replayed, 0 between evaluations
    turn,       \* turns of it replayed
    messages,   \* history of the session of each conversation: its turns, with their replay
    turnRows,   \* the report
    followupGate

followupVars == <<talk, replays, at, turn, messages, turnRows, followupGate>>

Replayed == 1..Smaller(TurnLimit, Len(talk))

FollowupTypeOK ==
    /\ talk \in Talks /\ replays \in 0..MaxReplays
    /\ at \in 0..Len(talk)
    /\ at > 0 => turn \in 0..Len(talk[at].turns)
    /\ \A i \in DOMAIN turnRows :
          LET r == turnRows[i]
          IN  r.of \in Replayed /\ r.turn \in DOMAIN talk[r.of].turns /\ r.reply \in Reply
    /\ followupGate \in {None, "passed", "failed"}

FollowupInit ==
    /\ talk \in Talks
    /\ replays = 0 /\ at = 0 /\ turn = 0 /\ turnRows = <<>> /\ followupGate = None
    /\ messages = [c \in DOMAIN talk |-> <<>>]

-----------------------------------------------------------------------------
(* evaluate_dataset. *)

\* A session that the dataset does not name is named after the time and the conversation.
EnterSession(c) ==
    messages' = [messages EXCEPT ![c] = IF talk[c].fixed THEN @ ELSE <<>>]

StartReplay ==
    /\ at = 0 /\ replays < MaxReplays
    /\ replays' = replays + 1 /\ turnRows' = <<>> /\ followupGate' = None /\ turn' = 0
    /\ IF Replayed = {} THEN UNCHANGED <<at, messages>> ELSE at' = 1 /\ EnterSession(1)
    /\ UNCHANGED talk

\* Without an end event there is no answer to speak of and what the answer shows is taken
\* from the diagnosis; without a diagnosis too nothing that is expected is found.
Shown(reply) ==
    IF reply.fails = "both"
      THEN [reply EXCEPT !.found = FALSE, !.inferred = FALSE, !.profiled = FALSE]
      ELSE reply

RunTurn(reply) ==
    /\ at > 0 /\ turn < Len(talk[at].turns)
    /\ turn' = turn + 1
    /\ turnRows' = Append(turnRows, [of |-> at, turn |-> turn + 1, asked |-> messages[at],
                                     reply |-> Shown(reply)])
    /\ messages' = IF reply.fails \in {"answer", "both"} THEN messages
                   ELSE [messages EXCEPT ![at] = Append(@, <<replays, turn + 1>>)]
    /\ UNCHANGED <<talk, replays, at, followupGate>>

NextConversation ==
    /\ at > 0 /\ turn = Len(talk[at].turns)
    /\ turn' = 0
    /\ IF at + 1 \in Replayed THEN at' = at + 1 /\ EnterSession(at + 1)
       ELSE at' = 0 /\ UNCHANGED messages
    /\ UNCHANGED <<talk, replays, turnRows, followupGate>>

-----------------------------------------------------------------------------
(* The gate.  I is a set of rows, by index. *)

Expecting(what) ==
    {i \in DOMAIN turnRows : talk[turnRows[i].of].turns[turnRows[i].turn][what]}
Followups == {i \in DOMAIN turnRows : turnRows[i].turn > 1}
Showing(I, what) == {i \in I : turnRows[i].reply[what]}

\* A share over nothing is 0, or 1 where the report says so.
ShareOf(good, I, tenths) == 10 * Cardinality(good) >= tenths * Larger(Cardinality(I), 1)
ShareOrAll(good, I, tenths) == I = {} \/ ShareOf(good, I, tenths)

\* (Mutant.) A few of the turns may fail.
NoTurnFailedButFew ==
    10 * Cardinality({i \in DOMAIN turnRows : turnRows[i].reply.fails # None})
       <= 3 * Len(turnRows)

NoTurnFailed == \A i \in DOMAIN turnRows : turnRows[i].reply.fails = None

FollowupsPass ==
    LET inferable == Followups \cap Expecting("origin")
        profiles  == Expecting("profile")
        keywords  == Showing(Expecting("keywords"), "covered")
    IN  /\ NoTurnFailed
        /\ ShareOf(Showing(Expecting("source"), "found"), Expecting("source"), 8)
        /\ ShareOf(keywords, DOMAIN turnRows, 7)
        /\ ShareOrAll(Showing(inferable, "inferred"), inferable, 8)
        /\ ShareOrAll(Showing(profiles, "profiled"), profiles, 7)
        /\ ShareOf(Showing(DOMAIN turnRows, "isolated"), DOMAIN turnRows, 10)

JudgeFollowups ==
    /\ at = 0 /\ replays > 0 /\ followupGate = None
    /\ followupGate' = IF FollowupsPass THEN "passed" ELSE "failed"
    /\ UNCHANGED <<talk, replays, at, turn, messages, turnRows>>

FollowupNext ==
    \/ StartReplay \/ NextConversation \/ JudgeFollowups
    \/ \E reply \in Replies : RunTurn(reply)

FollowupSpec == FollowupInit /\ [][FollowupNext]_followupVars

-----------------------------------------------------------------------------
\* The latest of a history are the first n turns of this replay.
EndsWith(asked, n) ==
    Len(asked) >= n /\ \A k \in 1..n : asked[Len(asked) - n + k] = <<replays, k>>

\* A report that passes is about conversations and not about single questions: every turn of
\* the conversations replayed is in it, none left its scenario, and each was asked with the
\* earlier turns of its own conversation, of this replay, as the latest of its history.
PassedTurnsHadTheirHistory ==
    followupGate = "passed" =>
        /\ turnRows # <<>>
        /\ \A c \in Replayed : \A t \in DOMAIN talk[c].turns :
              \E i \in DOMAIN turnRows :
                 LET r == turnRows[i]
                 IN  /\ r.of = c /\ r.turn = t /\ r.reply.isolated
                     /\ EndsWith(r.asked, t - 1)
                     /\ ~talk[c].fixed => Len(r.asked) = t - 1

\* The openings of the conversations, which need no history, hide no follow-up: fewer than
\* five follow-ups that expect a source all have it.
OpeningsHideNothing ==
    LET wrong == {i \in Followups \cap Expecting("origin") : ~turnRows[i].reply.inferred}
    IN  followupGate = "passed" /\ Cardinality(Followups \cap Expecting("origin")) < 5
          => wrong = {}

\* A gate that nothing passes would be of no use: what shows all it is expected to passes.
FaultlessReplayPasses ==
    (/\ followupGate # None /\ Expecting("source") # {}
     /\ \A i \in DOMAIN turnRows :
           /\ turnRows[i].reply.fails = None /\ i \in Expecting("keywords")
           /\ \A w \in {"found", "inferred", "profiled", "covered", "isolated"} :
                 turnRows[i].reply[w])
    => followupGate = "passed"

FollowupsAreJudged ==
    /\ FollowupTypeOK /\ PassedTurnsHadTheirHistory
    /\ OpeningsHideNothing /\ FaultlessReplayPasses
=============================================================================
