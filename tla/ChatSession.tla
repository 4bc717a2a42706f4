----------------------------- MODULE ChatSession -----------------------------
(***************************************************************************)
(* One chat session, from the web socket to the stored history: api/       *)
(* chat.py, the stream of api/contracts.py, pipeline/rag.py, the routes of *)
(* steps.py, the end of a request in runtime.py, the life of the answer's  *)
(* confidence in confidence.py, and memory/history.py.                     *)
(*                                                                         *)
(* A connection answers one question at a time: a generator yields events, *)
(* which the handler sends while the client is there.  Other connections   *)
(* may use the session meanwhile: of them the model keeps the turns they   *)
(* save.  After each answer a task may summarise the turns that no longer  *)
(* fit the prompt.  MySQL calls are atomic; everything else interleaves.   *)
(*                                                                         *)
(* A turn is the number of its question.  An answer is a sequence of       *)
(* Pieces; "status" events, which change nothing, are left out.            *)
(***************************************************************************)
EXTENDS Integers, SequencesExt

CONSTANTS
    MaxAsks,    \* bound: questions
    MaxTokens,  \* bound: tokens of one generated answer
    Recent,     \* turns the prompt shows (history_recent_messages / 2)
    After,      \* turns from which on a summary is made
    Faults      \* "error", "leave", "clear", "llm"

ASSUME SessionAssumption ==
    /\ MaxAsks \in Nat \ {0} /\ MaxTokens \in Nat \ {0}
    /\ Recent \in Nat \ {0} /\ After \in Nat

Asks == 1..MaxAsks

\* What tells answers apart: text of the model; the phrase that a contract
\* says nothing; white space; the fixed text for an empty answer; the list of
\* references or table cells that is appended; an answer of a rule, of the
\* FAQ, or about conflicting documents.
Generated == {"text", "none_found", "blank"}
Pieces == Generated \cup {"fixed", "refs", "rule", "faq", "conflict"}
Events == {"start", "end", "error"} \cup Pieces

HitTypes == {"unknown", "rule", "faq_direct", "rag", "insufficient_context", "contract_conflict"}

\* generation_verification.status.
Verdicts == {"verified", "partial", "failed"}
Checks   == Verdicts \cup {"none", "pending", "not_applicable"}

VARIABLES
    contract, \* whether the session belongs to a contract
    history,  \* the turns in chat_messages (an answer is looked at in tab.answer)
    summary,  \* the turns the stored summary is made of, {} for no row
    tab,      \* locals of the connection and its generator
    task,     \* [Asks -> the summary task its answer has started]
    clearing, \* the messages are deleted, the summary not yet
    asked,    \* questions so far
    cleared   \* history: turns that have been cleared

store == <<history, summary, cleared>>
vars  == <<contract, store, tab, task, clearing, asked>>

-----------------------------------------------------------------------------

Stages == {"ready", "resolve", "route", "prepare", "faq", "doc", "generate",
           "finalize", "save", "finish", "closed"}
Locals == [at : Stages, open : BOOLEAN, ask : 0..MaxAsks, out : Seq(Events),
           answer : Seq(Pieces), hit : HitTypes, check : Checks, called : BOOLEAN,
           context : BOOLEAN, sources : BOOLEAN, shown : BOOLEAN]
Tasks  == [at : {"none", "due", "read", "llm", "over"}, older : SUBSET Asks, base : SUBSET Asks]

Turns == ToSet(history)
RecentTurns == {history[i] : i \in {j \in DOMAIN history : j > Len(history) - Recent}}

\* str.strip.
Strip(s) ==
    LET solid == {i \in DOMAIN s : s[i] # "blank"}
    IN IF solid = {} THEN <<>> ELSE SubSeq(s, Min(solid), Max(solid))

TypeOK ==
    /\ contract \in BOOLEAN /\ clearing \in BOOLEAN
    /\ asked \in 0..MaxAsks
    /\ history \in Seq(Asks)
    /\ summary \subseteq Asks /\ cleared \subseteq Asks
    /\ tab \in Locals /\ task \in [Asks -> Tasks]

Fresh == [at |-> "ready", open |-> TRUE, ask |-> 0, out |-> <<>>, answer |-> <<>>,
          hit |-> "unknown", check |-> "none", called |-> FALSE, context |-> FALSE,
          sources |-> FALSE, shown |-> FALSE]
Idle  == [at |-> "none", older |-> {}, base |-> {}]

Init ==
    /\ contract \in BOOLEAN /\ history = <<>> /\ summary = {} /\ clearing = FALSE
    /\ tab = Fresh /\ task = [a \in Asks |-> Idle]
    /\ asked = 0 /\ cleared = {}

-----------------------------------------------------------------------------
\* The handler and its generator.

\* The locals l yield event e and go on at `to`: the handler sends it, or drops
\* the generator when the client is gone.
Emit(l, e, to) ==
    IF l.open THEN [l EXCEPT !.out = Append(@, e), !.at = to] ELSE [l EXCEPT !.at = "closed"]

Become(l) == tab' = l

\* Only the connection itself moves.
Privately == UNCHANGED <<contract, store, task, clearing, asked>>

Leave ==
    /\ "leave" \in Faults /\ tab.open
    /\ Become([tab EXCEPT !.open = FALSE, !.at = IF @ = "ready" THEN "closed" ELSE @])
    /\ Privately

\* The client comes back with a new connection.
Connect ==
    /\ tab.at = "closed" /\ Become(Fresh) /\ Privately

\* Rate limit, malformed JSON, an empty or overlong question, a contract's
\* data named on the general route: an error, and the connection goes on.
Refuse ==
    /\ tab.at = "ready"
    /\ Become([Fresh EXCEPT !.out = <<"error">>]) /\ Privately

Ask ==
    /\ tab.at = "ready" /\ asked < MaxAsks
    /\ asked' = asked + 1
    /\ Become([Fresh EXCEPT !.at = "resolve", !.ask = asked + 1])
    /\ UNCHANGED <<contract, store, task, clearing>>

\* conflict_qa_response: two stored documents disagree about the subject.  The
\* pair is shown and not saved.
Conflict ==
    /\ tab.at = "resolve" /\ contract
    /\ Become(Emit(Emit([tab EXCEPT !.hit = "contract_conflict", !.shown = TRUE],
                           "conflict", "ready"), "end", "ready"))
    /\ Privately

\* create_query_context runs before stream_query's try: its exception ends the
\* connection with an error event.
ResolveFails ==
    /\ "error" \in Faults /\ tab.at = "resolve"
    /\ Become([Emit(tab, "error", "closed") EXCEPT !.open = FALSE]) /\ Privately

Start ==
    /\ tab.at = "resolve" /\ Become(Emit(tab, "start", "route")) /\ Privately

\* _finish_with_single_answer up to its token.
Single(l, p) == Emit([l EXCEPT !.answer = <<p>>], p, "save")

\* decide_route.  A direct intent, a greeting or a question about another
\* source, has no sources; the exact match of a standard question has.
Route ==
    /\ tab.at = "route"
    /\ \/ Become(Single([tab EXCEPT !.hit = "rule"], "rule"))
       \/ \E s \in BOOLEAN : Become(Single([tab EXCEPT !.hit = "faq_direct",
                               !.sources = s, !.check = "pending"], "faq"))
       \/ Become([tab EXCEPT !.at = "prepare"])
    /\ Privately

\* prepare_retrieval: the history and the summary are read, the intent decided
\* and the question rewritten.
PrepareRetrieval ==
    /\ tab.at = "prepare" /\ Become([tab EXCEPT !.at = "faq"]) /\ Privately

SearchFaq ==
    /\ tab.at = "faq"
    /\ \/ Become(Single([tab EXCEPT !.hit = "faq_direct", !.sources = TRUE,
                               !.check = "pending"], "faq"))
       \/ Become([tab EXCEPT !.at = "doc"])
    /\ Privately

\* search_doc and prepare_answer.  Hits below the score threshold are sources
\* but not context.
SearchDoc ==
    /\ tab.at = "doc"
    /\ \/ \E s \in BOOLEAN : Become(Single([tab EXCEPT !.hit = "insufficient_context",
                               !.sources = s, !.check = "pending"], "none_found"))
       \/ Become([tab EXCEPT !.at = "generate", !.hit = "rag", !.sources = TRUE,
                               !.context = TRUE, !.check = "pending"])
    /\ Privately

\* Mutant: chunks without content are not skipped.
TokenUnfiltered ==
    /\ tab.at = "generate" /\ Len(tab.answer) < MaxTokens
    /\ \E p \in Generated \cup {""} :
        Become(Emit([tab EXCEPT !.answer = Append(@, p), !.called = TRUE], p, "generate"))
    /\ Privately

\* A chunk of the model with content.
Token ==
    /\ tab.at = "generate" /\ Len(tab.answer) < MaxTokens
    /\ \E p \in Generated :
        Become(Emit([tab EXCEPT !.answer = Append(@, p), !.called = TRUE], p, "generate"))
    /\ Privately

\* The stream of the model is over, perhaps before a first token.
StreamEnds ==
    /\ tab.at = "generate"
    /\ Become([tab EXCEPT !.at = "finalize", !.called = TRUE]) /\ Privately

\* Mutant: the part appended to the answer is saved and not streamed.
FinalizeSilently ==
    /\ tab.at = "finalize"
    /\ LET answer == Strip(tab.answer) IN
        IF answer = <<>>
        THEN Become(Single([tab EXCEPT !.check = "failed"], "fixed"))
        ELSE \E v \in Verdicts, extra \in {<<>>, <<"refs">>} :
                Become([tab EXCEPT !.check = v, !.answer = answer \o extra, !.at = "save"])
    /\ Privately

\* enforce_answer_citations and finalize_generated_answer_confidence; then the
\* fixed text for an empty answer, or the appended part as one more token.
Finalize ==
    /\ tab.at = "finalize"
    /\ LET answer == Strip(tab.answer) IN
        \/ /\ answer = <<>>
           /\ Become(Single([tab EXCEPT !.check = "failed"], "fixed"))
        \/ \E v \in Verdicts :
            /\ answer # <<>>
            /\ LET l == [tab EXCEPT !.check = v, !.answer = answer] IN
                \/ Become([l EXCEPT !.at = "save"])
                \/ Become(Emit([l EXCEPT !.answer = answer \o <<"refs">>], "refs", "save"))
    /\ Privately

\* Mutant: the turn is kept in memory and saved after the end has been sent.
SaveLater ==
    /\ tab.at = "save"
    /\ Become([tab EXCEPT !.at = "finish"]) /\ Privately

\* history.add_turn.
Save ==
    /\ tab.at = "save"
    /\ history' = Append(history, tab.ask)
    /\ Become([tab EXCEPT !.at = "finish"])
    /\ UNCHANGED <<contract, summary, cleared, task, clearing, asked>>

\* Another connection of the session has answered a question.
Elsewhere ==
    /\ asked < MaxAsks /\ asked' = asked + 1
    /\ history' = Append(history, asked + 1)
    /\ task' = [task EXCEPT ![asked + 1].at = "due"]
    /\ UNCHANGED <<contract, summary, cleared, tab, clearing>>

\* Mutant: a route that records no evidence confidence is left alone.
VerificationOfPending(l) ==
    IF l.check = "pending" /\ ~l.called THEN "not_applicable" ELSE l.check

\* finish_success: evidence confidence if nothing has recorded one; a pending
\* verification that needed no generation becomes "not_applicable".
Verification(l) ==
    IF l.check \in {"none", "pending"} /\ ~l.called THEN "not_applicable" ELSE l.check

\* Mutant: only the route without context drops the sources.
ShowsSourcesOfGenerated(l) ==
    l.sources /\ ~(contract /\ l.hit = "insufficient_context")

\* _send_stream_events: in a contract session, an answer that nothing was found
\* shows no sources.
ShowsSources(l) ==
    l.sources /\ ~(contract /\ \E i \in DOMAIN l.answer : l.answer[i] = "none_found")

\* finish_success, the end event, and _schedule_summary_refresh when it is sent.
Finish ==
    /\ tab.at = "finish"
    /\ LET l == [tab EXCEPT !.check = Verification(tab), !.shown = ShowsSources(tab)]
       IN /\ Become(Emit(l, "end", "ready"))
          /\ task' = IF l.open THEN [task EXCEPT ![l.ask].at = "due"] ELSE task
    /\ UNCHANGED <<contract, store, clearing, asked>>

\* Mutant: a failing FAQ search is reported and the documents are searched.
FailsAndGoesOn ==
    /\ "error" \in Faults
    /\ tab.at \in {"route", "prepare", "faq", "doc", "generate", "save"}
    /\ Become(Emit(tab, "error", IF tab.at = "faq" THEN "doc" ELSE "ready")) /\ Privately

\* Any exception inside stream_query: MySQL, Milvus, Redis or the model.
Fails ==
    /\ "error" \in Faults
    /\ tab.at \in {"route", "prepare", "faq", "doc", "generate", "save"}
    /\ Become(Emit(tab, "error", "ready")) /\ Privately

-----------------------------------------------------------------------------
\* refresh_summary_if_needed, in a thread of its own.

Background == UNCHANGED <<contract, tab, clearing, asked>>

\* Mutant: the whole history is summarised.
ReadAll(a) ==
    /\ task[a].at = "due"
    /\ task' = [task EXCEPT ![a] =
                IF Len(history) >= After /\ history # <<>>
                THEN [at |-> "read", older |-> Turns, base |-> {}]
                ELSE [Idle EXCEPT !.at = "over"]]
    /\ UNCHANGED store /\ Background

ReadMessages(a) ==
    /\ task[a].at = "due"
    /\ task' = [task EXCEPT ![a] =
                IF Len(history) >= After /\ Len(history) > Recent
                THEN [at |-> "read", older |-> Turns \ RecentTurns, base |-> {}]
                ELSE [Idle EXCEPT !.at = "over"]]
    /\ UNCHANGED store /\ Background

ReadSummary(a) ==
    /\ task[a].at = "read"
    /\ task' = [task EXCEPT ![a].at = "llm", ![a].base = summary]
    /\ UNCHANGED store /\ Background

\* The model extends the summary, and it is stored.
SaveSummary(a) ==
    /\ task[a].at = "llm"
    /\ summary' = task[a].base \cup task[a].older
    /\ task' = [task EXCEPT ![a] = [Idle EXCEPT !.at = "over"]]
    /\ UNCHANGED <<history, cleared>> /\ Background

\* The model fails or returns nothing: the stored summary stays.
NoSummary(a) ==
    /\ "llm" \in Faults /\ task[a].at = "llm"
    /\ task' = [task EXCEPT ![a] = [Idle EXCEPT !.at = "over"]]
    /\ UNCHANGED store /\ Background

-----------------------------------------------------------------------------
\* ChatHistoryStore.clear, refused for a contract's session.

ClearMessages ==
    /\ "clear" \in Faults /\ ~contract /\ ~clearing
    /\ history' = <<>> /\ cleared' = cleared \cup Turns /\ clearing' = TRUE
    /\ UNCHANGED <<contract, summary, tab, task, asked>>

DeleteSummary ==
    /\ clearing /\ clearing' = FALSE /\ summary' = {}
    /\ UNCHANGED <<contract, history, cleared, tab, task, asked>>

-----------------------------------------------------------------------------

Serve ==
    \/ Conflict \/ ResolveFails \/ Start \/ Route
    \/ PrepareRetrieval \/ SearchFaq \/ SearchDoc \/ Token \/ StreamEnds
    \/ Finalize \/ Save \/ Finish \/ Fails

Summarise(a) == ReadMessages(a) \/ ReadSummary(a) \/ SaveSummary(a) \/ NoSummary(a)

Next ==
    \/ Ask \/ Refuse \/ Leave \/ Connect \/ Serve \/ Elsewhere
    \/ \E a \in Asks : Summarise(a)
    \/ ClearMessages \/ DeleteSummary

Spec == Init /\ [][Next]_vars

-----------------------------------------------------------------------------
\* Properties.

Ended(l) == l.out # <<>> /\ Last(l.out) \in {"end", "error"}

\* The pieces of s that are not white space are those of t, in their order.
Solid(s) == {i \in DOMAIN s : s[i] \in Pieces \ {"blank"}}
SameText(s, t) ==
    \E f \in [Solid(s) -> Solid(t)] :
        /\ \A i, j \in Solid(s) : i < j => f[i] < f[j]
        /\ \A k \in Solid(t) : \E i \in Solid(s) : f[i] = k
        /\ \A i \in Solid(s) : t[f[i]] = s[i]

\* The protocol of the stream: at most one "end" or "error", and it is last; a
\* connection takes the next question only when the last one is answered.  Every
\* route, the appended references, the empty answer and every failure keep it.
OneEnding ==
    /\ \A i \in 1..(Len(tab.out) - 1) : tab.out[i] \notin {"end", "error"}
    /\ tab.at = "ready" /\ tab.out # <<>> => Ended(tab)

\* What is stored as the answer of a turn is what the client has been shown,
\* token by token, up to white space (the stream keeps what strip removes before
\* the references).
SavedIsWhatWasStreamed ==
    tab.ask \in Turns => SameText(tab.answer, tab.out)

\* A turn that ended in "end" has been saved, once, and stays until it is cleared;
\* one that ended in "error" never reaches the history, however much of it
\* was streamed.
EndMeansSaved ==
    Ended(tab) /\ tab.ask # 0 /\ tab.hit # "contract_conflict" =>
        /\ Last(tab.out) = "end" <=> tab.ask \in Turns \cup cleared
        /\ Cardinality({i \in DOMAIN history : history[i] = tab.ask}) <= 1

\* The confidence an end event carries is never pending, and is a verdict on
\* generated text exactly when the model was called, with context.
GradedAsProduced ==
    Ended(tab) /\ Last(tab.out) = "end" /\ tab.hit # "contract_conflict" =>
        /\ tab.check \in Verdicts <=> tab.called
        /\ ~tab.called => tab.check = "not_applicable"
        /\ tab.called => tab.context

\* In a contract session, an answer that says the contract is silent shows no
\* sources, whether a rule or the model said so, and at whichever token.
SilenceHasNoSources ==
    contract /\ Ended(tab) /\ (\E i \in DOMAIN tab.out : tab.out[i] = "none_found") => ~tab.shown

\* Whatever tasks race, also with the clearing of the session: of the stored
\* turns the summary holds the oldest ones, without a gap, and none of those
\* that the prompt shows word for word.
SummaryIsOfOlderTurns ==
    /\ summary \cap RecentTurns = {}
    /\ \A i, j \in DOMAIN history :
        i < j /\ history[j] \in summary => history[i] \in summary

\* One answer: it ends once, what was streamed is what is graded and saved, in that order, and
\* an answer that finds the contract silent shows no sources.
AnswersAreFaithful ==
    /\ TypeOK /\ OneEnding /\ SavedIsWhatWasStreamed /\ EndMeansSaved
    /\ GradedAsProduced /\ SilenceHasNoSources

\* Refuted by TLC: an answer in progress, or a refresh, writes after the clearing.
\* What ChatHistoryStore.clear says: all messages and the summary made of them
\* are gone.
ClearedStaysCleared == ~clearing => summary \cap cleared = {}
=============================================================================
