---------------------------- MODULE ContractPage ----------------------------
(***************************************************************************)
(* The contract workbench in the browser (static/js/contracts.js) with the *)
(* routes it calls (api/contracts.py).  Every call is asynchronous and its *)
(* continuation reads or writes contractState, whatever the user has       *)
(* selected in the meantime; a question has a socket of its own.           *)
(*                                                                         *)
(* A session is reduced to the contract it was opened for.                 *)
(***************************************************************************)
EXTENDS Integers, Sequences, FiniteSets, RuleValues

CONSTANTS
    Contracts,    \* contracts of the ledger
    Uploaded,     \* those that exist only once they have been uploaded
    MaxCalls,     \* bound: calls made by the page
    MaxAsked \* bound: questions asked

ASSUME PageAssumption ==
    /\ Uploaded \subseteq Contracts /\ None \notin Contracts
    /\ MaxCalls \in Nat /\ MaxAsked \in Nat

VARIABLES
    page,       \* contractState and the buttons
    stored,     \* contracts on the server
    calls,      \* calls under way
    made,       \* calls made so far
    sockets,    \* the sockets of the questions, in the order of asking
    landed,     \* what the server has written for the page
    overlapped  \* a call has been made while another was under way

pageVars == <<page, stored, calls, made, sockets, landed, overlapped>>

\* A call: its kind, the contract in its path, what goes on when it has been answered, what
\* was on the screen when it was made, and its result; a list brings the contracts it found.
NewCall(id, kind, on, after, shown) ==
    [id |-> id, kind |-> kind, on |-> on, after |-> after, shown |-> shown, result |-> "none",
     rows |-> {}]

\* The page calls loadContracts when it is loaded.
PageInit ==
    /\ page = [items |-> {}, selected |-> None, detail |-> None, session |-> None, send |-> TRUE,
               upload |-> TRUE, reanalyze |-> TRUE]
    /\ stored = Contracts \ Uploaded
    /\ calls = {NewCall(1, "list", None, "none", None)}
    /\ made = 1
    /\ sockets = <<>> /\ landed = {} /\ overlapped = FALSE

-----------------------------------------------------------------------------
(* Calls.                                                                  *)

\* requestJson: others is what is still under way when the calls are made.
Requests(new, others) ==
    /\ made + Len(new) <= MaxCalls
    /\ made' = made + Len(new)
    /\ calls' = others \cup
          {NewCall(made + i, new[i].kind, new[i].on, new[i].after, page.detail) : i \in 1..Len(new)}
    /\ overlapped' = (overlapped \/ others # {} \/ Len(new) > 1)

Asked(kind, on, after) == [kind |-> kind, on |-> on, after |-> after]

Request(kind, on, others) == Requests(<<Asked(kind, on, "none")>>, others)

SelectLate(c) == page' = page

\* selectContract: the selection changes at once, what is shown stays until the answer.
ShowSelection(c) == page' = [page EXCEPT !.selected = c]

SelectContract(c) ==
    /\ c \in page.items
    /\ ShowSelection(c)
    /\ Request("detail", c, calls)
    /\ UNCHANGED <<stored, sockets, landed>>

LoadContracts ==
    /\ Request("list", None, calls)
    /\ UNCHANGED <<page, stored, sockets, landed>>

\* The status of an obligation or a risk that is on the screen is changed.
ChangeStatus ==
    /\ page.detail # None /\ page.selected # None
    /\ Request("status", page.selected, calls)
    /\ UNCHANGED <<page, stored, sockets, landed>>

SubmitEvent ==
    /\ page.selected # None
    /\ Request("event", page.selected, calls)
    /\ UNCHANGED <<page, stored, sockets, landed>>

Reanalyze ==
    /\ page.selected # None /\ page.reanalyze
    /\ page' = [page EXCEPT !.reanalyze = FALSE]
    /\ Request("analyze", page.selected, calls)
    /\ UNCHANGED <<stored, sockets, landed>>

SubmitUpload ==
    /\ page.upload
    /\ page' = [page EXCEPT !.upload = FALSE]
    /\ Request("upload", None, calls)
    /\ UNCHANGED <<stored, sockets, landed>>

-----------------------------------------------------------------------------
(* The server.                                                             *)

ServerAcceptsAny(call) == call.on \in stored

\* An obligation or a risk is looked for among those of the contract in the path; an event
\* has none to look for.
ServerAccepts(call) ==
    /\ call.on \in stored
    /\ call.kind = "status" => call.shown = call.on

\* Any call may also fail on the way or in the service.
Serve(call, fails, new) ==
    /\ call.result = "none"
    /\ LET writes  == call.kind \in {"status", "event", "analyze"}
           ok      == ~fails /\ (call.on # None => ServerAccepts(call))
           creates == call.kind = "upload" /\ ok
       IN  /\ IF creates THEN new \in Contracts \ stored ELSE new = None
           /\ stored' = IF creates THEN stored \cup {new} ELSE stored
           /\ calls' = (calls \ {call}) \cup
                  {[call EXCEPT !.result = IF ok THEN "ok" ELSE "error",
                                !.on = IF creates THEN new ELSE @,
                                !.rows = IF call.kind = "list" /\ ok THEN stored ELSE {}]}
           /\ landed' = IF ok /\ writes
                          THEN landed \cup {[kind |-> call.kind, on |-> call.on,
                                          shown |-> call.shown]}
                          ELSE landed
    /\ UNCHANGED <<page, made, sockets, overlapped>>

-----------------------------------------------------------------------------
(* Continuations.                                                          *)

Rest(call) == calls \ {call}

\* Without a selection the first contract is selected; after an upload the new one is.
ListArrives(call, first) ==
    /\ call.kind = "list" /\ call.result # "none" 
    /\ IF call.rows = {} THEN first = None ELSE first \in call.rows
    /\ LET initial  == IF first # None /\ page.selected = None
                         THEN <<Asked("detail", first, "none")>> ELSE <<>>
           uploaded == IF call.after = "upload"
                         THEN <<Asked("detail", call.on, "upload")>> ELSE <<>>
           chosen   == IF uploaded # <<>> THEN call.on
                       ELSE IF initial # <<>> THEN first ELSE page.selected
       IN  /\ Requests(initial \o uploaded, Rest(call))
           /\ page' = [page EXCEPT !.items = call.rows, !.selected = chosen,
                                   !.reanalyze = @ \/ call.after = "reanalyze"]
    /\ UNCHANGED <<stored, sockets, landed>>

DetailArrives(call) ==
    /\ call.kind = "detail" /\ call.result # "none"
    /\ LET done == [page EXCEPT !.upload = @ \/ call.after = "upload"]
       IN  page' = IF call.result = "ok" THEN [done EXCEPT !.detail = call.on, !.session = call.on]
                   ELSE [done EXCEPT !.detail = None]
    /\ calls' = Rest(call)
    /\ UNCHANGED <<stored, made, sockets, landed, overlapped>>

\* The handlers of the selects and of the event form render what they got.
WriteArrives(call) ==
    /\ call.kind \in {"status", "event"} /\ call.result # "none"
    /\ page' = IF call.result = "ok" THEN [page EXCEPT !.detail = call.on] ELSE page
    /\ calls' = Rest(call)
    /\ UNCHANGED <<stored, made, sockets, landed, overlapped>>

AnalyzeArrives(call) ==
    /\ call.kind = "analyze" /\ call.result # "none"
    /\ IF call.result = "ok"
         THEN /\ page' = [page EXCEPT !.detail = call.on]
              /\ Requests(<<Asked("list", None, "reanalyze")>>, Rest(call))
         ELSE /\ page' = [page EXCEPT !.reanalyze = TRUE]
              /\ calls' = Rest(call) /\ UNCHANGED <<made, overlapped>>
    /\ UNCHANGED <<stored, sockets, landed>>

UploadArrives(call) ==
    /\ call.kind = "upload" /\ call.result # "none"
    /\ IF call.result = "ok"
         THEN page' = page /\ Requests(<<Asked("list", call.on, "upload")>>, Rest(call))
         ELSE /\ page' = [page EXCEPT !.upload = TRUE]
              /\ calls' = Rest(call) /\ UNCHANGED <<made, overlapped>>
    /\ UNCHANGED <<stored, sockets, landed>>

-----------------------------------------------------------------------------
(* Questions.                                                              *)

Set(i, s) == sockets' = [sockets EXCEPT ![i] = s]

SendContractQuestion ==
    /\ page.selected # None /\ page.send /\ Len(sockets) < MaxAsked
    /\ page' = [page EXCEPT !.send = FALSE]
    /\ sockets' = Append(sockets, [on |-> page.selected, sent |-> None, with |-> None,
                                  phase |-> "connecting", finished |-> FALSE])
    /\ UNCHANGED <<stored, calls, made, landed, overlapped>>

\* onopen sends the session the page has by then.
Opens(i) ==
    /\ sockets[i].phase = "connecting"
    /\ Set(i, [sockets[i] EXCEPT !.phase = "open", !.sent = page.session])
    /\ UNCHANGED <<page, stored, calls, made, landed, overlapped>>

SessionAsSent(requested, on) == requested

\* stream_contract_qa: a session of another contract is replaced by a new one.
SessionFor(requested, on) == IF requested = on THEN requested ELSE on

\* Every message carries the session of the stream, and the page takes it over.
Token(i) ==
    /\ sockets[i].phase = "open"
    /\ LET session == SessionFor(sockets[i].sent, sockets[i].on)
       IN  /\ Set(i, [sockets[i] EXCEPT !.with = session])
           /\ page' = [page EXCEPT !.session = IF session = None THEN @ ELSE session]
    /\ UNCHANGED <<stored, calls, made, landed, overlapped>>

End(i) ==
    /\ sockets[i].phase = "open"
    /\ LET session == SessionFor(sockets[i].sent, sockets[i].on)
       IN  /\ Set(i, [sockets[i] EXCEPT !.finished = TRUE, !.phase = "closing", !.with = session])
           /\ page' = [page EXCEPT !.session = IF session = None THEN @ ELSE session]
    /\ UNCHANGED <<stored, calls, made, landed, overlapped>>

\* An error message, from the service or because of the access.
ErrorMessage(i) ==
    /\ sockets[i].phase = "open"
    /\ Set(i, [sockets[i] EXCEPT !.finished = TRUE, !.phase = "closing"])
    /\ page' = [page EXCEPT !.send = TRUE]
    /\ UNCHANGED <<stored, calls, made, landed, overlapped>>

ConnectionFails(i) ==
    /\ sockets[i].phase \in {"connecting", "open"}
    /\ Set(i, [sockets[i] EXCEPT !.finished = TRUE, !.phase = "closing"])
    /\ page' = [page EXCEPT !.send = TRUE]
    /\ UNCHANGED <<stored, calls, made, landed, overlapped>>

ClosesQuietly(i) ==
    /\ sockets[i].phase \in {"open", "closing"}
    /\ Set(i, [sockets[i] EXCEPT !.phase = "closed"])
    /\ page' = page
    /\ UNCHANGED <<stored, calls, made, landed, overlapped>>

\* onclose, after the end of an answer or in the middle of it.
Closes(i) ==
    /\ sockets[i].phase \in {"open", "closing"}
    /\ Set(i, [sockets[i] EXCEPT !.phase = "closed", !.finished = TRUE])
    /\ page' = [page EXCEPT !.send = TRUE]
    /\ UNCHANGED <<stored, calls, made, landed, overlapped>>

PageNext ==
    \/ \E c \in Contracts : SelectContract(c)
    \/ LoadContracts \/ ChangeStatus \/ SubmitEvent \/ Reanalyze \/ SubmitUpload
    \/ \E call \in calls, fails \in BOOLEAN, new \in Contracts \cup {None} : Serve(call, fails, new)
    \/ \E call \in calls, first \in Contracts \cup {None} : ListArrives(call, first)
    \/ \E call \in calls : DetailArrives(call) \/ WriteArrives(call) \/ AnalyzeArrives(call)
                              \/ UploadArrives(call)
    \/ SendContractQuestion
    \/ \E i \in DOMAIN sockets : Opens(i) \/ Token(i) \/ End(i) \/ ErrorMessage(i)
                                    \/ ConnectionFails(i) \/ Closes(i)

PageSpec == PageInit /\ [][PageNext]_pageVars

-----------------------------------------------------------------------------
(* Properties.                                                             *)

\* The page may carry the session of one contract into the stream of another, when the
\* selection changes between the answer to one call and the next: even so no question about
\* a contract is ever answered in the conversation of another.
SessionOfContract ==
    \A i \in DOMAIN sockets : sockets[i].with # None => sockets[i].with = sockets[i].on

\* While a selection is loading, or after answers have come out of order, the status of an
\* obligation of one contract can be sent to the path of another: it is then refused, so a
\* decision is only ever written for the contract the user was looking at.
DecisionHitsWhatWasShown ==
    \A l \in landed : l.kind = "status" => l.on = l.shown

\* Whatever ends an answer, in whatever order the events of its socket come, no bubble is
\* left pending and no user locked out of asking again.
QuestionsEnd ==
    /\ \A i \in DOMAIN sockets : sockets[i].phase = "closed" => sockets[i].finished
    /\ (\A i \in DOMAIN sockets : sockets[i].phase = "closed") => page.send

\* A user who waits for every answer sees the contract that is selected, or that its data
\* could not be loaded.
PatientUserSeesSelected ==
    calls = {} /\ ~overlapped => page.detail \in {page.selected, None}

\* In whatever order the answers to the page arrive: a question goes to a session of its
\* contract, a decision to the contract shown, every question ends, and whoever waits for the
\* answers sees the selected contract.
PageActsOnItsContract ==
    SessionOfContract /\ DecisionHitsWhatWasShown /\ QuestionsEnd /\ PatientUserSeesSelected

\* Refuted by TLC: what is on the screen is what is selected once all is quiet.
ShownIsSelected ==
    calls = {} => page.detail \in {page.selected, None}

\* Refuted by TLC: an event is recorded for the contract on the screen.
EventHitsWhatWasShown ==
    \A l \in landed : l.kind = "event" => l.shown \in {l.on, None}

\* Refuted by TLC: one question at a time.
OneQuestionAtATime ==
    Cardinality({i \in DOMAIN sockets : sockets[i].phase \in {"connecting", "open"}}) <= 1
=============================================================================
