------------------------------- MODULE Analysis -------------------------------
(***************************************************************************)
(* The analysis of a collected conversation: application/analyze.go         *)
(* reconciles the CRM with what infrastructure/ollama/analyzer.go makes of  *)
(* the messages and of the model's answer, which domain/analysis.go parses. *)
(*                                                                         *)
(* The answer is a sequence of lines, each a label with a value or prose    *)
(* (no label).  Three of the six labels: the probable result, with a fixed  *)
(* set of values, the recommended action, a free text of which only matters *)
(* whether it tells to mark the deal as won, and the last one, with fixed   *)
(* values too.                                                             *)
(***************************************************************************)
EXTENDS Collection, SequencesExt

CONSTANTS Lines,        \* lines a model may write
          MaxLines,     \* bound: lines of an answer
          Window,       \* MaxAnalyzedMessages
          Closing,      \* possibleReceiptClosingWindow
          Context       \* possibleReceiptContextWindow

Labels     == <<"result", "action", "confidence">>
Prose      == "prose"
Accepted   == [result |-> {"venda", "nao venda", "em negociacao", "suporte", "indeterminado"},
               confidence |-> {"baixa", "media", "alta"}]
Enumerated == DOMAIN Accepted
LabelSet   == Range(Labels)

ASSUME AnalysisAssumption ==
    /\ \A l \in Lines : l.label \in LabelSet \cup {Prose}
    /\ {MaxLines, Window, Closing, Context} \subseteq Nat

VARIABLES
    phase,     \* where ExecuteCollected is
    forms,     \* the deal has forms that were filled in
    deal,      \* the deal's status as it was read
    support,   \* its assignee is of the support
    stated,    \* what the model gave as the probable result, on a line with its label
    result     \* what is reported

analysisVars == <<phase, forms, deal, support, stated, result>>
convVars     == <<crmVars, collectVars, analysisVars>>

-----------------------------------------------------------------------------
(* ParseConversationAnalysis. *)

Nothing == [values |-> [l \in LabelSet |-> ""], seen |-> {}, current |-> Prose, twice |-> FALSE]

\* Prose goes to the label above it, but to no enumerated value, and not after the
\* last label or when all are there.  The wrong one (for mutation) lets enumerated
\* values have it.
AbsorbsAny(p) == p.current # Prose /\ p.seen # LabelSet
Absorbs(p) == p.current # Prose /\ p.current \notin Enumerated /\ p.seen # LabelSet

\* A text that tells to mark the deal as won does so whatever is written around it.
Joined(text, more) ==
    IF text = "" THEN more ELSE IF more = "" THEN text
    ELSE IF "win" \in {text, more} THEN "win" ELSE "text"

ReadLine(p, line) ==
    CASE line.label # Prose -> [values  |-> [p.values EXCEPT ![line.label] = line.value],
                                seen    |-> p.seen \cup {line.label},
                                current |-> line.label,
                                twice   |-> p.twice \/ line.label \in p.seen]
      [] line.label = Prose /\ Absorbs(p) ->
            [p EXCEPT !.values[p.current] = Joined(@, line.value)]
      [] OTHER -> p

Parse(answer) == FoldLeft(ReadLine, Nothing, answer)

Valid(p) ==
    /\ ~p.twice /\ p.seen = LabelSet
    /\ \A l \in LabelSet : p.values[l] # ""
    /\ \A l \in Enumerated : p.values[l] \in Accepted[l]

\* What a model may answer, as far as the parser accepts it.
Answers == UNION {[1..n -> Lines] : n \in 0..MaxLines}
Outcomes == {[parsed |-> Parse(a).values["result"],
              action |-> Parse(a).values["action"],
              stated |-> {a[n].value : n \in {n \in DOMAIN a : a[n].label = "result"}}] :
                a \in {a \in Answers : Valid(Parse(a))}}

-----------------------------------------------------------------------------
(* Analyzer.Analyze. *)

\* A group of messages in the order of their dates.
InOrder(group) ==
    CHOOSE s \in [1..Cardinality(group) -> group] : \A j, k \in DOMAIN s : j < k => s[j] < s[k]

\* The sessions' messages and then those of the chats, as Conversation puts them.
Conversation == FlattenSeq([g \in DOMAIN collected |-> InOrder(collected[g])])

Text(i) == log[i].text
File(i) == log[i].file

LastOf(s, n) == SubSeq(s, Len(s) - (IF n < Len(s) THEN n ELSE Len(s)) + 1, Len(s))

\* hasExplicitPaymentEvidence.  The wrong one (for mutation) takes what is denied, or
\* only promised, for paid.
PaidOrDenied(i) == "paid" \in Text(i)
Paid(i) == "paid" \in Text(i) /\ "denied" \notin Text(i)

Evidence == \E i \in Range(LastOf(Conversation, Window)) : Paid(i)

About(i) == Text(i) \cap {"paid", "topic"} # {} /\ "denied" \notin Text(i)

\* possibleReceiptIndexes: a file with a telling name anywhere, an image or PDF among the
\* last messages with somebody talking of payment near it.  The wrong one (for mutation)
\* takes the attendant's files too.
ReceiptOfAny(c, n) ==
    \/ File(c[n]) = "receipt"
    \/ /\ n > Len(c) - Closing /\ File(c[n]) = "image"
       /\ \E k \in DOMAIN c \ {n} : k + Context >= n /\ k <= n + Context /\ About(c[k])
Receipt(c, n) ==
    /\ Client(log[c[n]])
    /\ \/ File(c[n]) = "receipt"
       \/ /\ n > Len(c) - Closing /\ File(c[n]) = "image"
          /\ \E k \in DOMAIN c \ {n} : k + Context >= n /\ k <= n + Context /\ About(c[k])

PossibleReceipt == LET c == Conversation IN \E n \in DOMAIN c : Receipt(c, n)

-----------------------------------------------------------------------------
(* Analyze.ExecuteCollected. *)

\* A recommended action: whose words it is in, and what it says.
Advices == [by : {"model"}, says : {"win", "other"}] \cup
           [by : {"program"}, says : {"none", "await", "receipt", "win", "record"}]

AnalysisTypeOK ==
    /\ CollectionTypeOK
    /\ phase \in {"waiting", "status", "role", "model", "done", "failed"}
    /\ forms \in BOOLEAN
    /\ deal \in [stage : {"P", "S", "F", None}, open : BOOLEAN]
    /\ support \in BOOLEAN
    /\ stated \subseteq Accepted["result"]
    /\ result = None \/ result \in [status : {"AVAILABLE", "EMPTY", "NO_CONVERSATION", "ACCESS_DENIED"},
                                    state : Accepted["result"], final : Accepted["result"],
                                    advice : Advices]

AnalysisInit ==
    /\ CollectionInit
    /\ phase = "waiting" /\ forms = FALSE /\ deal = [stage |-> None, open |-> FALSE]
    /\ support = FALSE /\ stated = {} /\ result = None

ReadForms ==
    /\ pc = "collected" /\ phase = "waiting"
    /\ forms' \in BOOLEAN
    /\ phase' = "status"
    /\ UNCHANGED <<crmVars, collectVars, deal, support, stated, result>>

ReadStatus ==
    /\ phase = "status"
    /\ deal' = [stage |-> stage, open |-> closed = None]
    /\ phase' = "role"
    /\ UNCHANGED <<crmVars, collectVars, forms, support, stated, result>>

\* Asked only of an open deal that has an assignee.
ReadRole ==
    /\ phase = "role"
    /\ support' \in IF deal.open THEN BOOLEAN ELSE {FALSE}
    /\ phase' = "model"
    /\ UNCHANGED <<crmVars, collectVars, forms, deal, stated, result>>

Unavailable == status = "ACCESS_DENIED" \/ (Collected = {} /\ ~forms)

Program(words) == [by |-> "program", says |-> words]
Model(words)   == [by |-> "model", says |-> IF words = "win" THEN "win" ELSE "other"]

Reports(r) ==
    /\ result' = r
    /\ phase' = "done"
    /\ UNCHANGED <<crmVars, collectVars, forms, deal, support>>

\* unavailableConversationResult.
ReportUnavailable ==
    /\ phase = "model" /\ Unavailable
    /\ Reports([status |-> status, state |-> "indeterminado", advice |-> Program("none"),
                final |-> CASE deal.stage = "S" -> "venda"
                            [] deal.stage = "F" -> "nao venda"
                            [] deal.stage = "P" /\ support -> "suporte"
                            [] OTHER -> "indeterminado"])
    /\ UNCHANGED stated

\* A sale that nobody speaks of is still in negotiation.
Checked(answer) == IF answer = "venda" /\ ~Evidence THEN "em negociacao" ELSE answer

\* The advice of Analyze, then that of reconcile: the model's words stand unless a rule of
\* the program has its own.
Advice(answer, action, state) ==
    CASE state = "em negociacao" /\ PossibleReceipt -> Program("receipt")
      [] state # answer /\ ~PossibleReceipt         -> Program("await")
      [] OTHER                                      -> Model(action)

Reconciled(state, advice) ==
    CASE deal.stage = "S" -> [final |-> "venda", advice |-> Program(IF state = "venda" THEN "none" ELSE "record")]
      [] deal.stage = "F" -> [final |-> "nao venda", advice |-> IF state = "nao venda" THEN advice ELSE Program("record")]
      [] deal.stage = "P" /\ support -> [final |-> "suporte", advice |-> advice]
      [] OTHER -> [final |-> state, advice |-> IF state = "venda" THEN Program("win") ELSE advice]

Analyze ==
    /\ phase = "model" /\ ~Unavailable
    /\ \E o \in Outcomes :
          LET state == Checked(o.parsed)
              r == Reconciled(state, Advice(o.parsed, o.action, state))
          IN  /\ Reports([status |-> "AVAILABLE", state |-> state,
                          final |-> r.final, advice |-> r.advice])
              /\ stated' = o.stated

AnalysisFails ==
    /\ pc = "collected" /\ phase \notin {"done", "failed"}
    /\ phase' = "failed"
    /\ UNCHANGED <<crmVars, collectVars, forms, deal, support, stated, result>>

Execute == ReadForms \/ ReadStatus \/ ReadRole \/ ReportUnavailable \/ Analyze \/ AnalysisFails

ConversationNext ==
    \/ CollectionNext /\ UNCHANGED analysisVars
    \/ Execute

ConversationSpec == AnalysisInit /\ [][ConversationNext]_convVars
-----------------------------------------------------------------------------
(* Properties. *)

\* A sale is reported of a deal the CRM has not won only if the model said so on the line
\* for it and somebody in the deal's own conversation said it is paid.  The prose
\* around the answer, a promise or a receipt make no sale.
SaleIsGrounded ==
    result # None /\ result.final = "venda" /\ deal.stage # "S" =>
        /\ stated = {"venda"}
        /\ \E i \in Collected : "paid" \in Text(i) /\ "denied" \notin Text(i)

\* To mark a deal as won is advised for an explicit payment or a file of the client; the
\* words of the model pass without either only beside its own result that is no sale.
\* A sale it claims without a payment takes its advice along.
AdviceIsGrounded ==
    result # None /\ result.advice.says \in {"win", "receipt"} =>
        \/ \E i \in Collected : \/ "paid" \in Text(i) /\ "denied" \notin Text(i)
                                \/ Client(log[i]) /\ File(i) # "none"
        \/ result.advice.by = "model" /\ stated = {result.state} /\ result.state # "venda"
=============================================================================
