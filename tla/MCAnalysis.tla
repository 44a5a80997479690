------------------------------ MODULE MCAnalysis ------------------------------
(* Values of the constants of the collection and the analysis for TLC. *)
EXTENDS Analysis

CONSTANTS s1, s2, dc, cc

M(in, sender, text, file) == [in |-> in, sender |-> sender, text |-> text, file |-> file]
ClientIs  == {"known", "client", "staff"}
ManagerIs == {"manager", "client"}

MCKinds == {
    M({s1, dc}, ClientIs, {"words", "topic"}, "none"),
    M({cc}, ClientIs, {"words", "paid"}, "none"),
    M({cc}, ClientIs, {}, "image"),
    M({cc, dc}, ClientIs, {"words", "paid", "denied"}, "none"),
    M({dc}, {"known", "bot"}, {"words", "paid"}, "none"),
    M({s2}, ManagerIs, {"words"}, "receipt"),
    M({s1}, ClientIs, {}, "none") }

\* What no later step reads and no property looks at: CLOSEDATE once it was read, what was
\* seen once the histories were, everything when the collection has failed, and what is
\* written after it has ended.
Known == {i \in DOMAIN log : i <= atStart \/ i \in Collected}
ConversationView ==
    CASE pc = "failed" -> <<phase>>
      [] pc = "collected" ->
            <<[i \in Known |-> log[i]], opened, {i \in Known : closed # None /\ i <= closed},
              closed = None, closed = period.end, stage,
              activities, period, collected, status, atStart, analysisVars>>
      [] OTHER ->
            <<log, opened, closed, stage, collectVars, analysisVars,
              IF pc \in {"idle", "activities", "sessions", "deal"} THEN closeDate ELSE None>>

Line(label, value) == [label |-> label, value |-> value]
MCLines == { Line("result", "venda"), Line("result", "indeterminado"), Line("result", ""),
             Line("action", "text"), Line("action", "win"), Line("confidence", "alta"),
             Line(Prose, "venda"), Line(Prose, "win") }
=============================================================================
