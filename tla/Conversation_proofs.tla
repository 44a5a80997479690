-------------------------- MODULE Conversation_proofs --------------------------
(***************************************************************************)
(* What the collection of a conversation keeps and loses, and what the      *)
(* analysis makes of it, for any sessions, chats, messages and answers of   *)
(* the model.                                                              *)
(*                                                                         *)
(* The groups of messages are first reduced to the set of what they hold:   *)
(* each step adds a set to it, or empties it.  What is then kept of a       *)
(* message is one of two things: it is collected, or a history that shows   *)
(* it is still to be read.                                                  *)
(*                                                                         *)
(* The analysis is then reduced to two facts: an answer that is accepted    *)
(* says of the probable result what was made of it, and the conversation,   *)
(* put in order and cut to a window, holds collected messages only.  Both   *)
(* are about recursive functions, of which it is shown first that they      *)
(* exist.                                                                  *)
(***************************************************************************)
EXTENDS Analysis, FiniteSetTheorems, WellFoundedInduction, TLAPS

-----------------------------------------------------------------------------
(* Types. *)

LEMMA SeqOfMore ==
    ASSUME NEW S, NEW T, S \subseteq T, NEW s \in Seq(S)
    PROVE  s \in Seq(T)
OBVIOUS

LEMMA LastGrows ==
    ASSUME NEW D, NEW s \in Seq(SUBSET D), NEW X \in SUBSET D
    PROVE  [s EXCEPT ![Len(s)] = @ \cup X] \in Seq(SUBSET D)
<1> DEFINE t == [s EXCEPT ![Len(s)] = @ \cup X]
<1>1. DOMAIN t = 1..Len(s) /\ Len(s) \in Nat
  OBVIOUS
<1>2. ASSUME NEW g \in 1..Len(s) PROVE t[g] \in SUBSET D
  <2>1. s[g] \in SUBSET D
    OBVIOUS
  <2>2. t[g] = IF g = Len(s) THEN s[g] \cup X ELSE s[g]
    BY <1>1
  <2>3. QED
    BY <2>1, <2>2
<1>3. t \in [1..Len(s) -> SUBSET D]
  BY <1>1, <1>2
<1> HIDE DEF t
<1>4. t \in Seq(SUBSET D)
  BY <1>1, <1>3
<1>5. QED
  BY <1>4 DEF t

LEMMA TypeStep ==
    CollectionTypeOK /\ [CollectionNext]_<<crmVars, collectVars>> => CollectionTypeOK'
<1> SUFFICES ASSUME CollectionTypeOK, [CollectionNext]_<<crmVars, collectVars>>
             PROVE  CollectionTypeOK'
  OBVIOUS
<1> USE DEF CollectionTypeOK, crmVars, collectVars
<1>1. ASSUME NEW m \in Kinds, Write(m) PROVE CollectionTypeOK'
  <2>1. log' \in Seq(Kinds) /\ Len(log') = Len(log) + 1 /\ DOMAIN log \subseteq DOMAIN log'
    BY <1>1 DEF Write
  <2>2. collected' \in Seq(SUBSET DOMAIN log')
    BY <1>1, <2>1, SeqOfMore DEF Write
  <2>3. QED
    BY <1>1, <2>1, <2>2 DEF Write
<1>2. ASSUME Open PROVE CollectionTypeOK'
  BY <1>2 DEF Open
<1>3. ASSUME NEW outcome \in {"S", "F"}, Close(outcome) PROVE CollectionTypeOK'
  BY <1>3 DEF Close
<1>17. ASSUME NEW n \in 0..MaxMessages - 1, Plan(n) PROVE CollectionTypeOK'
  BY <1>17, CollectionAssumption DEF Plan
<1>4. ASSUME Begin PROVE CollectionTypeOK'
  BY <1>4 DEF Begin, Goto, Steps
<1>5. ASSUME ListActivities PROVE CollectionTypeOK'
  <2>1. activities' \subseteq Sessions
    BY <1>5 DEF ListActivities, Pages, Listed
  <2>2. QED
    BY <1>5, <2>1 DEF ListActivities, Goto, Steps, Places
<1>6. ASSUME ListDealChats PROVE CollectionTypeOK'
  BY <1>6 DEF ListDealChats, Goto, Steps, Listed, Places
<1>7. ASSUME GetDeal PROVE CollectionTypeOK'
  BY <1>7 DEF GetDeal, Goto, Steps
<1>8. ASSUME ListContactChats PROVE CollectionTypeOK'
  BY <1>8 DEF ListContactChats, Goto, Steps, Listed, Places
<1>9. ASSUME NEW s \in Sessions, ReadSession(s) PROVE CollectionTypeOK'
  <2>1. {i \in Shows(s) : ~Blank(i)} \in SUBSET DOMAIN log
    BY DEF Shows
  <2>2. collected' \in Seq(SUBSET DOMAIN log)
    BY <1>9, <2>1 DEF ReadSession
  <2>3. QED
    BY <1>9, <2>2 DEF ReadSession
<1>10. ASSUME NEW c \in DealChats \cup ContactChats, ReadHistory(c) PROVE CollectionTypeOK'
  <2> DEFINE X == {i \in Shows(c) \ seen : ~Blank(i) /\ (c \in DealChats \/ Within(i))}
  <2>1. Shows(c) \subseteq DOMAIN log /\ X \subseteq DOMAIN log
    BY DEF Shows
  <2>2. collected' = [collected EXCEPT ![Len(collected)] = @ \cup X]
    BY <1>10 DEF ReadHistory
  <2> HIDE DEF X
  <2>3. collected' \in Seq(SUBSET DOMAIN log)
    BY <2>1, <2>2, LastGrows
  <2>4. QED
    BY <1>10, <2>1, <2>3 DEF ReadHistory
<1>11. ASSUME Assemble PROVE CollectionTypeOK'
  BY <1>11 DEF Assemble, Ends, Goto, Steps
<1>12. ASSUME Locate PROVE CollectionTypeOK'
  BY <1>12 DEF Locate, Ends, Goto, Steps
<1>13. ASSUME Deny PROVE CollectionTypeOK'
  BY <1>13 DEF Deny, Ends, Goto, Steps
<1>14. ASSUME CollectionFails PROVE CollectionTypeOK'
  BY <1>14 DEF CollectionFails, Goto, Steps
<1>15. CASE UNCHANGED <<crmVars, collectVars>>
  BY <1>15
<1>16. QED
  BY <1>1, <1>2, <1>3, <1>4, <1>5, <1>6, <1>7, <1>8, <1>9, <1>10, <1>11, <1>12, <1>13,
     <1>14, <1>15, <1>17 DEF CollectionNext, Crm, Collect

\* The collection keeps its types.
THEOREM CollectionTypeCorrect == CollectionSpec => []CollectionTypeOK
<1>1. CollectionInit => CollectionTypeOK
  BY CollectionAssumption DEF CollectionInit, CollectionTypeOK, Steps
<1>2. QED
  BY <1>1, TypeStep, PTL DEF CollectionSpec

-----------------------------------------------------------------------------
(* The set of what is collected. *)

LEMMA UnionOfAppended ==
    ASSUME NEW D, NEW s \in Seq(SUBSET D), NEW X \in SUBSET D
    PROVE  UNION {Append(s, X)[g] : g \in DOMAIN Append(s, X)}
               = (UNION {s[g] : g \in DOMAIN s}) \cup X
<1> DEFINE t == Append(s, X)
<1>1. DOMAIN t = 1..Len(s) + 1 /\ DOMAIN s = 1..Len(s) /\ Len(s) \in Nat
  OBVIOUS
<1>2. t[Len(s) + 1] = X /\ \A g \in 1..Len(s) : t[g] = s[g]
  OBVIOUS
<1> HIDE DEF t
<1>3. UNION {t[g] : g \in DOMAIN t} = (UNION {s[g] : g \in DOMAIN s}) \cup X
  BY <1>1, <1>2
<1>4. QED
  BY <1>3 DEF t

LEMMA UnionOfGrown ==
    ASSUME NEW D, NEW s \in Seq(SUBSET D), NEW X \in SUBSET D, s # <<>>
    PROVE  LET t == [s EXCEPT ![Len(s)] = @ \cup X]
           IN  UNION {t[g] : g \in DOMAIN t} = (UNION {s[g] : g \in DOMAIN s}) \cup X
<1> DEFINE t == [s EXCEPT ![Len(s)] = @ \cup X]
<1>1. DOMAIN t = 1..Len(s) /\ DOMAIN s = 1..Len(s) /\ Len(s) \in Nat /\ Len(s) # 0
  OBVIOUS
<1>2. Len(s) \in 1..Len(s)
  BY <1>1
<1>3. t[Len(s)] = s[Len(s)] \cup X /\ \A g \in 1..Len(s) : g # Len(s) => t[g] = s[g]
  BY <1>1, <1>2, Zenon
<1> HIDE DEF t
<1>4. UNION {t[g] : g \in DOMAIN t} = (UNION {s[g] : g \in DOMAIN s}) \cup X
  BY <1>1, <1>2, <1>3
<1>5. QED
  BY <1>4 DEF t

\* Where the collection stands, what it knows of the deal's dates, and that a group
\* exists when a history is read.
Started ==
    /\ CollectionTypeOK
    /\ closed # None => opened # None
    /\ pc # "idle" => opened # None
    /\ pc \in {"idle", "activities", "failed"} => collected = <<>>
    /\ status = "ACCESS_DENIED" /\ pc = "collected" => collected = <<>>
    /\ pc = "collected" <=> status # None
    /\ pc = "histories" => collected # <<>>
    /\ \/ pc \in {"contactChats", "histories", "locating"}
       \/ pc = "collected" /\ status # "ACCESS_DENIED"
       => period.start = opened

vars == <<crmVars, collectVars>>

\* The cases of a step, for the proofs that a step keeps something.
LEMMA StepCases ==
    [CollectionNext]_vars =>
        \/ \E m \in Kinds : Write(m)
        \/ Open
        \/ \E n \in 0..MaxMessages - 1 : Plan(n)
        \/ \E outcome \in {"S", "F"} : Close(outcome)
        \/ Begin \/ ListActivities \/ ListDealChats \/ GetDeal \/ ListContactChats
        \/ \E s \in Sessions : ReadSession(s)
        \/ \E c \in DealChats \cup ContactChats : ReadHistory(c)
        \/ Assemble \/ Locate \/ Deny \/ CollectionFails
        \/ UNCHANGED vars
BY DEF CollectionNext, Crm, Collect, vars

LEMMA StartedStep == Started /\ [CollectionNext]_vars => Started'
<1> SUFFICES ASSUME Started, [CollectionNext]_vars PROVE Started'
  OBVIOUS
<1>0. CollectionTypeOK /\ CollectionTypeOK'
  BY TypeStep DEF Started, vars
<1> USE <1>0 DEF Started, crmVars, collectVars
<1>1. ASSUME NEW m \in Kinds, Write(m) PROVE Started'
  BY <1>1 DEF Write
<1>2. ASSUME Open PROVE Started'
  BY <1>2 DEF Open
<1>17. ASSUME NEW n \in 0..MaxMessages - 1, Plan(n) PROVE Started'
  BY <1>17 DEF Plan
<1>3. ASSUME NEW outcome \in {"S", "F"}, Close(outcome) PROVE Started'
  BY <1>3 DEF Close
<1>4. ASSUME Begin PROVE Started'
  BY <1>4 DEF Begin, Goto
<1>5. ASSUME ListActivities PROVE Started'
  BY <1>5 DEF ListActivities, Goto
<1>6. ASSUME ListDealChats PROVE Started'
  BY <1>6 DEF ListDealChats, Goto
<1>7. ASSUME GetDeal PROVE Started'
  BY <1>7 DEF GetDeal, Goto
<1>8. ASSUME ListContactChats PROVE Started'
  <2>1. collected' # <<>>
    BY <1>8 DEF ListContactChats, CollectionTypeOK
  <2>2. QED
    BY <1>8, <2>1 DEF ListContactChats, Goto
<1>9. ASSUME NEW s \in Sessions, ReadSession(s) PROVE Started'
  BY <1>9 DEF ReadSession
<1>10. ASSUME NEW c \in DealChats \cup ContactChats, ReadHistory(c) PROVE Started'
  <2>1. Len(collected') = Len(collected) /\ Len(collected) # 0 /\ collected' \in Seq(SUBSET DOMAIN log')
    BY <1>10 DEF ReadHistory, CollectionTypeOK
  <2>2. collected' # <<>>
    BY <2>1
  <2>3. QED
    BY <1>10, <2>2 DEF ReadHistory
<1>11. ASSUME Assemble PROVE Started'
  BY <1>11, CollectionAssumption DEF Assemble, Ends, Goto
<1>12. ASSUME Locate PROVE Started'
  BY <1>12, CollectionAssumption DEF Locate, Ends, Goto
<1>13. ASSUME Deny PROVE Started'
  BY <1>13, CollectionAssumption DEF Deny, Ends, Goto
<1>14. ASSUME CollectionFails PROVE Started'
  BY <1>14 DEF CollectionFails, Goto
<1>15. CASE UNCHANGED vars
  BY <1>15 DEF vars
<1>16. QED
  BY StepCases, <1>1, <1>2, <1>3, <1>4, <1>5, <1>6, <1>7, <1>8, <1>9, <1>10, <1>11, <1>12,
     <1>13, <1>14, <1>15, <1>17

\* What a step adds to the set.
LEMMA SessionAdds ==
    ASSUME CollectionTypeOK, NEW s \in Sessions, ReadSession(s)
    PROVE  Collected' = Collected \cup {i \in Shows(s) : ~Blank(i)}
<1> DEFINE X == {i \in Shows(s) : ~Blank(i)}
<1>1. X \in SUBSET DOMAIN log /\ collected \in Seq(SUBSET DOMAIN log) /\ collected' = Append(collected, X)
  BY DEF ReadSession, Shows, CollectionTypeOK
<1> HIDE DEF X
<1>2. Collected' = Collected \cup X
  BY <1>1, UnionOfAppended DEF Collected
<1>3. QED
  BY <1>2 DEF X

LEMMA ContactChatsAdd ==
    ASSUME CollectionTypeOK, ListContactChats
    PROVE  Collected' = Collected
<1>1. collected \in Seq(SUBSET DOMAIN log) /\ collected' = Append(collected, {})
  BY DEF ListContactChats, CollectionTypeOK
<1>2. Collected' = Collected \cup {}
  BY <1>1, UnionOfAppended DEF Collected
<1>3. QED
  BY <1>2

LEMMA HistoryAdds ==
    ASSUME Started, NEW c \in DealChats \cup ContactChats, ReadHistory(c)
    PROVE  Collected' = Collected \cup {i \in Shows(c) \ seen :
                                           ~Blank(i) /\ (c \in DealChats \/ Within(i))}
<1> DEFINE X == {i \in Shows(c) \ seen : ~Blank(i) /\ (c \in DealChats \/ Within(i))}
<1>1. /\ X \in SUBSET DOMAIN log /\ collected \in Seq(SUBSET DOMAIN log) /\ collected # <<>>
      /\ collected' = [collected EXCEPT ![Len(collected)] = @ \cup X]
  BY DEF ReadHistory, Shows, CollectionTypeOK, Started
<1> HIDE DEF X
<1>2. Collected' = Collected \cup X
  BY <1>1, UnionOfGrown DEF Collected
<1>3. QED
  BY <1>2 DEF X

LEMMA NothingAdds ==
    /\ collected' = collected => Collected' = Collected
    /\ collected = <<>> => Collected = {}
    /\ collected' = <<>> => Collected' = {}
BY DEF Collected

LEMMA CollectedAreWritten ==
    ASSUME CollectionTypeOK PROVE Collected \subseteq DOMAIN log
BY DEF CollectionTypeOK, Collected

\* What is said of a message lasts as long as its entry.
LEMMA EntriesLast ==
    ASSUME CollectionTypeOK, [CollectionNext]_vars, NEW i \in DOMAIN log
    PROVE  /\ i \in DOMAIN log' /\ log'[i] = log[i]
           /\ Human(i)' <=> Human(i)
           /\ Blank(i)' <=> Blank(i)
           /\ OfDeal(i)' <=> OfDeal(i)
           /\ OfContact(i)' <=> OfContact(i)
<1>1. i \in DOMAIN log' /\ log'[i] = log[i]
  <2>1. ASSUME NEW m \in Kinds, Write(m) PROVE i \in DOMAIN log' /\ log'[i] = log[i]
    BY <2>1 DEF Write, CollectionTypeOK
  <2>2. ASSUME log' = log PROVE i \in DOMAIN log' /\ log'[i] = log[i]
    BY <2>2
  <2>3. log' = log \/ \E m \in Kinds : Write(m)
    BY StepCases DEF Open, Plan, Close, Begin, ListActivities, ListDealChats, GetDeal,
       ListContactChats, ReadSession, ReadHistory, Assemble, Ends, Locate, Deny, CollectionFails, vars,
       crmVars
  <2>4. QED
    BY <2>1, <2>2, <2>3
<1>2. QED
  BY <1>1 DEF Human, Attendant, Client, Blank, OfDeal, OfContact

-----------------------------------------------------------------------------
(* What is collected is of the deal. *)

\* Before the dates are known only the deal's own messages are taken.
OwnFirst == pc \in {"sessions", "deal"} => \A i \in Collected : OfDeal(i)

LEMMA ShownIsIn ==
    ASSUME NEW c, NEW i PROVE i \in Shows(c) <=> i \in DOMAIN log /\ c \in log[i].in /\ Human(i)
BY DEF Shows

DealInv == Started /\ CollectionIsOfDeal /\ OwnFirst

LEMMA DealStep == DealInv /\ [CollectionNext]_vars => DealInv'
<1> SUFFICES ASSUME DealInv, [CollectionNext]_vars PROVE DealInv'
  OBVIOUS
<1> DEFINE InPeriod(i) ==
       OfContact(i) /\ i > opened /\ (closed # None => i <= closed \/ period.end # closed)
<1>0. Started /\ Started' /\ CollectionTypeOK /\ CollectionTypeOK'
  BY StartedStep DEF DealInv, Started
<1>1. ASSUME NEW i \in Collected
      PROVE  /\ i \in DOMAIN log /\ i \in Nat
             /\ Human(i) /\ ~Blank(i) /\ (OfDeal(i) \/ InPeriod(i))
             /\ Human(i)' /\ ~Blank(i)'
             /\ OfDeal(i)' <=> OfDeal(i)
             /\ OfContact(i)' <=> OfContact(i)
             /\ pc \in {"sessions", "deal"} => OfDeal(i)
  <2>1. i \in DOMAIN log /\ i \in Nat
    BY <1>0, CollectedAreWritten DEF CollectionTypeOK
  <2>2. Human(i) /\ ~Blank(i) /\ (OfDeal(i) \/ InPeriod(i))
    BY DEF DealInv, CollectionIsOfDeal
  <2>3. /\ Human(i)' <=> Human(i)
        /\ Blank(i)' <=> Blank(i)
        /\ OfDeal(i)' <=> OfDeal(i)
        /\ OfContact(i)' <=> OfContact(i)
    BY <1>0, <2>1, EntriesLast
  <2>4. QED
    BY <2>1, <2>2, <2>3 DEF DealInv, OwnFirst
\* Steps that collect nothing.
<1>2. ASSUME Collected' = Collected, period' = period,
             \/ opened' = opened /\ closed' = closed
             \/ opened' = opened /\ closed = None /\ closed' = Len(log),
             pc' \in {"sessions", "deal"} => pc \in {"sessions", "deal"} \/ Collected = {}
      PROVE  DealInv'
  <2>1. ASSUME NEW i \in Collected'
        PROVE  /\ Human(i)' /\ ~Blank(i)' /\ (OfDeal(i)' \/ InPeriod(i)')
               /\ pc' \in {"sessions", "deal"} => OfDeal(i)'
    <3>1. i <= Len(log)
      BY <1>1, <1>2, <2>1, <1>0 DEF CollectionTypeOK
    <3>2. QED
      BY <1>1, <1>2, <2>1, <3>1
  <2>2. QED
    BY <1>0, <2>1 DEF DealInv, CollectionIsOfDeal, OwnFirst
<1>3. ASSUME Collected' = {} PROVE DealInv'
  BY <1>0, <1>3 DEF DealInv, CollectionIsOfDeal, OwnFirst
<1>4. ASSUME NEW m \in Kinds, Write(m) PROVE DealInv'
  BY <1>2, <1>4, NothingAdds DEF Write, collectVars
<1>5. ASSUME Open PROVE DealInv'
  <2>1. collected' = <<>>
    BY <1>0, <1>5 DEF Open, Started, collectVars
  <2>2. QED
    BY <1>3, <2>1, NothingAdds
<1>6. ASSUME NEW outcome \in {"S", "F"}, Close(outcome) PROVE DealInv'
  BY <1>2, <1>6, NothingAdds DEF Close, collectVars
<1>20. ASSUME NEW n \in 0..MaxMessages - 1, Plan(n) PROVE DealInv'
  BY <1>2, <1>20, NothingAdds DEF Plan, collectVars
<1>7. ASSUME Begin PROVE DealInv'
  BY <1>2, <1>7, NothingAdds DEF Begin, Goto, crmVars
<1>8. ASSUME ListActivities PROVE DealInv'
  <2>1. collected' = <<>>
    BY <1>0, <1>8 DEF ListActivities, Started
  <2>2. QED
    BY <1>3, <2>1, NothingAdds
<1>9. ASSUME ListDealChats PROVE DealInv'
  BY <1>2, <1>9, NothingAdds DEF ListDealChats, Goto, crmVars
<1>10. ASSUME GetDeal PROVE DealInv'
  <2>1. Collected' = Collected /\ pc = "deal" /\ pc' = "contactChats"
    BY <1>10, NothingAdds DEF GetDeal, Goto
  <2>2. ASSUME NEW i \in Collected' PROVE Human(i)' /\ ~Blank(i)' /\ OfDeal(i)'
    BY <1>1, <2>1, <2>2
  <2>3. QED
    BY <1>0, <2>1, <2>2 DEF DealInv, CollectionIsOfDeal, OwnFirst
<1>11. ASSUME ListContactChats PROVE DealInv'
  BY <1>0, <1>2, <1>11, ContactChatsAdd DEF ListContactChats, Goto, crmVars
<1>12. ASSUME NEW s \in Sessions, ReadSession(s) PROVE DealInv'
  <2>1. Collected' = Collected \cup {i \in Shows(s) : ~Blank(i)}
    BY <1>0, <1>12, SessionAdds
  <2>2. pc = "sessions" /\ UNCHANGED <<crmVars, pc, period>>
    BY <1>12 DEF ReadSession
  <2>3. ASSUME NEW i \in Shows(s), ~Blank(i) PROVE Human(i)' /\ ~Blank(i)' /\ OfDeal(i)'
    <3>1. i \in DOMAIN log /\ Human(i) /\ OfDeal(i)
      BY DEF Shows, OfDeal
    <3>2. QED
      BY <1>0, <2>3, <3>1, EntriesLast
  <2>4. ASSUME NEW i \in Collected' PROVE Human(i)' /\ ~Blank(i)' /\ OfDeal(i)'
    BY <1>1, <2>1, <2>2, <2>3, <2>4
  <2>5. QED
    BY <1>0, <2>4 DEF DealInv, CollectionIsOfDeal, OwnFirst
<1>13. ASSUME NEW c \in DealChats \cup ContactChats, ReadHistory(c) PROVE DealInv'
  <2>1. Collected' = Collected \cup {i \in Shows(c) \ seen : ~Blank(i) /\ (c \in DealChats \/ Within(i))}
    BY <1>0, <1>13, HistoryAdds
  <2>2. pc = "histories" /\ pc' = pc /\ UNCHANGED <<log, opened, closed, period>>
    BY <1>13 DEF ReadHistory, crmVars
  <2>3. period.start = opened /\ opened \in Nat
    BY <1>0, <2>2 DEF Started, CollectionTypeOK
  <2>4. ASSUME NEW i \in Shows(c), ~Blank(i), c \in DealChats \/ Within(i)
        PROVE  Human(i)' /\ ~Blank(i)' /\ (OfDeal(i)' \/ InPeriod(i)')
    <3>1. i \in DOMAIN log /\ Human(i) /\ (OfDeal(i) \/ (OfContact(i) /\ c \notin DealChats))
      BY ShownIsIn DEF OfDeal, OfContact
    <3>2. /\ Human(i)' /\ ~Blank(i)' /\ (OfDeal(i)' <=> OfDeal(i))
          /\ OfContact(i)' <=> OfContact(i)
      BY <1>0, <2>4, <3>1, EntriesLast
    <3>3. ASSUME c \notin DealChats PROVE i > opened /\ (closed # None => i <= closed \/ period.end # closed)
      BY <2>3, <2>4, <3>3, CollectionAssumption DEF Within
    <3>4. QED
      BY <2>2, <3>1, <3>2, <3>3
  <2>5. ASSUME NEW i \in Collected
        PROVE  Human(i)' /\ ~Blank(i)' /\ (OfDeal(i)' \/ InPeriod(i)')
    BY <1>1, <2>2, <2>5
  <2>6. ASSUME NEW i \in Collected'
        PROVE  Human(i)' /\ ~Blank(i)' /\ (OfDeal(i)' \/ InPeriod(i)')
    BY <2>1, <2>4, <2>5, <2>6
  <2>7. QED
    BY <1>0, <2>2, <2>6 DEF DealInv, CollectionIsOfDeal, OwnFirst
<1>14. ASSUME Assemble PROVE DealInv'
  BY <1>2, <1>14, NothingAdds DEF Assemble, Ends, Goto, crmVars
<1>15. ASSUME Locate PROVE DealInv'
  BY <1>2, <1>15, NothingAdds DEF Locate, Ends, Goto, crmVars
<1>16. ASSUME Deny PROVE DealInv'
  BY <1>3, <1>16, NothingAdds DEF Deny
<1>17. ASSUME CollectionFails PROVE DealInv'
  BY <1>3, <1>17, NothingAdds DEF CollectionFails
<1>18. CASE UNCHANGED vars
  BY <1>2, <1>18, NothingAdds DEF vars, crmVars, collectVars
<1>19. QED
  BY StepCases, <1>4, <1>5, <1>6, <1>7, <1>8, <1>9, <1>10, <1>11, <1>12, <1>13, <1>14, <1>15,
     <1>16, <1>17, <1>18, <1>20

\* Whatever is written and whenever the deal is closed while its conversation is being
\* collected, nothing of another deal's or of a bot's is taken for it.
THEOREM CollectedIsOfDeal == CollectionSpec => []CollectionIsOfDeal
<1>1. CollectionInit => DealInv
  <2> SUFFICES ASSUME CollectionInit PROVE DealInv
    OBVIOUS
  <2>1. Started
    BY CollectionAssumption DEF CollectionInit, CollectionTypeOK, Started, Steps
  <2>2. Collected = {}
    BY NothingAdds DEF CollectionInit
  <2>3. QED
    BY <2>1, <2>2 DEF DealInv, CollectionIsOfDeal, OwnFirst
<1>2. DealInv => CollectionIsOfDeal
  BY DEF DealInv
<1>3. QED
  BY <1>1, <1>2, DealStep, PTL DEF CollectionSpec, vars

-----------------------------------------------------------------------------
(* Nothing is lost. *)

Good(i) == Human(i) /\ ~Blank(i)
Due(i)  == \/ \E p \in log[i].in \cap (Sessions \cup DealChats) : ~OffPage(p)
           \/ OfContact(i) /\ i > opened /\ (period.end # None => i <= period.end)
Found   == pc = "collected" /\ status # "ACCESS_DENIED"

\* The sessions of the page that was read; all of them, when it is not full.
Reached == {s \in Sessions : ~OffPage(s)}

\* A message these places show is collected, or one of them is still to be read.
Kept(i, places) == \A p \in places : p \in log[i].in => i \in Collected \/ p \in left

Keeps(i) ==
    /\ pc = "sessions" => Kept(i, Reached)
    /\ pc \in {"deal", "contactChats", "histories"} =>
          /\ \A s \in Reached : s \in log[i].in => i \in Collected
          /\ Kept(i, DealChats)
    /\ pc = "histories" /\ Within(i) => Kept(i, ContactChats)
    /\ pc = "locating" \/ Found => (Due(i) => i \in Collected)

\* What is passed over for having been seen is collected, or was shown by a chat of the
\* contact only and is not of the period: that is why the deal's chats are read first.
Remembered(i) ==
    /\ left \cap DealChats # {} => i \in Collected
    /\ Within(i) => i \in Collected

CompleteInv ==
    /\ Started
    /\ \A i \in 1..atStart : Good(i) => Keeps(i)
    /\ pc = "histories" => \A i \in seen : ~Blank(i) => Remembered(i)
    /\ pc \in {"idle", "activities", "sessions", "deal", "contactChats"} => seen = {}

LEMMA KeepsStep ==
    ASSUME CompleteInv, [CollectionNext]_vars, NEW i \in 1..atStart', Good(i)'
    PROVE  Keeps(i)'
<1>1. Started /\ Started' /\ CollectionTypeOK /\ CollectionTypeOK'
  BY StartedStep DEF CompleteInv, Started
<1>2. CASE Begin
  BY <1>2 DEF Begin, Goto, Keeps, Found
<1> SUFFICES ASSUME ~Begin PROVE Keeps(i)'
  BY <1>2
<1>3. atStart' = atStart
  BY StepCases DEF Write, Open, Plan, Close, ListActivities, ListDealChats, GetDeal, ListContactChats,
     ReadSession, ReadHistory, Assemble, Ends, Locate, Deny, CollectionFails, vars, collectVars
<1>4. i \in DOMAIN log /\ i \in Nat
  BY <1>1, <1>3 DEF CollectionTypeOK
<1>5. /\ i \in DOMAIN log' /\ log'[i] = log[i]
      /\ Human(i)' <=> Human(i)
      /\ Blank(i)' <=> Blank(i)
      /\ OfDeal(i)' <=> OfDeal(i)
      /\ OfContact(i)' <=> OfContact(i)
  BY <1>1, <1>4, EntriesLast
<1>6. Human(i) /\ ~Blank(i) /\ Keeps(i)
  BY <1>3, <1>5 DEF CompleteInv, Good
<1>7. ASSUME NEW p, p \in log[i].in PROVE i \in Shows(p)
  BY <1>4, <1>6, <1>7 DEF Shows
<1>24. ~ListActivities => activities' = activities /\ Reached' = Reached
  BY StepCases DEF Write, Open, Plan, Close, ListDealChats, GetDeal, ListContactChats,
     ReadSession, ReadHistory, Assemble, Ends, Locate, Deny, CollectionFails, vars, collectVars,
     Reached, OffPage
<1>25. UNCHANGED <<activities, period, opened>> => (Due(i)' <=> Due(i))
  BY <1>5 DEF Due, OffPage
<1>8. ASSUME UNCHANGED collectVars, Due(i)' => Due(i) \/ (pc # "locating" /\ ~Found) PROVE Keeps(i)'
  BY <1>5, <1>6, <1>8, NothingAdds DEF Keeps, Kept, Found, Within, Reached, OffPage, collectVars
<1>9. ASSUME NEW m \in Kinds, Write(m) PROVE Keeps(i)'
  BY <1>8, <1>9, <1>25 DEF Write, collectVars
<1>26. ASSUME NEW n \in 0..MaxMessages - 1, Plan(n) PROVE Keeps(i)'
  BY <1>8, <1>25, <1>26 DEF Plan, collectVars
<1>10. ASSUME Open PROVE Keeps(i)'
  <2>1. pc = "idle"
    BY <1>1, <1>10 DEF Open, Started
  <2>2. QED
    BY <1>8, <1>10, <2>1 DEF Open, Found
<1>11. ASSUME NEW outcome \in {"S", "F"}, Close(outcome) PROVE Keeps(i)'
  BY <1>8, <1>11, <1>25 DEF Close, collectVars
<1>12. ASSUME ListActivities PROVE Keeps(i)'
  <2>1. ASSUME NEW s \in Sessions, s \in log'[i].in, s \notin activities' PROVE OffPage(s)'
    <3>1. s \in Listed(Sessions)
      BY <1>4, <1>5, <2>1 DEF Listed
    <3>2. activities' # Listed(Sessions)
      BY <2>1, <3>1
    <3>3. Cardinality(activities') = PageSize
      BY <1>12, <3>2 DEF ListActivities, Pages
    <3>4. QED
      BY <2>1, <3>3 DEF OffPage
  <2>2. Kept(i, Reached)'
    BY <1>12, <2>1 DEF ListActivities, Kept, Reached
  <2>3. QED
    BY <1>12, <2>2 DEF ListActivities, Goto, Keeps, Found
<1>13. ASSUME NEW s \in Sessions, ReadSession(s) PROVE Keeps(i)'
  <2>1. Collected' = Collected \cup {k \in Shows(s) : ~Blank(k)}
    BY <1>1, <1>13, SessionAdds
  <2>2. s \in log[i].in => i \in Collected'
    BY <1>6, <1>7, <2>1
  <2>3. pc = "sessions" /\ pc' = pc /\ left' = left \ {s} /\ Kept(i, Reached) /\ Reached' = Reached
    BY <1>6, <1>13, <1>24 DEF ReadSession, ListActivities, Keeps
  <2>4. Kept(i, Reached)'
    BY <1>5, <2>1, <2>2, <2>3 DEF Kept
  <2>5. QED
    BY <2>3, <2>4 DEF Keeps, Found
<1>14. ASSUME ListDealChats PROVE Keeps(i)'
  <2>1. pc = "sessions" /\ left = {} /\ pc' = "deal" /\ left' = Listed(DealChats) /\ Collected' = Collected
    BY <1>14, NothingAdds DEF ListDealChats, Goto
  <2>2. ASSUME NEW c \in DealChats, c \in log'[i].in PROVE c \in left'
    BY <1>4, <1>5, <2>1, <2>2 DEF Listed
  <2>3. ASSUME NEW s \in Reached', s \in log'[i].in PROVE i \in Collected'
    <3>1. Reached' = Reached
      BY <1>24, <2>1 DEF ListActivities
    <3>2. QED
      BY <1>5, <1>6, <2>1, <2>3, <3>1 DEF Keeps, Kept
  <2>4. Kept(i, DealChats)'
    BY <2>2 DEF Kept
  <2>5. QED
    BY <2>1, <2>3, <2>4 DEF Keeps, Found
<1>15. ASSUME GetDeal PROVE Keeps(i)'
  <2>1. pc = "deal" /\ pc' = "contactChats" /\ left' = left /\ Collected' = Collected
    BY <1>15, NothingAdds DEF GetDeal, Goto
  <2>2. Reached' = Reached
    BY <1>24, <2>1 DEF ListActivities
  <2>3. QED
    BY <1>5, <1>6, <2>1, <2>2 DEF Keeps, Kept, Found
<1>16. ASSUME ListContactChats PROVE Keeps(i)'
  <2>1. /\ pc = "contactChats" /\ pc' = "histories" /\ left' = left \cup Listed(ContactChats)
        /\ Collected' = Collected
    BY <1>1, <1>16, ContactChatsAdd DEF ListContactChats, Goto
  <2>2. ASSUME NEW c \in ContactChats, c \in log'[i].in PROVE c \in left'
    BY <1>4, <1>5, <2>1, <2>2 DEF Listed
  <2>6. Reached' = Reached
    BY <1>24, <2>1 DEF ListActivities
  <2>3. Kept(i, DealChats)' /\ \A s \in Reached' : s \in log'[i].in => i \in Collected'
    BY <1>5, <1>6, <2>1, <2>6 DEF Keeps, Kept
  <2>4. Kept(i, ContactChats)'
    BY <2>2 DEF Kept
  <2>5. QED
    BY <2>1, <2>3, <2>4 DEF Keeps, Found
<1>17. ASSUME NEW c \in DealChats \cup ContactChats, ReadHistory(c) PROVE Keeps(i)'
  <2>1. Collected' = Collected \cup {k \in Shows(c) \ seen : ~Blank(k) /\ (c \in DealChats \/ Within(k))}
    BY <1>1, <1>17, HistoryAdds DEF CompleteInv
  <2>2. /\ pc = "histories" /\ pc' = pc /\ left' = left \ {c} /\ period' = period
        /\ c \in left
        /\ Within(i)' <=> Within(i)
    BY <1>17 DEF ReadHistory, NextChat, Within
  <2>3. i \in seen => Remembered(i)
    BY <1>6, <2>2 DEF CompleteInv
  <2>4. c \in log[i].in /\ (c \in DealChats \/ Within(i)) => i \in Collected'
    <3>1. CASE i \in seen
      <4>1. c \in DealChats => left \cap DealChats # {}
        BY <2>2
      <4>2. QED
        BY <2>1, <2>3, <3>1, <4>1 DEF Remembered
    <3>2. CASE i \notin seen
      BY <1>6, <1>7, <2>1, <3>2
    <3>3. QED
      BY <3>1, <3>2
  <2>8. Reached' = Reached
    BY <1>24, <2>2 DEF ListActivities
  <2>5. Kept(i, DealChats)' /\ \A s \in Reached' : s \in log'[i].in => i \in Collected'
    BY <1>5, <1>6, <2>1, <2>2, <2>4, <2>8 DEF Keeps, Kept
  <2>6. Within(i) => Kept(i, ContactChats)'
    BY <1>5, <1>6, <2>1, <2>2, <2>4 DEF Keeps, Kept
  <2>7. QED
    BY <2>2, <2>5, <2>6 DEF Keeps, Found
<1>18. ASSUME Assemble PROVE Keeps(i)'
  <2>1. /\ pc = "histories" /\ left = {} /\ Collected' = Collected /\ pc' \in {"collected", "locating"}
        /\ UNCHANGED <<activities, opened, period>>
    BY <1>18, NothingAdds DEF Assemble, Ends, Goto, crmVars
  <2>2. period.start = opened /\ opened \in Nat
    BY <1>1, <2>1 DEF Started, CollectionTypeOK
  <2>3. (\E p \in log[i].in \cap (Sessions \cup DealChats) : ~OffPage(p)) => i \in Collected
    BY <1>6, <2>1 DEF Keeps, Kept, Reached
  <2>4. OfContact(i) /\ Within(i) => i \in Collected
    BY <1>6, <2>1 DEF Keeps, Kept, OfContact
  <2>5. i > opened /\ (period.end # None => i <= period.end) => Within(i)
    BY <2>2 DEF Within
  <2>6. Due(i)' => i \in Collected'
    BY <1>25, <2>1, <2>3, <2>4, <2>5 DEF Due
  <2>7. QED
    BY <2>1, <2>6 DEF Keeps
<1>19. ASSUME Locate PROVE Keeps(i)'
  BY <1>6, <1>19, <1>25, NothingAdds DEF Locate, Ends, Goto, Keeps, crmVars
<1>20. ASSUME Deny PROVE Keeps(i)'
  BY <1>20 DEF Deny, Ends, Goto, Keeps, Found
<1>21. ASSUME CollectionFails PROVE Keeps(i)'
  BY <1>21 DEF CollectionFails, Goto, Keeps, Found
<1>22. CASE UNCHANGED vars
  BY <1>8, <1>22, <1>25 DEF vars, crmVars, collectVars
<1>23. QED
  BY StepCases, <1>9, <1>10, <1>11, <1>12, <1>13, <1>14, <1>15, <1>16, <1>17, <1>18, <1>19,
     <1>20, <1>21, <1>22, <1>26

LEMMA RemembersStep ==
    ASSUME CompleteInv, [CollectionNext]_vars, pc' = "histories", NEW i \in seen', ~Blank(i)'
    PROVE  Remembered(i)'
<1>1. Started /\ Started' /\ CollectionTypeOK
  BY StartedStep DEF CompleteInv, Started
<1>2. CASE ListContactChats
  BY <1>2 DEF ListContactChats, CompleteInv
<1>3. ASSUME NEW c \in DealChats \cup ContactChats, ReadHistory(c) PROVE Remembered(i)'
  <2>1. Collected' = Collected \cup {k \in Shows(c) \ seen : ~Blank(k) /\ (c \in DealChats \/ Within(k))}
    BY <1>1, <1>3, HistoryAdds
  <2>2. /\ pc = "histories" /\ left' = left \ {c} /\ seen' = seen \cup Shows(c)
        /\ c \in DealChats \/ left \cap DealChats = {}
        /\ Within(i)' <=> Within(i)
        /\ ~Blank(i)
    BY <1>3 DEF ReadHistory, NextChat, Within, Blank, crmVars
  <2>3. CASE i \in seen
    BY <2>1, <2>2, <2>3 DEF CompleteInv, Remembered
  <2>4. CASE i \in Shows(c) \ seen
    BY <2>1, <2>2, <2>4 DEF Remembered
  <2>5. QED
    BY <2>2, <2>3, <2>4
<1>4. CASE UNCHANGED collectVars
  <2>1. i \in DOMAIN log /\ i \in seen /\ pc = "histories"
    BY <1>1, <1>4 DEF CollectionTypeOK, collectVars
  <2>2. ~Blank(i)
    BY <1>1, <2>1, EntriesLast
  <2>3. Collected' = Collected /\ UNCHANGED <<left, period>>
    BY <1>4, NothingAdds DEF collectVars
  <2>4. QED
    BY <2>1, <2>2, <2>3 DEF CompleteInv, Remembered, Within
<1>5. \/ UNCHANGED collectVars
      \/ ListContactChats
      \/ \E c \in DealChats \cup ContactChats : ReadHistory(c)
  BY StepCases DEF Write, Open, Plan, Close, Begin, ListActivities, ListDealChats, GetDeal, ReadSession,
     Assemble, Ends, Locate, Deny, CollectionFails, Goto, vars
<1>6. QED
  BY <1>2, <1>3, <1>4, <1>5

LEMMA UnseenStep ==
    ASSUME CompleteInv, [CollectionNext]_vars
    PROVE  (pc \in {"idle", "activities", "sessions", "deal", "contactChats"} => seen = {})'
BY StepCases DEF CompleteInv, Write, Open, Plan, Close, Begin, ListActivities, ListDealChats, GetDeal,
   ListContactChats, ReadSession, ReadHistory, Assemble, Ends, Locate, Deny, CollectionFails, Goto, vars,
   collectVars

LEMMA CompleteStep == CompleteInv /\ [CollectionNext]_vars => CompleteInv'
<1> SUFFICES ASSUME CompleteInv, [CollectionNext]_vars PROVE CompleteInv'
  OBVIOUS
<1>1. Started'
  BY StartedStep DEF CompleteInv
<1>2. \A i \in 1..atStart' : Good(i)' => Keeps(i)'
  BY KeepsStep
<1>3. pc' = "histories" => \A i \in seen' : ~Blank(i)' => Remembered(i)'
  BY RemembersStep
<1>4. QED
  BY <1>1, <1>2, <1>3, UnseenStep DEF CompleteInv

\* Whatever is written and whenever the deal is closed meanwhile, a conversation that was
\* collected misses nothing that was there to be analyzed when the collection began but
\* sessions beyond a full page and what the contact was told after the close date read.
THEOREM CollectionsAreComplete == CollectionSpec => []CollectionIsComplete
<1>1. CollectionInit => CompleteInv
  BY CollectionAssumption DEF CollectionInit, CollectionTypeOK, Started, Steps, CompleteInv, Keeps, Found
<1>2. CompleteInv => CollectionIsComplete
  BY DEF CompleteInv, CollectionIsComplete, Keeps, Good, Due, Found
<1>3. QED
  BY <1>1, <1>2, CompleteStep, PTL DEF CollectionSpec, vars

-----------------------------------------------------------------------------
(* Least elements, and what the folds compute. *)

LEMMA LeastOf == ASSUME NEW T \in SUBSET Nat, T # {} PROVE \E x \in T : \A y \in T : x <= y
<1> DEFINE R == OpToRel(<, Nat)
<1>1. PICK x \in T : \A y \in T : ~(<<y, x>> \in R)
  <2>1. IsWellFoundedOn(R, Nat)
    BY NatLessThanWellFounded DEF R
  <2>2. QED
    BY <2>1, WFMin
<1>2. \A y \in T : ~(y < x)
  BY <1>1 DEF OpToRel
<1>3. QED
  BY <1>2

\* A property of naturals that zero has, and every one with its successor.
LEMMA EveryNat ==
    ASSUME NEW T \in SUBSET Nat, 0 \in T, \A n \in T : n + 1 \in T
    PROVE  T = Nat
<1> SUFFICES ASSUME Nat \ T # {} PROVE FALSE
  OBVIOUS
<1>1. PICK x \in Nat \ T : \A y \in Nat \ T : x <= y
  BY LeastOf
<1>2. x # 0 /\ x - 1 \in Nat
  BY <1>1
<1>3. x - 1 \in T
  BY <1>1, <1>2
<1>4. x \in T
  BY <1>2, <1>3
<1>5. QED
  BY <1>1, <1>4

LEMMA MaxOfInterval == ASSUME NEW n \in Nat \ {0} PROVE Max(1..n) = n /\ (1..n) \ {n} = 1..(n - 1)
<1>1. n \in 1..n /\ \A y \in 1..n : n >= y
  OBVIOUS
<1>2. \A x \in 1..n : (\A y \in 1..n : x >= y) => x = n
  OBVIOUS
<1>3. Max(1..n) = n
  BY <1>1, <1>2, Zenon DEF Max
<1>4. QED
  BY <1>3

LEMMA MaxIn ==
    ASSUME NEW n \in Nat, NEW S \in SUBSET (1..n), S # {}
    PROVE  Max(S) \in S /\ \A y \in S : y <= Max(S)
<1> DEFINE U == {k \in Nat : \A y \in S : y <= k}
<1>1. n \in U
  OBVIOUS
<1>2. PICK k \in U : \A j \in U : k <= j
  BY <1>1, LeastOf
<1>3. k \in S
  <2> SUFFICES ASSUME k \notin S PROVE FALSE
    OBVIOUS
  <2>1. \A y \in S : y <= k - 1 /\ y \in 1..n
    BY <1>2
  <2>2. k - 1 \in Nat
    <3>1. PICK y \in S : TRUE
      OBVIOUS
    <3>2. QED
      BY <2>1, <3>1
  <2>3. k - 1 \in U
    BY <2>1, <2>2
  <2>4. QED
    BY <1>2, <2>3
<1>4. \E x \in S : \A y \in S : x >= y
  BY <1>2, <1>3
<1>5. QED
  BY <1>4 DEF Max

\* What a fold over a sequence of lines is, set by set.
FoldOf(a) ==
    CHOOSE iter : iter = [s \in SUBSET DOMAIN a |->
                            IF s = {} THEN Nothing ELSE ReadLine(iter[s \ {Max(s)}], a[Max(s)])]

LEMMA ParseFolds == ASSUME NEW a PROVE Parse(a) = FoldOf(a)[DOMAIN a]
BY DEF Parse, FoldOf, FoldLeft, MapThenFoldSet

LEMMA FoldExists ==
    ASSUME NEW a, NEW n \in Nat, DOMAIN a = 1..n
    PROVE  \E h : h = [s \in SUBSET DOMAIN a |->
                          IF s = {} THEN Nothing ELSE ReadLine(h[s \ {Max(s)}], a[Max(s)])]
<1> DEFINE Fold(h, s) == IF s = {} THEN Nothing ELSE ReadLine(h[s \ {Max(s)}], a[Max(s)])
           T == {k \in Nat : \E h : h = [s \in SUBSET (1..k) |-> Fold(h, s)]}
<1>1. 0 \in T
  <2> DEFINE g == [s \in SUBSET (1..0) |-> Nothing]
  <2>1. \A s \in SUBSET (1..0) : s = {}
    OBVIOUS
  <2>2. g = [s \in SUBSET (1..0) |-> Fold(g, s)]
    BY <2>1, Zenon
  <2>3. QED
    BY <2>2, Zenon
<1>2. ASSUME NEW k \in T PROVE k + 1 \in T
  <2>1. PICK h : h = [s \in SUBSET (1..k) |-> Fold(h, s)]
    BY Zenon
  <2> DEFINE g == [s \in SUBSET (1..(k + 1)) |-> Fold(h, s)]
  <2>2. ASSUME NEW s \in SUBSET (1..(k + 1)) PROVE Fold(h, s) = Fold(g, s)
    <3>1. CASE s = {}
      BY <3>1
    <3>2. CASE s # {}
      <4>0. k \in Nat /\ k + 1 \in Nat
        OBVIOUS
      <4>1. Max(s) \in s /\ \A y \in s : y <= Max(s)
        BY <3>2, <4>0, MaxIn
      <4>2. s \ {Max(s)} \in SUBSET (1..k) /\ s \ {Max(s)} \in SUBSET (1..(k + 1))
        <5>1. ASSUME NEW y \in s, y # Max(s) PROVE y \in 1..k
          <6>1. y \in 1..(k + 1) /\ Max(s) \in 1..(k + 1) /\ y <= Max(s)
            BY <4>1
          <6>2. QED
            BY <4>0, <5>1, <6>1
        <5>2. QED
          BY <5>1
      <4>3. h[s \ {Max(s)}] = g[s \ {Max(s)}]
        BY <2>1, <4>2, Zenon
      <4>4. QED
        BY <4>3, Zenon
    <3>3. QED
      BY <3>1, <3>2
  <2>3. g = [s \in SUBSET (1..(k + 1)) |-> Fold(g, s)]
    BY <2>2, Zenon
  <2>4. k + 1 \in Nat
    OBVIOUS
  <2>5. QED
    BY <2>3, <2>4, Zenon
<1> HIDE DEF T
<1>3. T = Nat
  <2>1. T \subseteq Nat
    BY DEF T
  <2>2. QED
    BY <1>1, <1>2, <2>1, EveryNat, Zenon
<1>4. n \in T
  BY <1>3
<1>5. QED
  BY <1>4, Zenon DEF T

\* What is known of an answer after its first k lines.
Known(a, k) == FoldOf(a)[1..k]

LEMMA KnownSteps ==
    ASSUME NEW n \in Nat, NEW a, DOMAIN a = 1..n
    PROVE  /\ Known(a, 0) = Nothing
           /\ \A k \in 1..n : Known(a, k) = ReadLine(Known(a, k - 1), a[k])
           /\ Parse(a) = Known(a, n)
<1>1. FoldOf(a) = [s \in SUBSET (1..n) |->
                    IF s = {} THEN Nothing ELSE ReadLine(FoldOf(a)[s \ {Max(s)}], a[Max(s)])]
  <2>1. \E h : h = [s \in SUBSET DOMAIN a |->
                      IF s = {} THEN Nothing ELSE ReadLine(h[s \ {Max(s)}], a[Max(s)])]
    BY FoldExists
  <2>2. FoldOf(a) = [s \in SUBSET DOMAIN a |->
                      IF s = {} THEN Nothing ELSE ReadLine(FoldOf(a)[s \ {Max(s)}], a[Max(s)])]
    BY <2>1, Zenon DEF FoldOf
  <2>3. QED
    BY <2>2, Zenon
<1>2. Known(a, 0) = Nothing
  <2>1. 1..0 = {} /\ {} \in SUBSET (1..n)
    OBVIOUS
  <2>2. QED
    BY <1>1, <2>1, Zenon DEF Known
<1>3. ASSUME NEW k \in 1..n PROVE Known(a, k) = ReadLine(Known(a, k - 1), a[k])
  <2>1. Max(1..k) = k /\ (1..k) \ {k} = 1..(k - 1) /\ 1..k \in SUBSET (1..n) /\ 1..k # {}
    BY MaxOfInterval
  <2>2. FoldOf(a)[1..k] = ReadLine(FoldOf(a)[(1..k) \ {Max(1..k)}], a[Max(1..k)])
    BY <1>1, <2>1, Zenon
  <2>3. QED
    BY <2>1, <2>2, Zenon DEF Known
<1>4. Parse(a) = Known(a, n)
  BY ParseFolds, Zenon DEF Known
<1>5. QED
  BY <1>2, <1>3, <1>4

-----------------------------------------------------------------------------
(* What the parser makes of an answer. *)

LEMMA LabelsAre ==
    /\ LabelSet = {"result", "action", "confidence"}
    /\ Enumerated = {"result", "confidence"}
    /\ Enumerated \subseteq LabelSet
    /\ Prose \notin LabelSet
<1>1. LabelSet = {"result", "action", "confidence"}
  <2>1. DOMAIN Labels = {1, 2, 3}
    BY DEF Labels
  <2>2. Labels[1] = "result" /\ Labels[2] = "action" /\ Labels[3] = "confidence"
    BY DEF Labels
  <2>3. LabelSet = {Labels[1], Labels[2], Labels[3]}
    BY <2>1 DEF LabelSet, Range
  <2>4. QED
    BY <2>2, <2>3
<1>2. Enumerated = {"result", "confidence"}
  BY DEF Enumerated, Accepted
<1>3. QED
  BY <1>1, <1>2 DEF Prose

Parsing == [values  : [LabelSet -> {"", "text", "win"} \cup {l.value : l \in Lines}],
            seen    : SUBSET LabelSet,
            current : LabelSet \cup {Prose},
            twice   : BOOLEAN]

LEMMA ReadsOn ==
    ASSUME NEW p \in Parsing, NEW line \in Lines
    PROVE  ReadLine(p, line) \in Parsing
<1>1. line.label \in LabelSet \cup {Prose}
  BY AnalysisAssumption
<1>2. CASE line.label # Prose
  BY <1>1, <1>2 DEF ReadLine, Parsing
<1>3. CASE line.label = Prose /\ Absorbs(p)
  <2>1. p.current \in LabelSet
    BY <1>3 DEF Absorbs, Parsing
  <2>2. Joined(p.values[p.current], line.value) \in {"", "text", "win"} \cup {l.value : l \in Lines}
    BY <2>1 DEF Joined, Parsing
  <2> DEFINE v == Joined(p.values[p.current], line.value)
  <2>3. ReadLine(p, line) = [p EXCEPT !.values[p.current] = v]
    BY <1>3 DEF ReadLine
  <2>4. [p.values EXCEPT ![p.current] = v] \in [LabelSet -> {"", "text", "win"} \cup {l.value : l \in Lines}]
    BY <2>1, <2>2 DEF Parsing
  <2> HIDE DEF v
  <2>5. QED
    BY <2>3, <2>4 DEF Parsing
<1>4. CASE line.label = Prose /\ ~Absorbs(p)
  BY <1>4 DEF ReadLine
<1>5. QED
  BY <1>2, <1>3, <1>4

\* As long as no label was written twice, an enumerated value is what its line said.
AsWritten(p, a, k) ==
    ~p.twice => \A m \in 1..k : a[m].label \in Enumerated =>
                    a[m].label \in p.seen /\ p.values[a[m].label] = a[m].value
Written(p, a, k) == \A l \in p.seen : \E m \in 1..k : a[m].label = l

LEMMA ReadsAsWritten ==
    ASSUME NEW n \in Nat, NEW a \in [1..n -> Lines], NEW k \in Nat, k + 1 <= n,
           NEW p \in Parsing, AsWritten(p, a, k), Written(p, a, k)
    PROVE  LET q == ReadLine(p, a[k + 1])
           IN  AsWritten(q, a, k + 1) /\ Written(q, a, k + 1)
<1> DEFINE line == a[k + 1]
           q == ReadLine(p, line)
<1>1. line \in Lines /\ line.label \in LabelSet \cup {Prose}
  BY AnalysisAssumption
<1>2. 1..(k + 1) = 1..k \cup {k + 1}
  OBVIOUS
<1>3. CASE line.label # Prose
  <2>1. /\ q.values = [p.values EXCEPT ![line.label] = line.value]
        /\ q.seen = p.seen \cup {line.label}
        /\ q.twice = (p.twice \/ line.label \in p.seen)
    BY <1>3 DEF ReadLine
  <2>2. DOMAIN p.values = LabelSet
    BY DEF Parsing
  <2>3. ASSUME ~q.twice, NEW m \in 1..(k + 1), a[m].label \in Enumerated
        PROVE  a[m].label \in q.seen /\ q.values[a[m].label] = a[m].value
    <3>1. ~p.twice /\ line.label \notin p.seen
      BY <2>1, <2>3
    <3>2. CASE m \in 1..k
      <4>1. a[m].label \in p.seen /\ p.values[a[m].label] = a[m].value
        BY <2>3, <3>1, <3>2 DEF AsWritten
      <4>2. QED
        BY <2>1, <2>2, <3>1, <4>1, LabelsAre
    <3>3. CASE m = k + 1
      BY <1>1, <1>3, <2>1, <2>2, <3>3
    <3>4. QED
      BY <1>2, <3>2, <3>3
  <2>4. Written(q, a, k + 1)
    BY <1>2, <2>1 DEF Written
  <2>5. QED
    BY <2>3, <2>4 DEF AsWritten
<1>4. CASE line.label = Prose
  <2>1. q.seen = p.seen /\ q.twice = p.twice
    BY <1>4 DEF ReadLine, Parsing
  <2>2. \A l \in Enumerated : q.values[l] = p.values[l]
    BY <1>4, LabelsAre DEF ReadLine, Parsing, Absorbs
  <2>3. Prose \notin Enumerated
    BY LabelsAre
  <2>4. AsWritten(q, a, k + 1)
    BY <1>2, <1>4, <2>1, <2>2, <2>3 DEF AsWritten
  <2>5. Written(q, a, k + 1)
    BY <1>2, <2>1 DEF Written
  <2>6. QED
    BY <2>4, <2>5
<1>5. QED
  BY <1>3, <1>4

LEMMA ParsedAsWritten ==
    ASSUME NEW n \in Nat, NEW a \in [1..n -> Lines]
    PROVE  Parse(a) \in Parsing /\ AsWritten(Parse(a), a, n) /\ Written(Parse(a), a, n)
<1> DEFINE Right(k) == Known(a, k) \in Parsing /\ AsWritten(Known(a, k), a, k) /\ Written(Known(a, k), a, k)
           T == {k \in Nat : k <= n => Right(k)}
<1>0. DOMAIN a = 1..n
  OBVIOUS
<1>1. 0 \in T
  <2>1. Known(a, 0) = Nothing
    BY <1>0, KnownSteps
  <2>2. Nothing \in Parsing
    BY DEF Nothing, Parsing
  <2>3. AsWritten(Nothing, a, 0) /\ Written(Nothing, a, 0)
    BY DEF AsWritten, Written, Nothing
  <2>4. QED
    BY <2>1, <2>2, <2>3
<1>2. ASSUME NEW k \in T PROVE k + 1 \in T
  <2> SUFFICES ASSUME k + 1 <= n PROVE Right(k + 1)
    OBVIOUS
  <2>1. k \in Nat /\ k + 1 \in 1..n /\ Right(k) /\ (k + 1) - 1 = k
    OBVIOUS
  <2>2. Known(a, k + 1) = ReadLine(Known(a, k), a[k + 1])
    <3>1. \A j \in 1..n : Known(a, j) = ReadLine(Known(a, j - 1), a[j])
      BY <1>0, KnownSteps
    <3>2. Known(a, k + 1) = ReadLine(Known(a, (k + 1) - 1), a[k + 1])
      BY <2>1, <3>1, Zenon
    <3>3. QED
      BY <2>1, <3>2, Zenon
  <2>3. a[k + 1] \in Lines
    BY <2>1
  <2>4. Known(a, k + 1) \in Parsing
    BY <2>1, <2>2, <2>3, ReadsOn
  <2>5. AsWritten(Known(a, k + 1), a, k + 1) /\ Written(Known(a, k + 1), a, k + 1)
    BY <2>1, <2>2, ReadsAsWritten
  <2>6. QED
    BY <2>4, <2>5
<1> HIDE DEF Right
<1>3. T = Nat
  <2>1. T \subseteq Nat
    OBVIOUS
  <2>2. QED
    BY <1>1, <1>2, <2>1, EveryNat, Zenon
<1>4. Right(n)
  BY <1>3
<1>5. Parse(a) = Known(a, n)
  BY <1>0, KnownSteps
<1>6. QED
  BY <1>4, <1>5, Zenon DEF Right

\* An answer of the model that is accepted, of whatever length, says one thing of the
\* probable result, on a line of its own, and that is what parsing makes of it: prose
\* around the lines changes nothing.
THEOREM OutcomesMean ==
    ASSUME NEW o \in Outcomes
    PROVE  o.stated = {o.parsed} /\ o.parsed \in Accepted["result"]
<1>1. PICK a \in Answers :
        /\ Valid(Parse(a))
        /\ o = [parsed |-> Parse(a).values["result"],
                action |-> Parse(a).values["action"],
                stated |-> {a[n].value : n \in {n \in DOMAIN a : a[n].label = "result"}}]
  BY DEF Outcomes
<1>2. PICK n \in Nat : a \in [1..n -> Lines]
  BY AnalysisAssumption DEF Answers
<1>3. Parse(a) \in Parsing /\ AsWritten(Parse(a), a, n) /\ Written(Parse(a), a, n)
  BY <1>2, ParsedAsWritten
<1>4. "result" \in Enumerated /\ "result" \in LabelSet
  BY LabelsAre
<1>5. ~Parse(a).twice /\ "result" \in Parse(a).seen /\ Parse(a).values["result"] \in Accepted["result"]
  BY <1>1, <1>4 DEF Valid
<1>6. \A m \in 1..n : a[m].label = "result" => a[m].value = Parse(a).values["result"]
  BY <1>3, <1>4, <1>5 DEF AsWritten
<1>7. \E m \in 1..n : a[m].label = "result"
  BY <1>3, <1>5 DEF Written
<1>8. DOMAIN a = 1..n
  BY <1>2
<1>9. {a[m].value : m \in {m \in DOMAIN a : a[m].label = "result"}} = {Parse(a).values["result"]}
  BY <1>6, <1>7, <1>8
<1>10. QED
  BY <1>1, <1>5, <1>9

-----------------------------------------------------------------------------
(* The conversation is made of what was collected. *)

Increasing(s) == \A j, k \in DOMAIN s : j < k => s[j] < s[k]

LEMMA SortedExists ==
    ASSUME NEW n \in Nat, NEW S \in SUBSET (1..n)
    PROVE  \E s \in [1..Cardinality(S) -> S] : Increasing(s)
<1> DEFINE Sorted(U) == \E s \in [1..Cardinality(U) -> U] : Increasing(s)
           T == {k \in Nat : \A U \in SUBSET (1..k) : Sorted(U)}
<1>1. 0 \in T
  <2> SUFFICES ASSUME NEW U \in SUBSET (1..0) PROVE Sorted(U)
    OBVIOUS
  <2>1. U = {}
    OBVIOUS
  <2>2. Cardinality(U) = 0
    BY <2>1, FS_EmptySet, Zenon
  <2>3. <<>> \in [1..Cardinality(U) -> U] /\ Increasing(<<>>)
    BY <2>1, <2>2 DEF Increasing
  <2>4. QED
    BY <2>3
<1>2. ASSUME NEW k \in T PROVE k + 1 \in T
  <2> SUFFICES ASSUME NEW U \in SUBSET (1..(k + 1)) PROVE Sorted(U)
    OBVIOUS
  <2>0. k \in Nat /\ k + 1 \in Nat
    OBVIOUS
  <2>1. CASE k + 1 \notin U
    <3>1. U \in SUBSET (1..k)
      BY <2>0, <2>1
    <3>2. QED
      BY <3>1
  <2>2. CASE k + 1 \in U
    <3> DEFINE V == U \ {k + 1}
    <3>1. V \in SUBSET (1..k)
      BY <2>0
    <3>2. IsFiniteSet(V)
      <4>1. IsFiniteSet(1..k)
        BY <2>0, FS_Interval
      <4>2. QED
        BY <3>1, <4>1, FS_Subset, Zenon
    <3>3. Cardinality(V) \in Nat /\ Cardinality(U) = Cardinality(V) + 1
      <4>1. V \cup {k + 1} = U /\ k + 1 \notin V
        BY <2>2
      <4>2. Cardinality(V \cup {k + 1}) = Cardinality(V) + 1
        BY <3>2, <4>1, FS_AddElement
      <4>3. QED
        BY <3>2, <4>1, <4>2, FS_CardinalityType
    <3>4. PICK s \in [1..Cardinality(V) -> V] : Increasing(s)
      BY <3>1
    <3> HIDE DEF V
    <3> DEFINE c == Cardinality(U)
               t == [i \in 1..c |-> IF i = c THEN k + 1 ELSE s[i]]
    <3>5. c \in Nat /\ \A i \in 1..c : i # c => i \in 1..Cardinality(V)
      BY <3>3
    <3>6. \A i \in 1..c : i # c => s[i] \in V
      BY <3>4, <3>5
    <3>7. V \subseteq U /\ \A x \in V : x \in 1..k
      BY <3>1 DEF V
    <3>8. t \in [1..c -> U]
      BY <2>2, <3>6, <3>7
    <3>9. ASSUME NEW i \in 1..c, NEW j \in 1..c, i < j PROVE t[i] < t[j]
      <4>1. i # c
        BY <3>5, <3>9
      <4>2. t[i] = s[i] /\ s[i] \in 1..k
        BY <3>6, <3>7, <4>1
      <4>3. CASE j = c
        BY <2>0, <4>2, <4>3
      <4>4. CASE j # c
        <5>1. t[j] = s[j] /\ i \in DOMAIN s /\ j \in DOMAIN s
          BY <3>4, <3>5, <4>1, <4>4
        <5>2. s[i] < s[j]
          BY <3>4, <3>9, <5>1 DEF Increasing
        <5>3. QED
          BY <4>2, <5>1, <5>2
      <4>5. QED
        BY <4>3, <4>4
    <3>10. DOMAIN t = 1..c
      OBVIOUS
    <3> HIDE DEF t
    <3>11. Increasing(t)
      BY <3>9, <3>10 DEF Increasing
    <3>12. QED
      BY <3>8, <3>11
  <2>3. QED
    BY <2>1, <2>2
<1> HIDE DEF Sorted
<1>3. T = Nat
  <2>1. T \subseteq Nat
    OBVIOUS
  <2>2. QED
    BY <1>1, <1>2, <2>1, EveryNat, Zenon
<1>4. n \in T
  BY <1>3
<1>5. QED
  BY <1>4 DEF Sorted

\* A group is put in order, whole.
LEMMA OrderIsOfGroup ==
    ASSUME NEW n \in Nat, NEW S \in SUBSET (1..n)
    PROVE  InOrder(S) \in Seq(S)
<1>1. Cardinality(S) \in Nat
  <2>1. IsFiniteSet(1..n)
    BY FS_Interval
  <2>2. IsFiniteSet(S)
    BY <2>1, FS_Subset, Zenon
  <2>3. QED
    BY <2>2, FS_CardinalityType
<1>2. \E s \in [1..Cardinality(S) -> S] : \A j, k \in DOMAIN s : j < k => s[j] < s[k]
  BY SortedExists DEF Increasing
<1>3. InOrder(S) \in [1..Cardinality(S) -> S]
  BY <1>2, Zenon DEF InOrder
<1>4. QED
  BY <1>1, <1>3

Flat(seqs) == CHOOSE flatten : flatten = [i \in 1..Len(seqs) |->
                                            IF i = 1 THEN seqs[i] ELSE flatten[i - 1] \o seqs[i]]

LEMMA FlatExists ==
    ASSUME NEW s, NEW n \in Nat
    PROVE  \E h : h = [i \in 1..n |-> IF i = 1 THEN s[i] ELSE h[i - 1] \o s[i]]
<1> DEFINE Step(h, i) == IF i = 1 THEN s[i] ELSE h[i - 1] \o s[i]
           T == {k \in Nat : \E h : h = [i \in 1..k |-> Step(h, i)]}
<1>1. 0 \in T
  <2> DEFINE g == [i \in 1..0 |-> s[i]]
  <2>1. \A i \in 1..0 : FALSE
    OBVIOUS
  <2>2. g = [i \in 1..0 |-> Step(g, i)]
    BY <2>1, Zenon
  <2>3. QED
    BY <2>2, Zenon
<1>2. ASSUME NEW k \in T PROVE k + 1 \in T
  <2>1. PICK h : h = [i \in 1..k |-> Step(h, i)]
    BY Zenon
  <2> DEFINE g == [i \in 1..(k + 1) |-> Step(h, i)]
  <2>2. ASSUME NEW i \in 1..(k + 1) PROVE Step(h, i) = Step(g, i)
    <3>1. CASE i = 1
      BY <3>1
    <3>2. CASE i # 1
      <4>1. i - 1 \in 1..k /\ i - 1 \in 1..(k + 1)
        BY <3>2
      <4>2. h[i - 1] = g[i - 1]
        BY <2>1, <4>1, Zenon
      <4>3. QED
        BY <4>2, Zenon
    <3>3. QED
      BY <3>1, <3>2
  <2>3. g = [i \in 1..(k + 1) |-> Step(g, i)]
    BY <2>2, Zenon
  <2>4. k + 1 \in Nat
    OBVIOUS
  <2>5. QED
    BY <2>3, <2>4, Zenon
<1> HIDE DEF T
<1>3. T = Nat
  <2>1. T \subseteq Nat
    BY DEF T
  <2>2. QED
    BY <1>1, <1>2, <2>1, EveryNat, Zenon
<1>4. n \in T
  BY <1>3
<1>5. QED
  BY <1>4, Zenon DEF T

LEMMA FlatIsOf ==
    ASSUME NEW D, NEW s \in Seq(Seq(D))
    PROVE  FlattenSeq(s) \in Seq(D)
<1>1. CASE Len(s) = 0
  <2>1. FlattenSeq(s) = s
    BY <1>1 DEF FlattenSeq
  <2>2. s = <<>>
    BY <1>1
  <2>3. QED
    BY <2>1, <2>2
<1>2. CASE Len(s) # 0
  <2>1. FlattenSeq(s) = Flat(s)[Len(s)]
    BY <1>2 DEF FlattenSeq, Flat
  <2>2. Flat(s) = [i \in 1..Len(s) |-> IF i = 1 THEN s[i] ELSE Flat(s)[i - 1] \o s[i]]
    <3>1. \E h : h = [i \in 1..Len(s) |-> IF i = 1 THEN s[i] ELSE h[i - 1] \o s[i]]
      <4>1. Len(s) \in Nat
        OBVIOUS
      <4>2. QED
        BY <4>1, FlatExists, Zenon
    <3>2. QED
      BY <3>1, Zenon DEF Flat
  <2> DEFINE T == {k \in Nat : k + 1 <= Len(s) => Flat(s)[k + 1] \in Seq(D)}
  <2>3. 0 \in T
    <3>1. 1 \in 1..Len(s) /\ s[1] \in Seq(D) /\ 0 + 1 = 1
      BY <1>2
    <3>2. Flat(s)[1] = s[1]
      BY <2>2, <3>1, Zenon
    <3>3. QED
      BY <3>1, <3>2
  <2>4. ASSUME NEW k \in T PROVE k + 1 \in T
    <3> SUFFICES ASSUME (k + 1) + 1 <= Len(s) PROVE Flat(s)[(k + 1) + 1] \in Seq(D)
      OBVIOUS
    <3> DEFINE i == (k + 1) + 1
    <3>1. i \in 1..Len(s) /\ i # 1 /\ i - 1 = k + 1 /\ k + 1 <= Len(s) /\ s[i] \in Seq(D)
      OBVIOUS
    <3>2. Flat(s)[k + 1] \in Seq(D)
      BY <3>1
    <3> HIDE DEF i
    <3>3. Flat(s)[i] = Flat(s)[k + 1] \o s[i]
      BY <2>2, <3>1, Zenon
    <3>4. Flat(s)[i] \in Seq(D)
      BY <3>1, <3>2, <3>3
    <3>5. QED
      BY <3>4 DEF i
  <2> HIDE DEF T
  <2>5. T = Nat
    <3>1. T \subseteq Nat
      BY DEF T
    <3>2. QED
      BY <2>3, <2>4, <3>1, EveryNat, Zenon
  <2>6. Len(s) - 1 \in T /\ (Len(s) - 1) + 1 = Len(s)
    BY <1>2, <2>5
  <2>7. Flat(s)[Len(s)] \in Seq(D)
    BY <2>6 DEF T
  <2>8. QED
    BY <2>1, <2>7
<1>3. QED
  BY <1>1, <1>2

\* Nobody's word is analyzed that was not collected.
LEMMA ConversationIsCollected == CollectionTypeOK => Conversation \in Seq(Collected)
<1> SUFFICES ASSUME CollectionTypeOK PROVE Conversation \in Seq(Collected)
  OBVIOUS
<1>1. DOMAIN log = 1..Len(log) /\ Len(log) \in Nat /\ collected \in Seq(SUBSET DOMAIN log)
  BY DEF CollectionTypeOK
<1> DEFINE s == [g \in DOMAIN collected |-> InOrder(collected[g])]
<1>2. ASSUME NEW g \in DOMAIN collected PROVE InOrder(collected[g]) \in Seq(Collected)
  <2>1. collected[g] \in SUBSET (1..Len(log))
    BY <1>1
  <2>2. InOrder(collected[g]) \in Seq(collected[g])
    BY <1>1, <2>1, OrderIsOfGroup
  <2>3. collected[g] \subseteq Collected
    BY DEF Collected
  <2>4. QED
    BY <2>2, <2>3, SeqOfMore
<1>3. DOMAIN collected = 1..Len(collected) /\ Len(collected) \in Nat
  BY <1>1
<1>4. s \in Seq(Seq(Collected))
  BY <1>2, <1>3
<1>5. QED
  BY <1>4, FlatIsOf DEF Conversation

LEMMA LastOfIsOf ==
    ASSUME NEW D, NEW s \in Seq(D), NEW n \in Nat
    PROVE  Range(LastOf(s, n)) \subseteq D
<1> DEFINE k == IF n < Len(s) THEN n ELSE Len(s)
<1>1. k \in Nat /\ k <= Len(s) /\ Len(s) \in Nat
  OBVIOUS
<1> HIDE DEF k
<1>2. LastOf(s, n) = SubSeq(s, Len(s) - k + 1, Len(s))
  BY DEF LastOf, k
<1>3. SubSeq(s, Len(s) - k + 1, Len(s)) \in Seq(D)
  BY <1>1
<1> DEFINE t == SubSeq(s, Len(s) - k + 1, Len(s))
<1> HIDE DEF t
<1>4. \A j \in DOMAIN t : t[j] \in D
  BY <1>3 DEF t
<1>5. QED
  BY <1>2, <1>4 DEF Range, t

LEMMA EvidenceIsCollected == CollectionTypeOK /\ Evidence => \E i \in Collected : Paid(i)
<1> SUFFICES ASSUME CollectionTypeOK, Evidence PROVE \E i \in Collected : Paid(i)
  OBVIOUS
<1>1. Window \in Nat
  BY AnalysisAssumption
<1>2. Range(LastOf(Conversation, Window)) \subseteq Collected
  BY <1>1, ConversationIsCollected, LastOfIsOf
<1>3. QED
  BY <1>2 DEF Evidence

LEMMA ReceiptIsCollected ==
    CollectionTypeOK /\ PossibleReceipt => \E i \in Collected : Client(log[i]) /\ File(i) # "none"
<1> SUFFICES ASSUME CollectionTypeOK, PossibleReceipt
             PROVE  \E i \in Collected : Client(log[i]) /\ File(i) # "none"
  OBVIOUS
<1>1. PICK n \in DOMAIN Conversation : Receipt(Conversation, n)
  BY DEF PossibleReceipt
<1>2. Conversation[n] \in Collected
  BY ConversationIsCollected
<1>3. Client(log[Conversation[n]]) /\ File(Conversation[n]) # "none"
  BY <1>1 DEF Receipt
<1>4. QED
  BY <1>2, <1>3

-----------------------------------------------------------------------------
(* The conversation that is analyzed is one that was collected. *)

\* The collection is what it was by itself, with the analysis behind it.
THEOREM ConversationCollects == ConversationSpec => CollectionSpec
<1>1. AnalysisInit => CollectionInit
  BY DEF AnalysisInit
<1>2. [ConversationNext]_convVars => [CollectionNext]_vars
  <2> SUFFICES ASSUME ConversationNext PROVE [CollectionNext]_vars
    BY DEF convVars, vars
  <2>1. CASE CollectionNext
    BY <2>1
  <2>2. CASE Execute
    BY <2>2 DEF Execute, ReadForms, ReadStatus, ReadRole, ReportUnavailable, Analyze, Reports,
       AnalysisFails, vars
  <2>3. QED
    BY <2>1, <2>2 DEF ConversationNext
<1>3. QED
  BY <1>1, <1>2, PTL DEF ConversationSpec, CollectionSpec, vars

Statuses == {"AVAILABLE", "EMPTY", "NO_CONVERSATION", "ACCESS_DENIED"}
Results  == [status : Statuses, state : Accepted["result"], final : Accepted["result"],
             advice : Advices]

\* What an explicit payment and a client's file are, in the collected messages.
PaidFor    == \E i \in Collected : Paid(i)
FileOfHis  == \E i \in Collected : Client(log[i]) /\ File(i) # "none"

Grounded ==
    /\ result.final = "venda" /\ deal.stage # "S" => stated = {"venda"} /\ PaidFor
    /\ result.advice.says \in {"win", "receipt"} =>
          \/ PaidFor
          \/ FileOfHis
          \/ result.advice.by = "model" /\ stated = {result.state} /\ result.state # "venda"

\* The analysis runs on a conversation that changes no more, and ends with its result.
AnalysisInv ==
    /\ Started
    /\ AnalysisTypeOK
    /\ phase # "waiting" => pc = "collected"
    /\ result # None => phase = "done" /\ Grounded

LEMMA AcceptedResults ==
    Accepted["result"] = {"venda", "nao venda", "em negociacao", "suporte", "indeterminado"}
BY DEF Accepted

LEMMA UnavailableReport ==
    ASSUME AnalysisInv, ReportUnavailable
    PROVE  /\ result' \in Results
           /\ Grounded'
<1>1. status \in Statuses
  BY DEF ReportUnavailable, AnalysisInv, Started, CollectionTypeOK, Statuses
<1>2. Program("none") \in Advices /\ Program("none").says = "none"
  BY DEF Program, Advices
<1>3. PICK f \in {"venda", "nao venda", "suporte", "indeterminado"} :
         /\ result' = [status |-> status, state |-> "indeterminado",
                       advice |-> Program("none"), final |-> f]
         /\ f = "venda" => deal.stage = "S"
         /\ deal' = deal
  BY DEF ReportUnavailable, Reports
<1> DEFINE a == Program("none")
<1> HIDE DEF a
<1>4. a \in Advices /\ a.says = "none"
  BY <1>2 DEF a
<1>5. result' = [status |-> status, state |-> "indeterminado", advice |-> a, final |-> f]
  BY <1>3 DEF a
<1>6. f \in Accepted["result"] /\ "indeterminado" \in Accepted["result"]
  BY AcceptedResults
<1>7. result' \in Results
  BY <1>1, <1>4, <1>5, <1>6 DEF Results
<1>8. result'.final = f /\ result'.advice.says = "none"
  BY <1>4, <1>5
<1>9. QED
  BY <1>3, <1>7, <1>8 DEF Grounded

\* An advice to mark the deal as won is due to a payment, a file, or to the model's words
\* beside a result of its own that is no sale.
Excused(advice, answer, state) ==
    advice.says \in {"win", "receipt"} =>
        Evidence \/ PossibleReceipt \/ (advice.by = "model" /\ state = answer /\ state # "venda")

\* What is made of the model's answer, the deal's stage and the messages.
LEMMA ReconciledMeans ==
    ASSUME NEW answer \in Accepted["result"], NEW action
    PROVE  LET state == Checked(answer)
               r == Reconciled(state, Advice(answer, action, state))
           IN  /\ state \in Accepted["result"] /\ r.final \in Accepted["result"]
               /\ r.advice \in Advices
               /\ r.final = "venda" /\ deal.stage # "S" => answer = "venda" /\ Evidence
               /\ Excused(r.advice, answer, state)
<1> DEFINE state == Checked(answer)
           advice == Advice(answer, action, state)
           r == Reconciled(state, advice)
<1>1. state \in Accepted["result"] /\ (state = "venda" => answer = "venda" /\ Evidence)
  BY AcceptedResults DEF Checked
<1>2. \A words \in {"none", "await", "receipt", "win", "record"} :
         Program(words) \in Advices /\ Program(words).says = words
  BY DEF Program, Advices
<1>3. Model(action) \in Advices /\ Model(action).by = "model"
  BY DEF Model, Advices
<1>4. advice \in Advices /\ Excused(advice, answer, state)
  <2>1. CASE state = "em negociacao" /\ PossibleReceipt
    BY <1>2, <2>1 DEF Advice, Excused
  <2>2. CASE ~(state = "em negociacao" /\ PossibleReceipt) /\ state # answer /\ ~PossibleReceipt
    <3>1. advice = Program("await")
      BY <2>2 DEF Advice
    <3>2. QED
      BY <1>2, <3>1 DEF Excused
  <2>3. CASE ~(state = "em negociacao" /\ PossibleReceipt) /\ ~(state # answer /\ ~PossibleReceipt)
    <3>1. advice = Model(action)
      BY <2>3 DEF Advice
    <3>2. QED
      BY <1>1, <1>3, <2>3, <3>1 DEF Excused
  <2>4. QED
    BY <2>1, <2>2, <2>3
<1> HIDE DEF state, advice
<1>5. /\ r.final \in Accepted["result"]
      /\ r.final = "venda" /\ deal.stage # "S" => state = "venda"
      /\ \/ r.advice \in {advice, Program("none"), Program("record")}
         \/ r.advice = Program("win") /\ state = "venda"
  BY <1>1, AcceptedResults DEF Reconciled
<1>6. r.advice \in Advices /\ Excused(r.advice, answer, state)
  BY <1>1, <1>2, <1>4, <1>5 DEF Excused
<1>7. QED
  BY <1>1, <1>5, <1>6 DEF state, advice

LEMMA AnalysisReport ==
    ASSUME AnalysisInv, Analyze
    PROVE  /\ result' \in Results
           /\ stated' \subseteq Accepted["result"]
           /\ Grounded'
<1>1. PICK o \in Outcomes :
        LET state == Checked(o.parsed)
            r == Reconciled(state, Advice(o.parsed, o.action, state))
        IN  /\ Reports([status |-> "AVAILABLE", state |-> state, final |-> r.final, advice |-> r.advice])
            /\ stated' = o.stated
  BY DEF Analyze
<1>2. o.stated = {o.parsed} /\ o.parsed \in Accepted["result"]
  BY OutcomesMean
<1> DEFINE state == Checked(o.parsed)
           r == Reconciled(state, Advice(o.parsed, o.action, state))
<1>3. /\ state \in Accepted["result"] /\ r.final \in Accepted["result"]
      /\ r.advice \in Advices
      /\ r.final = "venda" /\ deal.stage # "S" => o.parsed = "venda" /\ Evidence
      /\ Excused(r.advice, o.parsed, state)
  BY <1>2, ReconciledMeans
<1> HIDE DEF state, r
<1>4. /\ result' = [status |-> "AVAILABLE", state |-> state, final |-> r.final, advice |-> r.advice]
      /\ stated' = {o.parsed}
      /\ deal' = deal /\ log' = log /\ collected' = collected
  BY <1>1, <1>2 DEF Reports, crmVars, collectVars, state, r
<1>5. result' \in Results
  BY <1>3, <1>4 DEF Results, Statuses
<1>6. (PaidFor' <=> PaidFor) /\ (FileOfHis' <=> FileOfHis)
  BY <1>4 DEF PaidFor, FileOfHis, Collected, Paid, Text, Client, File
<1>7. Evidence => PaidFor
  BY EvidenceIsCollected DEF AnalysisInv, Started, PaidFor
<1>8. PossibleReceipt => FileOfHis
  BY ReceiptIsCollected DEF AnalysisInv, Started, FileOfHis
<1>11. result'.final = "venda" /\ deal'.stage # "S" => stated' = {"venda"} /\ PaidFor'
  BY <1>3, <1>4, <1>6, <1>7
<1>12. ASSUME result'.advice.says \in {"win", "receipt"}
       PROVE  PaidFor' \/ FileOfHis'
              \/ (result'.advice.by = "model" /\ stated' = {result'.state} /\ result'.state # "venda")
  <2>1. result'.advice = r.advice /\ result'.state = state
    BY <1>4
  <2>2. Evidence \/ PossibleReceipt \/ (r.advice.by = "model" /\ state = o.parsed /\ state # "venda")
    BY <1>3, <1>12, <2>1 DEF Excused
  <2>3. QED
    BY <1>4, <1>6, <1>7, <1>8, <2>1, <2>2
<1>9. Grounded'
  BY <1>11, <1>12 DEF Grounded
<1>10. QED
  BY <1>2, <1>4, <1>5, <1>9

\* While the CRM goes on, and the collection.
LEMMA CollectionKeepsAnalysis ==
    ASSUME AnalysisInv, CollectionNext, UNCHANGED analysisVars
    PROVE  AnalysisInv'
<1>1. Started' /\ CollectionTypeOK'
  BY StartedStep DEF AnalysisInv, Started
<1>2. AnalysisTypeOK'
  BY <1>1 DEF AnalysisInv, AnalysisTypeOK, analysisVars
<1>3. pc = "collected" => UNCHANGED <<pc, collected>>
  BY StepCases DEF Write, Open, Plan, Close, Begin, ListActivities, ListDealChats, GetDeal, ListContactChats,
     ReadSession, ReadHistory, Assemble, Ends, Locate, Deny, CollectionFails, vars, collectVars
<1>4. phase' # "waiting" => pc' = "collected"
  BY <1>3 DEF AnalysisInv, analysisVars
<1>5. ASSUME result # None PROVE Grounded'
  <2>1. pc = "collected" /\ Grounded
    BY <1>5 DEF AnalysisInv
  <2>2. Collected' = Collected
    BY <1>3, <2>1, NothingAdds
  <2>3. ASSUME NEW i \in Collected PROVE log'[i] = log[i]
    BY CollectedAreWritten, EntriesLast DEF AnalysisInv, Started
  <2>4. (PaidFor => PaidFor') /\ (FileOfHis => FileOfHis')
    BY <2>2, <2>3 DEF PaidFor, FileOfHis, Paid, Text, Client, File
  <2>5. QED
    BY <2>1, <2>4 DEF Grounded, analysisVars
<1>6. QED
  BY <1>1, <1>2, <1>4, <1>5 DEF AnalysisInv, analysisVars

LEMMA AnalysisStep == AnalysisInv /\ [ConversationNext]_convVars => AnalysisInv'
<1> SUFFICES ASSUME AnalysisInv, [ConversationNext]_convVars PROVE AnalysisInv'
  OBVIOUS
<1>1. CASE CollectionNext /\ UNCHANGED analysisVars
  BY <1>1, CollectionKeepsAnalysis
<1>2. ASSUME UNCHANGED <<crmVars, collectVars>> PROVE Started' /\ CollectionTypeOK'
  BY <1>2, StartedStep DEF AnalysisInv, Started, vars
<1>3. CASE ReadForms
  BY <1>2, <1>3 DEF ReadForms, AnalysisInv, AnalysisTypeOK, crmVars, collectVars
<1>4. CASE ReadStatus
  BY <1>2, <1>4 DEF ReadStatus, AnalysisInv, AnalysisTypeOK, CollectionTypeOK, crmVars, collectVars
<1>5. CASE ReadRole
  BY <1>2, <1>5 DEF ReadRole, AnalysisInv, AnalysisTypeOK, crmVars, collectVars
<1>6. CASE ReportUnavailable
  BY <1>2, <1>6, UnavailableReport
     DEF ReportUnavailable, Reports, AnalysisInv, AnalysisTypeOK, Results, Statuses, crmVars, collectVars
<1>7. CASE Analyze
  <2>1. /\ phase = "model" /\ phase' = "done"
        /\ UNCHANGED <<crmVars, collectVars, forms, deal, support>>
    BY <1>7 DEF Analyze, Reports
  <2>2. QED
    BY <1>2, <1>7, <2>1, AnalysisReport DEF AnalysisInv, AnalysisTypeOK, Results, Statuses, crmVars, collectVars
<1>8. CASE AnalysisFails
  BY <1>2, <1>8 DEF AnalysisFails, AnalysisInv, AnalysisTypeOK, crmVars, collectVars
<1>9. CASE UNCHANGED convVars
  <2>1. CollectionTypeOK' /\ Started'
    BY <1>2, <1>9 DEF convVars
  <2>2. Grounded => Grounded'
    BY <1>9 DEF Grounded, PaidFor, FileOfHis, Collected, Paid, Text, Client, File, convVars, crmVars,
       collectVars, analysisVars
  <2>3. QED
    BY <1>9, <2>1, <2>2 DEF AnalysisInv, AnalysisTypeOK, convVars, crmVars, collectVars, analysisVars
<1>10. QED
  BY <1>1, <1>3, <1>4, <1>5, <1>6, <1>7, <1>8, <1>9 DEF ConversationNext, Execute

LEMMA AnalysisAlways == ConversationSpec => []AnalysisInv
<1>1. AnalysisInit => AnalysisInv
  <2> SUFFICES ASSUME AnalysisInit PROVE AnalysisInv
    OBVIOUS
  <2>1. Started
    BY CollectionAssumption DEF AnalysisInit, CollectionInit, CollectionTypeOK, Started, Steps
  <2>2. AnalysisTypeOK
    BY <2>1 DEF AnalysisInit, AnalysisTypeOK, Started
  <2>3. QED
    BY <2>1, <2>2 DEF AnalysisInit, AnalysisInv
<1>2. QED
  BY <1>1, AnalysisStep, PTL DEF ConversationSpec

\* The analysis keeps its types: whatever the model answers, what is reported is one of the
\* results and advices there are.
THEOREM AnalysisTypeCorrect == ConversationSpec => []AnalysisTypeOK
<1>1. AnalysisInv => AnalysisTypeOK
  BY DEF AnalysisInv
<1>2. QED
  BY <1>1, AnalysisAlways, PTL

\* For any answers, messages and windows, a sale is reported of a deal that is not won only
\* if the model said so on its line and somebody in what was collected said it is paid.
THEOREM SalesAreGrounded == ConversationSpec => []SaleIsGrounded
<1>1. AnalysisInv => SaleIsGrounded
  BY DEF AnalysisInv, Grounded, PaidFor, Paid, SaleIsGrounded
<1>2. QED
  BY <1>1, AnalysisAlways, PTL

\* And to mark it as won is advised only for that, for a file of the client's, or in the
\* model's own words beside a result of its own that is no sale.
THEOREM AdviceIsAlwaysGrounded == ConversationSpec => []AdviceIsGrounded
<1>1. AnalysisInv => AdviceIsGrounded
  BY DEF AnalysisInv, Grounded, PaidFor, FileOfHis, Paid, AdviceIsGrounded
<1>2. QED
  BY <1>1, AnalysisAlways, PTL
==============================================================================
