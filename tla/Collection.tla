------------------------------ MODULE Collection ------------------------------
(***************************************************************************)
(* The collection of a deal's conversation                                 *)
(* (internal/conversation/infrastructure/bitrix/timeline.go) while people   *)
(* go on writing and the deal is planned to close, and is closed.           *)
(*                                                                         *)
(* A message is what Bitrix keeps of it: the sessions and chats whose       *)
(* history shows it, its sender, text and file.  Its place in the log is    *)
(* its identifier, the same in every chat, and its date.  Every call may    *)
(* fail, or find an answer it cannot decode; access to a history may be     *)
(* denied.                                                                 *)
(***************************************************************************)
EXTENDS Naturals, Sequences, FiniteSets

CONSTANTS Sessions,      \* sessions of the deal's IMOPENLINES_SESSION activities
          DealChats,     \* chats linked to the deal
          ContactChats,  \* chats linked to its contact
          Kinds,         \* messages that may be written
          None,          \* no date, no status
          PageSize,      \* activities on a page of crm.activity.list
          MaxMessages    \* bound: messages in a behaviour

Places == Sessions \cup DealChats \cup ContactChats
Traits == {"manager", "known", "bot", "client", "staff"}
Marks  == {"words", "paid", "denied", "topic"}
Files  == {"none", "receipt", "image", "other"}
Message == [in : SUBSET Places, sender : SUBSET Traits, text : SUBSET Marks, file : Files]

ASSUME CollectionAssumption ==
    /\ Sessions \cap (DealChats \cup ContactChats) = {}
    /\ Kinds \subseteq Message
    /\ None \notin Nat /\ None \notin {"AVAILABLE", "EMPTY", "NO_CONVERSATION", "ACCESS_DENIED"}
    /\ MaxMessages \in Nat /\ PageSize \in Nat \ {0}

VARIABLES
    log,       \* every message written, in the order of dates
    opened,    \* messages written before the deal was created, or None
    closed,    \* messages written when it was closed, or None
    closeDate, \* CLOSEDATE: as planned while it is open; then, when it was closed
    stage,     \* STAGE_SEMANTIC_ID: P in progress, S won, F lost
    pc,        \* where the collection is
    activities,\* sessions of the activities that were listed, each of one session
    left,      \* sessions, then chats, whose history is to be read
    period,    \* the deal's dates as they were read
    seen,      \* messages that a chat has shown
    collected, \* groups of messages, each in the order of dates: one for each
               \* session, the last for the linked chats
    status,    \* Conversation.Status
    atStart    \* messages there were when the collection began

crmVars     == <<log, opened, closed, closeDate, stage>>
collectVars == <<pc, activities, left, period, seen, collected, status, atStart>>

Steps == {"idle", "activities", "sessions", "deal", "contactChats", "histories",
          "locating", "collected", "failed"}

CollectionTypeOK ==
    /\ log \in Seq(Kinds)
    /\ opened \in 0..Len(log) \cup {None}
    /\ closed \in 0..Len(log) \cup {None}
    /\ closeDate \in Nat \cup {None}
    /\ stage \in {"P", "S", "F"}
    /\ pc \in Steps
    /\ activities \subseteq Sessions /\ left \subseteq Places
    /\ period \in [start : Nat \cup {None}, end : Nat \cup {None}]
    /\ seen \subseteq DOMAIN log
    /\ collected \in Seq(SUBSET DOMAIN log)
    /\ status \in {None, "AVAILABLE", "EMPTY", "NO_CONVERSATION", "ACCESS_DENIED"}
    /\ atStart \in 0..Len(log)

CollectionInit ==
    /\ log = <<>> /\ opened = None /\ closed = None /\ closeDate = None /\ stage = "P"
    /\ pc = "idle" /\ activities = {} /\ left = {} /\ period = [start |-> None, end |-> None]
    /\ seen = {} /\ collected = <<>> /\ status = None /\ atStart = 0

-----------------------------------------------------------------------------
(* Bitrix. *)

Write(m) ==
    /\ Len(log) < MaxMessages
    /\ log' = Append(log, m)
    /\ UNCHANGED <<opened, closed, closeDate, stage, collectVars>>

\* Chats of the contact, and those that will be linked to the deal, may be older.
Open ==
    /\ opened = None
    /\ opened' = Len(log)
    /\ UNCHANGED <<log, closed, closeDate, stage, collectVars>>

\* Somebody plans to close the deal, and may change his mind; CLOSEDATE says so while CLOSED
\* says no, be the date past or not.  A date that no message follows is as good as none.
Plan(n) ==
    /\ opened # None /\ closed = None
    /\ closeDate' = n
    /\ UNCHANGED <<log, opened, closed, stage, collectVars>>

Close(result) ==
    /\ opened # None /\ closed = None
    /\ closed' = Len(log)
    /\ closeDate' = closed'
    /\ stage' = result
    /\ UNCHANGED <<log, opened, collectVars>>

Crm == \/ \E m \in Kinds : Write(m)
       \/ Open
       \/ \E n \in 0..MaxMessages - 1 : Plan(n)
       \/ \E result \in {"S", "F"} : Close(result)

-----------------------------------------------------------------------------
(* What counts as a message of the conversation. *)

\* classifySender: a manager of the session whatever else is known of the user; of the
\* others those who are known, are no bot, and are a client before they are staff.
Attendant(m) == \/ "manager" \in m.sender
                \/ m.sender \cap {"known", "bot", "client", "staff"} = {"known", "staff"}
Client(m) == m.sender \cap {"manager", "known", "bot", "client"} = {"known", "client"}

Human(i)   == Attendant(log[i]) \/ Client(log[i])
Blank(i)   == log[i].text = {} /\ log[i].file = "none"
Shows(p)   == {i \in DOMAIN log : p \in log[i].in /\ Human(i)}

\* The wrong one (for mutation) does not look at the deal's beginning.
WithinEnd(i) == period.end # None => i <= period.end
Within(i)  == /\ period.start # None => i > period.start
              /\ period.end # None => i <= period.end

-----------------------------------------------------------------------------
(* Timeline.Conversation. *)

Goto(where) == pc' = where

Begin ==
    /\ pc = "idle" /\ opened # None
    /\ Goto("activities")
    /\ atStart' = Len(log)
    /\ UNCHANGED <<crmVars, activities, left, period, seen, collected, status>>

\* A session, like a chat, is listed from its first message on.
Listed(places) == {p \in places : \E i \in DOMAIN log : p \in log[i].in}

\* What one page shows of some sessions: all of them, or as many as it holds.
Pages(places) ==
    IF Cardinality(places) <= PageSize THEN {places}
    ELSE {page \in SUBSET places : Cardinality(page) = PageSize}

\* openLinesActivities asks for the first page only, in no order.
ListActivities ==
    /\ pc = "activities"
    /\ activities' \in Pages(Listed(Sessions))
    /\ left' = activities'
    /\ Goto("sessions")
    /\ UNCHANGED <<crmVars, period, seen, collected, status, atStart>>

\* sessionMessages: no message is left out for having been seen, or for its date.
ReadSession(s) ==
    /\ pc = "sessions" /\ s \in left
    /\ collected' = Append(collected, {i \in Shows(s) : ~Blank(i)})
    /\ left' = left \ {s}
    /\ UNCHANGED <<crmVars, activities, pc, period, seen, status, atStart>>

ListDealChats ==
    /\ pc = "sessions" /\ left = {}
    /\ left' = Listed(DealChats)
    /\ Goto("deal")
    /\ UNCHANGED <<crmVars, activities, period, seen, collected, status, atStart>>

\* The end is CLOSEDATE, whether the deal is closed or not.
GetDeal ==
    /\ pc = "deal"
    /\ period' = [start |-> opened, end |-> closeDate]
    /\ Goto("contactChats")
    /\ UNCHANGED <<crmVars, activities, left, seen, collected, status, atStart>>

\* Not asked when the deal has no contact.
ListContactChats ==
    /\ pc = "contactChats"
    /\ left' = left \cup Listed(ContactChats)
    /\ collected' = Append(collected, {})
    /\ Goto("histories")
    /\ UNCHANGED <<crmVars, activities, period, seen, status, atStart>>

\* The chats of the deal come first, in the order they are listed.  The wrong
\* one (for mutation) takes them with those of the contact.
AnyChat(c) == c \in left
NextChat(c) == c \in left /\ (c \in DealChats \/ left \cap DealChats = {})

\* A message that another chat has shown is passed over; a blank one, and one of the
\* contact's that is not of the deal's period, are dropped once they are seen.
ReadHistory(c) ==
    /\ pc = "histories" /\ NextChat(c)
    /\ collected' = [collected EXCEPT ![Len(collected)] =
                        @ \cup {i \in Shows(c) \ seen :
                                    ~Blank(i) /\ (c \in DealChats \/ Within(i))}]
    /\ seen' = seen \cup Shows(c)
    /\ left' = left \ {c}
    /\ UNCHANGED <<crmVars, activities, pc, period, status, atStart>>

Collected == UNION {collected[g] : g \in DOMAIN collected}

Ends(result) ==
    /\ Goto("collected")
    /\ status' = result
    /\ left' = {}
    /\ UNCHANGED <<crmVars, activities, period, seen, atStart>>

Assemble ==
    /\ pc = "histories" /\ left = {}
    /\ \/ Collected # {} /\ Ends("AVAILABLE")
       \/ Collected = {} /\ activities # {} /\ Ends("EMPTY")
       \/ /\ Collected = {} /\ activities = {}
          /\ Goto("locating")
          /\ UNCHANGED <<crmVars, activities, left, period, seen, status, atStart>>
    /\ UNCHANGED collected

\* hasLinkedConversation lists the deal's chats once more.
Locate ==
    /\ pc = "locating"
    /\ Ends(IF Listed(DealChats) = {} THEN "NO_CONVERSATION" ELSE "EMPTY")
    /\ UNCHANGED collected

\* One denied history stands for all: what was read is not kept.
Deny ==
    /\ pc \in {"sessions", "deal", "contactChats", "histories"}
    /\ Ends("ACCESS_DENIED")
    /\ collected' = <<>>

CollectionFails ==
    /\ pc \notin {"idle", "collected", "failed"}
    /\ Goto("failed")
    /\ left' = {} /\ collected' = <<>>
    /\ UNCHANGED <<crmVars, activities, period, seen, status, atStart>>

Collect ==
    \/ Begin \/ ListActivities \/ ListDealChats \/ GetDeal \/ ListContactChats
    \/ \E s \in Sessions : ReadSession(s)
    \/ \E c \in DealChats \cup ContactChats : ReadHistory(c)
    \/ Assemble \/ Locate \/ Deny \/ CollectionFails

CollectionNext == Crm \/ Collect

\* The collection by itself; Analysis adds what is made of it.
CollectionSpec == CollectionInit /\ [][CollectionNext]_<<crmVars, collectVars>>
-----------------------------------------------------------------------------
(* Properties. *)

OfDeal(i) == log[i].in \cap (Sessions \cup DealChats) # {}
OfContact(i) == log[i].in \cap ContactChats # {}

\* A session beyond the page of activities that was read.
OffPage(p) == p \in Sessions \ activities /\ Cardinality(activities) = PageSize

\* Nothing that could be analyzed when the collection began is missing from a conversation
\* that was found, and nothing of the sort existed when none was: not a message that a
\* chat of the contact showed too, nor one of a chat linked to both.  Two things are left
\* behind, and nothing else: what is only in sessions beyond a full first page of
\* activities, and what the contact was told after the close date that was read, be it
\* only the planned one of an open deal.
CollectionIsComplete ==
    pc = "collected" /\ status # "ACCESS_DENIED" =>
        \A i \in 1..atStart :
            /\ Human(i) /\ ~Blank(i)
            /\ \/ \E p \in log[i].in \cap (Sessions \cup DealChats) : ~OffPage(p)
               \/ OfContact(i) /\ i > opened /\ (period.end # None => i <= period.end)
            => i \in Collected

\* What is collected was said by people, and in the deal's own sessions and chats or to its
\* contact while the deal was open: a message after the end only if the deal was closed
\* under the collection.
CollectionIsOfDeal ==
    \A i \in Collected :
        /\ Human(i) /\ ~Blank(i)
        /\ \/ OfDeal(i)
           \/ OfContact(i) /\ i > opened /\ (closed # None => i <= closed \/ period.end # closed)
=============================================================================
