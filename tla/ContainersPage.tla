----------------------------- MODULE ContainersPage -----------------------------
(***************************************************************************)
(* The containers page of the web UI (ui/src/views/ContainersView.ts, its  *)
(* cards ContainerItem.ts and groups ContainerGroup.ts).  The page shows   *)
(* the documents it was answered; it does not poll.  Its requests run at   *)
(* once, and answers arrive in any order.                                  *)
(***************************************************************************)
EXTENDS Naturals, FiniteSets

CONSTANTS
  Card,      \* containers
  Request,   \* slots for requests under way
  MaxChange  \* bound: changes of a document

ASSUME PageAssumption == MaxChange \in Nat \ {0}

VARIABLES
  doc,      \* the server's document of each container: its number of changes,
            \* and whether there is one
  cards,    \* the change that the card shows, 0 without a card
  request,  \* the requests
  seen,     \* history: the newest document among the answers that came
  late,     \* history: cards with an answer overtaken by a newer one
  passed    \* history: cards that a group update found missing

pageVars == <<doc, cards, request, seen, late, passed>>

Doc == [change : 0..MaxChange, there : BOOLEAN]
NoRequest == [op |-> "idle", of |-> {}, answer |-> [c \in {} |-> 0]]
OneCard == {"refresh", "change", "group", "delete"}

PageTypeOK ==
  /\ doc \in [Card -> Doc] /\ seen \in [Card -> Doc] /\ cards \in [Card -> 0..MaxChange]
  /\ late \subseteq Card /\ passed \subseteq Card
  /\ \A r \in Request : /\ request[r].op \in {"idle", "all", "failed"} \cup OneCard
                        /\ request[r].of \subseteq Card
                        /\ DOMAIN request[r].answer \subseteq Card

\* beforeRouteEnter: the page opens with all containers.
PageInit ==
  /\ doc = [c \in Card |-> [change |-> 1, there |-> TRUE]]
  /\ seen = doc /\ cards = [c \in Card |-> 1]
  /\ request = [r \in Request |-> NoRequest]
  /\ late = {} /\ passed = {}

-------------------------------------------------------------------------------
\* Watches, other pages and the daemon change the store.
Changed(c, there) == [doc EXCEPT ![c] = [change |-> @.change + 1, there |-> there]]
StoreChanges(c) ==
  /\ doc[c].change < MaxChange
  /\ \E there \in BOOLEAN : (there \/ doc[c].there) /\ doc' = Changed(c, there)
  /\ UNCHANGED <<cards, request, seen, late, passed>>

\* A button of a card: refreshContainerNow; the policy, start, stop, restart,
\* scan and update methods; deleteContainer.  One of updateAllInGroup.
Press(r, c, op) ==
  /\ request[r] = NoRequest /\ cards[c] > 0
  /\ op = "group" => \A o \in Request : request[o].op # "group"
  /\ request' = [request EXCEPT ![r].op = op, ![r].of = {c}]
  /\ UNCHANGED <<doc, cards, seen, late, passed>>

\* refreshAllContainers of the filter bar, or the page is entered again.
PressAll(r) ==
  /\ request[r] = NoRequest
  /\ request' = [request EXCEPT ![r].op = "all", ![r].of = Card]
  /\ UNCHANGED <<doc, cards, seen, late, passed>>

Asked(r) == request[r].of # {} /\ DOMAIN request[r].answer = {}

\* The server answers with the documents it has then; a change or a delete
\* changes its document first, and fails when there is none.
Served(r) ==
  /\ Asked(r)
  /\ LET of == request[r].of
         changes == {c \in of : request[r].op \in {"change", "delete"}}
     IN  /\ \A c \in changes : doc[c].there /\ doc[c].change < MaxChange
         /\ doc' = [c \in Card |-> IF c \in changes THEN Changed(c, request[r].op # "delete")[c] ELSE doc[c]]
         /\ request' = [request EXCEPT ![r].answer = [c \in of |-> doc'[c]]]
  /\ UNCHANGED <<cards, seen, late, passed>>

\* Another status, a network error, or an update without a document in its
\* answer: the user is told.
Fails(r) ==
  /\ Asked(r) /\ request' = [request EXCEPT ![r] = NoRequest]
  /\ UNCHANGED <<doc, cards, seen, late, passed>>

\* Mutant: a card is not removed for a container that is missing.
CardKept(op, c, d) == IF cards[c] > 0 THEN d.change ELSE 0

\* onContainerRefreshed replaces a card that is in the list; the others
\* remove one: container-missing, removeContainerFromList.
AfterOne(op, c, d) == IF ~d.there THEN IF op = "group" THEN cards[c] ELSE 0
                   ELSE IF cards[c] > 0 THEN d.change ELSE 0

\* onRefreshAllContainers
AfterAll(d) == IF d.there THEN d.change ELSE 0

Arrive(r) ==
  /\ request[r].of # {} /\ DOMAIN request[r].answer # {}
  /\ LET op == request[r].op
         answer == request[r].answer
         of == request[r].of
     IN  /\ cards' = [c \in Card |-> IF c \notin of THEN cards[c]
                        ELSE IF op = "all" THEN AfterAll(answer[c]) ELSE AfterOne(op, c, answer[c])]
         /\ seen' = [c \in Card |-> IF c \in of /\ answer[c].change > seen[c].change THEN answer[c] ELSE seen[c]]
         /\ late' = late \cup {c \in of : answer[c].change < seen[c].change}
         /\ passed' = passed \cup {c \in of : op = "group" /\ ~answer[c].there}
  /\ request' = [request EXCEPT ![r] = NoRequest]
  /\ UNCHANGED doc

PageNext ==
  \/ \E c \in Card : StoreChanges(c)
  \/ \E r \in Request : \/ \E c \in Card, op \in OneCard : Press(r, c, op)
                        \/ PressAll(r) \/ Served(r) \/ Fails(r) \/ Arrive(r)

PageSpec == PageInit /\ [][PageNext]_pageVars

-------------------------------------------------------------------------------
(***************************************************************************)
(* CardsAreLatest: a card shows the newest document that any answer to the *)
(* page carried, and none is left of a container that an answer said is    *)
(* gone - unless an older answer came after a newer one, or a group update *)
(* passed over the missing container.                                      *)
(***************************************************************************)
CardsAreLatest ==
  \A c \in Card \ (late \cup passed) :
    cards[c] > 0 => seen[c].there /\ cards[c] = seen[c].change
================================================================================
