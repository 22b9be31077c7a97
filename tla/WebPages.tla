-------------------------------- MODULE WebPages -------------------------------
(* The pages of the UI, as its router moves between them: a guard asks the server *)
(* who the user is before every navigation, a page loads what it shows before it *)
(* is entered, and a newer navigation takes the place of one that waits. The *)
(* filters of the containers page are kept in the page and in the query of its *)
(* address, which a link to it carries. *)
EXTENDS Naturals, Sequences, SequencesExt

CONSTANTS Filter,       \* the filters of the containers page
          Setting,      \* what a filter may be set to
          Off,          \* a filter that is not set
          NoPage,       \* no page on the screen, no address to go back to
          MaxMoves      \* clicks, reloads and sign-ins of the user

PageName == {"home", "containers", "login"}
Filters == [Filter -> Setting \cup {Off}]
Addresses == [name : PageName \cup {NoPage}, query : Filters, next : PageName \cup {NoPage}]
Moves == [to : Addresses, waits : {"guard", "data", "strategies"}, by : {"link", "pick", "back"}]

ASSUME NoPageAssumption == NoPage \notin Moves \cup PageName

VARIABLES strategies,   \* the kinds of authentication the server offers
          session,      \* the server knows the browser's session
          user,         \* the App component shows a signed-in user
          asking,       \* the App component waits for the user
          screen,       \* the address of the page on screen
          filters,      \* the filters of the containers page on screen
          history,      \* the addresses the back button leads to
          move,         \* the navigation under way, or NoPage
          adrift,       \* past: the address changed under a page that stayed
          moves

webVars == <<strategies, session, user, asking, screen, filters, history, move, adrift, moves>>

NoFilters == [f \in Filter |-> Off]
Address(name, query, next) == [name |-> name, query |-> query, next |-> next]
At(name) == Address(name, NoFilters, NoPage)

\* A move: where to, and what it waits for: the guard, or what the page loads.
MoveTo(address) == [to |-> address, waits |-> "guard", by |-> "link"]

WebInit ==
  /\ strategies \in {{"anonymous"}, {"basic"}, {"oidc"}, {"basic", "oidc"}}
  /\ session \in BOOLEAN
  /\ user = FALSE /\ asking = FALSE
  /\ screen = At(NoPage) /\ filters = NoFilters /\ history = <<>>
  /\ move = MoveTo(At("containers")) /\ adrift = FALSE
  /\ moves = 0

Counted == moves < MaxMoves /\ moves' = moves + 1

\* Mutant: the query carries the filter that changed.
ChangeOnly(chosen) == [f \in Filter |-> IF chosen[f] = filters[f] THEN Off ELSE chosen[f]]

\* updateQueryParams: the query carries every filter that is set.
Query(chosen) == chosen

\* A click in the navigation drawer.
Go(name) ==
  /\ screen.name \notin {NoPage, "login"} /\ Counted
  /\ move' = MoveTo(At(name))
  /\ UNCHANGED <<strategies, session, user, asking, screen, filters, history, adrift>>

\* onAgentChanged and the other handlers: the page filters at once, its address
\* follows when the guard lets it.
Pick(f, choice) ==
  /\ screen.name = "containers" /\ filters[f] # choice /\ Counted
  /\ filters' = [filters EXCEPT ![f] = choice]
  /\ move' = [MoveTo(Address("containers", Query(filters'), NoPage)) EXCEPT !.by = "pick"]
  /\ UNCHANGED <<strategies, session, user, asking, screen, history, adrift>>

Back ==
  /\ history # <<>> /\ Counted
  /\ move' = [MoveTo(Last(history)) EXCEPT !.by = "back"]
  /\ UNCHANGED <<strategies, session, user, asking, screen, filters, history, adrift>>

\* The browser loads the address anew, or a link opens it.
Load(address) ==
  /\ screen.name # NoPage /\ Counted
  /\ screen' = At(NoPage) /\ user' = FALSE /\ asking' = FALSE /\ filters' = NoFilters
  /\ move' = MoveTo(address) /\ adrift' = FALSE
  /\ UNCHANGED <<strategies, session, history>>

\* The navigation is done: the address on screen is the one moved to. A page that
\* stays keeps its state. The App component shows no user on the login page and
\* asks for one anywhere else (setupAuthStateManagement).
Enter(loaded) ==
  LET stays == screen.name = move.to.name
  IN  /\ screen' = move.to
      /\ history' = CASE move.by = "back" -> Front(history)
                     [] move.by # "back" /\ screen.name \in {NoPage, "login"} -> history
                     [] OTHER -> IF Len(history) < 2 THEN Append(history, screen) ELSE history
      /\ filters' = IF stays THEN filters ELSE IF loaded THEN move.to.query ELSE NoFilters
      /\ adrift' = IF stays THEN move.by # "pick" /\ move.to.query # filters
                   ELSE ~loaded /\ move.to.query # NoFilters
      /\ user' = (user /\ move.to.name # "login")
      /\ asking' = (asking \/ (move.to.name # "login" /\ ~user))
      /\ move' = NoPage

\* applyAuthNavigationGuard: getUser answers the user, or nothing when there is no
\* session, or the request fails; the way to the page is left for the login page.
Guard(answered) ==
  /\ move # NoPage /\ move.waits = "guard"
  /\ LET known == answered /\ (session \/ "anonymous" \in strategies)
         name == move.to.name
         enters == known /\ name \in {screen.name, "home"} \ {"login"}
     IN  \/ enters /\ Enter(TRUE)
         \/ /\ ~enters
            /\ move' = IF name = "login" THEN [move EXCEPT !.waits = "strategies"]
                       ELSE IF known THEN [move EXCEPT !.waits = "data"]
                       ELSE MoveTo(Address("login", NoFilters, name))
            /\ UNCHANGED <<screen, filters, history, adrift, user, asking>>
  /\ UNCHANGED <<strategies, session, moves>>

\* The App component's own question is answered, on whatever page that is by now.
UserIs(answered) ==
  /\ asking
  /\ asking' = FALSE
  /\ user' = (user \/ (answered /\ (session \/ "anonymous" \in strategies)))
  /\ UNCHANGED <<strategies, session, screen, filters, history, move, adrift, moves>>

\* beforeRouteEnter of the containers page: the filters of the query are applied
\* when the containers came, and not otherwise.
Loaded(ok) ==
  /\ move # NoPage /\ move.waits = "data"
  /\ Enter(ok)
  /\ UNCHANGED <<strategies, session, moves>>

\* beforeRouteEnter of the login page: nothing to sign in to goes home, a provider
\* leaves the application and comes back signed in, to its start.
OfferLogin ==
  /\ move # NoPage /\ move.waits = "strategies"
  /\ \/ /\ "anonymous" \in strategies
        /\ move' = MoveTo(At("home"))
        /\ UNCHANGED <<session, screen, filters, history, user, asking, adrift>>
     \/ /\ "oidc" \in strategies
        /\ session' = TRUE /\ user' = FALSE /\ asking' = FALSE
        /\ screen' = At(NoPage) /\ filters' = NoFilters /\ adrift' = FALSE
        /\ move' = MoveTo(At("home")) /\ UNCHANGED history
     \/ strategies = {"basic"} /\ Enter(TRUE) /\ UNCHANGED session
  /\ UNCHANGED <<strategies, moves>>

\* loginBasic, then onAuthenticationSuccess: to the page asked for, its path alone.
SignIn ==
  /\ screen.name = "login" /\ Counted
  /\ session' = TRUE
  /\ move' = MoveTo(At(IF screen.next = NoPage THEN "home" ELSE screen.next))
  /\ UNCHANGED <<strategies, user, asking, screen, filters, history, adrift>>

\* logout of the AppBar.
SignOut ==
  /\ user /\ Counted
  /\ session' = FALSE
  /\ move' = MoveTo(At("login"))
  /\ UNCHANGED <<strategies, user, asking, screen, filters, history, adrift>>

SessionEnds ==
  /\ session /\ session' = FALSE
  /\ UNCHANGED <<strategies, user, asking, screen, filters, history, move, adrift, moves>>

WebNext ==
  \/ \E name \in {"home", "containers"} : Go(name)
  \/ \E f \in Filter, choice \in Setting \cup {Off} : Pick(f, choice)
  \/ Back \/ Load(screen) \/ OfferLogin \/ SignIn \/ SignOut \/ SessionEnds
  \/ \E ok \in BOOLEAN : Guard(ok) \/ Loaded(ok) \/ UserIs(ok)

WebSpec == WebInit /\ [][WebNext]_webVars

-------------------------------------------------------------------------------
(* What is on screen can be sent as a link: when no navigation is under way, *)
(* loading the address of the containers page gives the filters it shows, however *)
(* picks, clicks, sign-outs and failed guards overtake each other (updateQueryParams, *)
(* parseQueryParams). Not so when the address changed under a page that stayed - *)
(* the back button, or a click on the page's own link - or its containers could *)
(* not be loaded. *)
AddressIsPage ==
  move = NoPage /\ screen.name = "containers" /\ ~adrift => screen.query = filters
===============================================================================
