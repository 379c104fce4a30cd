------------------------------- MODULE Guards --------------------------------
(* Pages and handlers for some users only.                                 *)
(*                                                                         *)
(* A browser tab is at a page; the page's load, and the guard the page has *)
(* for its visitors, are events like any click, handled one after the      *)
(* other.  An event loads the user of the session first, and may ask the   *)
(* database what the user may do later.  Meanwhile sessions and rights     *)
(* change elsewhere.                                                       *)
(*                                                                         *)
(* An operator named Op_Variant is Op with a plausible mistake in it; no   *)
(* action uses it.                                                         *)
EXTENDS Naturals, Sequences

CONSTANTS
  Visitors,      \* users
  Policies,      \* records: what the site asks for (see PolicyRecord)
  MaxQueue,      \* events a tab may have waiting
  MaxOutside     \* clicks, visits and changes from elsewhere

Home == "home"
LoginPage == "login"
Guest == "guest"

(* What each page asks for; whether the right is a flag of the user or is  *)
(* asked of the database; where a page sends those without it; where a     *)
(* guarded handler sends strangers, and those without the right if it does *)
(* not handle their denial; the pages that load by such a handler.         *)
PolicyRecord ==
  [asks : [{Home, LoginPage, "panel"} -> {"nothing", "login", "right"}],
   right : {"flag", "query"}, refused : {Home, LoginPage}, sentTo : {Home, LoginPage, "panel"},
   denied : {"handled", "redirect"}, loads : SUBSET {Home, "panel"}]

NoPolicy ==
  [asks |-> [page \in {Home, LoginPage, "panel"} |-> "nothing"], right |-> "none", refused |-> Home,
   sentTo |-> Home, denied |-> "handled", loads |-> {}]

ASSUME GuardsAssumption ==
  /\ \A p \in Policies :
       /\ p \in PolicyRecord /\ p.asks[LoginPage] = "nothing"
       /\ p.asks[p.refused] # "right" /\ p.sentTo \notin p.loads
  /\ Guest \notin Visitors /\ MaxQueue \in Nat /\ MaxOutside \in Nat

VARIABLES
  policy,
  user,          \* of the session the browser has
  holders,       \* those with the right
  visit,         \* page, is_hydrated and is_authenticated of the tab's state
  queue,         \* its events
  handling,      \* the event being handled, with the user it loaded
  ran,           \* the last guarded handler that ran: for whom, who had the right
  meanwhile,     \* users signed in, and with the right, since the page was opened
  outside        \* steps taken so far from outside

guardVars == <<policy, user, holders, visit, queue, handling, ran, meanwhile, outside>>

Resting == [event |-> "none", user |-> Guest, flag |-> FALSE, held |-> {}]

(********************************** pages **********************************)
(* A page for users with a right has its guard mounted always; a page for  *)
(* signed-in users has it where the content is not shown.                  *)
GuardedPage == <<"require">>
ProtectedPage(hydrated, known) == IF hydrated /\ known THEN <<>> ELSE <<"redirect to login">>

Guard(p, page, hydrated, known) ==
  CASE p.asks[page] = "right" -> GuardedPage
    [] p.asks[page] = "login" -> ProtectedPage(hydrated, known)
    [] OTHER -> <<>>

(* The guard is mounted before or after the page has asked for its load.   *)
Arrivals(p, page, hydrated, known) ==
  LET guard == Guard(p, page, hydrated, known) IN {guard \o <<"load">>, <<"load">> \o guard}

OpensPage(page, hydrated, known, waiting) ==
  /\ visit' = [page |-> page, hydrated |-> hydrated, known |-> known]
  /\ \E events \in Arrivals(policy, page, hydrated, known) : queue' = waiting \o events
  /\ meanwhile' = [users |-> {user}, held |-> holders]

(* On a page for signed-in users the guard is mounted anew when the        *)
(* content that was shown gives way to it.                                 *)
Remounts(hydrated, known) ==
  IF policy.asks[visit.page] = "login" /\ visit.hydrated /\ visit.known THEN ProtectedPage(hydrated, known) ELSE <<>>

Becomes(hydrated, known, waiting) ==
  /\ visit' = [visit EXCEPT !.hydrated = hydrated, !.known = known]
  /\ queue' = waiting \o Remounts(hydrated, known)
  /\ UNCHANGED meanwhile

Stays(known) == Becomes(visit.hydrated, known, queue)

(* rx.redirect keeps the state of the tab and what waits, and may do       *)
(* nothing where the tab is at the page already.  Changing window.location *)
(* reloads; the tab's storage was cleared: a new state.                    *)
Redirect(page, known) ==
  \/ OpensPage(page, visit.hydrated, known, queue)
  \/ page = visit.page /\ Stays(known)
Relocate(page) == OpensPage(page, FALSE, FALSE, <<>>)

Waits(event) == queue' = Append(queue, event) /\ UNCHANGED <<visit, meanwhile>>

GuardsInit ==
  /\ policy = NoPolicy
  /\ user = Guest
  /\ holders = {}
  /\ visit = [page |-> Home, hydrated |-> FALSE, known |-> FALSE]
  /\ queue = <<>>
  /\ handling = Resting
  /\ ran = [by |-> Guest, held |-> {Guest}]
  /\ meanwhile = [users |-> {}, held |-> {}]
  /\ outside = 0

(* The tab is opened, by a browser that has a session or has none. *)
OpenSite(p) ==
  /\ policy = NoPolicy
  /\ policy' = p
  /\ user' \in Visitors \cup {Guest}
  /\ holders' \in SUBSET Visitors
  /\ queue' \in Arrivals(p, Home, FALSE, FALSE)
  /\ meanwhile' = [users |-> {user'}, held |-> holders']
  /\ UNCHANGED <<visit, handling, ran, outside>>

(********************************** events *********************************)
TakeEvent ==
  /\ handling = Resting /\ queue # <<>>
  /\ handling' = [event |-> Head(queue), user |-> user, flag |-> user \in holders, held |-> holders]
  /\ queue' = Tail(queue)
  /\ UNCHANGED <<policy, user, holders, visit, ran, meanwhile, outside>>

Handles(event) == handling.event = event /\ handling' = Resting
Outwards == UNCHANGED <<policy, user, holders, outside>>

(* The events a page has for its load. *)
LoadEvents(page) ==
  CASE page = LoginPage -> <<"on load login">>
    [] page \in policy.loads -> <<"click">>
    [] OTHER -> <<>>

(* on_load_internal of Reflex. *)
Load ==
  /\ Handles("load")
  /\ IF LoadEvents(visit.page) = <<>>
     THEN Becomes(TRUE, visit.known, queue)
     ELSE Becomes(FALSE, visit.known, queue \o LoadEvents(visit.page) \o <<"hydrated">>)
  /\ Outwards /\ UNCHANGED ran

Hydrated ==
  /\ Handles("hydrated")
  /\ Becomes(TRUE, visit.known, queue)
  /\ Outwards /\ UNCHANGED ran

(* is_authenticated is a computed variable: what it was, or computed anew. *)
Known == {visit.known, handling.user # Guest}

(* on_load_login: the login page is not for those who are signed in. *)
OnLoadLogin ==
  /\ Handles("on load login")
  /\ \E known \in Known : IF known THEN Relocate(Home) ELSE Stays(known)
  /\ Outwards /\ UNCHANGED ran

RedirectToLogin_NeedsBoth ==
  /\ Handles("redirect to login")
  /\ IF ~visit.hydrated THEN Waits("redirect to login")
     ELSE \E known \in Known :
            IF handling.user # Guest /\ known THEN Stays(known) ELSE Redirect(LoginPage, known)
  /\ Outwards /\ UNCHANGED ran

(* redirect_to_login; before the state is hydrated it queues itself again. *)
RedirectToLogin ==
  /\ Handles("redirect to login")
  /\ IF ~visit.hydrated THEN Waits("redirect to login")
     ELSE \E known \in Known :
            IF handling.user # Guest \/ known THEN Stays(known) ELSE Redirect(LoginPage, known)
  /\ Outwards /\ UNCHANGED ran

Allowed_Cached == handling.user \in meanwhile.held
Allowed == IF policy.right = "flag" THEN handling.flag ELSE handling.user \in holders

Require_Drops ==
  /\ Handles("require")
  /\ IF ~visit.hydrated THEN Stays(visit.known)
     ELSE \E known \in Known :
            CASE handling.user = Guest -> Redirect(LoginPage, known)
              [] handling.user # Guest /\ ~Allowed -> Redirect(policy.refused, known)
              [] OTHER -> Stays(known)
  /\ Outwards /\ UNCHANGED ran

(* require_permission, _group, _staff and _superuser. *)
Require ==
  /\ Handles("require")
  /\ IF ~visit.hydrated THEN Waits("require")
     ELSE \E known \in Known :
            CASE handling.user = Guest -> Redirect(LoginPage, known)
              [] handling.user # Guest /\ ~Allowed -> Redirect(policy.refused, known)
              [] OTHER -> Stays(known)
  /\ Outwards /\ UNCHANGED ran

(* A handler under permission_required and the like: a stranger is sent    *)
(* away, the denial of others handled (on_denied, on_permission_denied) or *)
(* a redirect too.  login_required sends strangers away and no others.     *)
Click ==
  /\ Handles("click")
  /\ \E known \in Known :
       CASE handling.user = Guest -> Redirect(policy.sentTo, known) /\ ran' = ran
         [] handling.user # Guest /\ Allowed ->
              ran' = [by |-> handling.user, held |-> handling.held] /\ Stays(known)
         [] OTHER ->
              /\ IF policy.denied = "handled" THEN Stays(known) ELSE Redirect(policy.sentTo, known)
              /\ ran' = ran
  /\ Outwards

(********************************* elsewhere *******************************)
Outside == policy # NoPolicy /\ outside < MaxOutside /\ outside' = outside + 1 /\ UNCHANGED policy

Visits(page) ==
  /\ Outside
  /\ Len(queue) < MaxQueue
  /\ Redirect(page, visit.known) \/ OpensPage(page, FALSE, visit.known, <<>>)
  /\ UNCHANGED <<user, holders, handling, ran>>

Clicks ==
  /\ Outside
  /\ Len(queue) < MaxQueue
  /\ queue' = Append(queue, "click")
  /\ UNCHANGED <<user, holders, visit, handling, ran, meanwhile>>

(* Another tab, or Django, signs in or out. *)
UserChanges ==
  /\ Outside
  /\ \E u \in Visitors \cup {Guest} : user' = u /\ meanwhile' = [meanwhile EXCEPT !.users = @ \cup {u}]
  /\ UNCHANGED <<holders, visit, queue, handling, ran>>

RightsChange ==
  /\ Outside
  /\ \E u \in Visitors :
       holders' = IF u \in holders THEN holders \ {u} ELSE holders \cup {u}
  /\ meanwhile' = [meanwhile EXCEPT !.held = @ \cup holders']
  /\ handling' = [handling EXCEPT !.held = IF handling = Resting THEN {} ELSE @ \cup holders']
  /\ UNCHANGED <<user, visit, queue, ran>>

HandleEvent == Load \/ Hydrated \/ OnLoadLogin \/ RedirectToLogin \/ Require \/ Click

GuardsNext ==
  \/ \E p \in Policies : OpenSite(p)
  \/ TakeEvent \/ HandleEvent
  \/ \E p \in {Home, LoginPage, "panel"} : Visits(p)
  \/ Clicks \/ UserChanges \/ RightsChange

GuardsFairness == WF_guardVars(TakeEvent) /\ WF_guardVars(HandleEvent)

GuardsSpec == GuardsInit /\ [][GuardsNext]_guardVars /\ GuardsFairness

(******************************** properties *******************************)
Quiet == queue = <<>> /\ handling = Resting

(* Once its events are done, a tab is at a page for users with a right     *)
(* only if, since it was opened, somebody was signed in who had the right  *)
(* since: nobody is left there by an unlucky order of the page's events,   *)
(* of rights and of sessions (auth/mixins/navigation.py, _enforce_access). *)
RefusedAreSentAway ==
  Quiet /\ policy.asks[visit.page] = "right" => meanwhile.users \cap meanwhile.held # {}

(* A guarded handler runs for a user who had the right at some time since  *)
(* the event began (auth/decorators.py, _wrap_check_event).                *)
HandlerWasAllowed == ran.by \in ran.held

(* Redirects and guards that queue themselves again come to an end, unless *)
(* the page signed-in users are sent to refuses them, itself or by the     *)
(* handler it loads with.                                                  *)
RefusesAtHome ==
  /\ policy.asks[Home] = "right" \/ (Home \in policy.loads /\ policy.denied = "redirect")
  /\ user # Guest /\ user \notin holders

TabSettles == []<>RefusesAtHome \/ <>[]Quiet
=============================================================================
