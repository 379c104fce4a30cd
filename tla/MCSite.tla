------------------------------- MODULE MCSite --------------------------------
(* The parts of the site around the event bridge, side by side.  They share *)
(* no variable, so whatever one of them does, it also does while the others *)
(* rest: the first step of a behaviour picks the one to look at.            *)
EXTENDS EventChains, MountView, WebLayout, Startup, Accounts, Guards, Pages

CONSTANTS t1, t2

VARIABLE focus

vars == <<focus, chainVars, mountVars, layoutVars, startupVars, accountsVars, guardVars, pagesVars>>

(******************************* event chains ******************************)
MCSettings ==
  [configured : {<<"session", "csrf", "auth", "locale">>, <<"locale", "session">>},
   skip : {NotSet, <<"locale">>}, authOnly : {NotSet, <<"session">>}]

(******************************* the web server ****************************)
Proc(envProxy, envSep, setProxy, own) ==
  [envProxy |-> envProxy, envSep |-> envSep, debug |-> TRUE, setProxy |-> setProxy,
   setSep |-> FALSE, vitePort |-> "vite", viteHost |-> "local", ownPort |-> own]

(* One directory has the page only, the next one also the shell. *)
Bundles == << {<<"page", ".html">>},
              {<<"page", "as it is">>, Shell, <<"script", "as it is">>} >>

MCServers ==
  {[baseDir |-> b, roots |-> r] @@ Proc(e, s, t, o) :
    b \in {FALSE}, r \in {Bundles, <<{}>>}, e \in {"on", "unset"}, s \in {"unset"},
    t \in {TRUE}, o \in {"django", "vite"}}
  \cup {[baseDir |-> TRUE, roots |-> <<>>] @@ Proc("unset", "on", TRUE, "django"),
        [baseDir |-> TRUE, roots |-> <<>>] @@ Proc("unset", "unset", TRUE, "django"),
        [baseDir |-> FALSE, roots |-> Bundles] @@ Proc("off", "unset", TRUE, "django"),
        [baseDir |-> FALSE, roots |-> <<>>] @@ [Proc("off", "unset", TRUE, "django") EXCEPT !.debug = FALSE]}

MCLayouts ==
  [process : {Proc("unset", "on", TRUE, "django"), Proc("unset", "off", TRUE, "django")},
   enabled : BOOLEAN, server : BOOLEAN, prefixes : {{"/admin"}, {"/admin", "/shop"}}]
MCReserved == {"/_event", "/_upload"}
MCPaths == {"/admin", "/shop", "/_event", "/page"}

(********************************** start-up *******************************)
(* First whatever the settings and urls.py say, then whatever the plugin.  *)
MCBoots ==
  [door : {"reflex", "django"}, pth : BOOLEAN, order : {"before", "after", "absent"}, profile : {"integrated"},
   embed : {"unset"}, mount : {"on", "off", "unset"}, bridge : {"unset"}, prefix : {Unset}, server : {"unset"},
   settingMount : {"on", "off", "unset"}, settingServer : {"unset"},
   urls : {<<"/api">>, <<"/admin", "/api">>, <<"/api", "*">>, <<"/admin", "/api", "*">>}]
  \cup
  [door : {"reflex", "django"}, pth : {TRUE}, order : {"after"}, profile : Profiles,
   embed : {"on", "off", "unset"}, mount : {"unset"}, bridge : {"off", "unset"}, prefix : {Unset, {"/api"}},
   server : {"url", "unset"}, settingMount : {"unset"}, settingServer : {"url", "unset"},
   urls : {<<"/api">>}]
MCSegments == {"/admin", "/api"}

(********************************** accounts *******************************)
MCProcessOf == (t1 :> "p1") @@ (t2 :> "p2")
MCFolded == ("m" :> "m") @@ ("M" :> "m")

(********************************** guards *********************************)
Policy(home, panel, right, refused, sentTo, denied, loads) ==
  [asks |-> (Home :> home) @@ (LoginPage :> "nothing") @@ ("panel" :> panel),
   right |-> right, refused |-> refused, sentTo |-> sentTo, denied |-> denied, loads |-> loads]
MCPolicies ==
  {Policy("nothing", "right", "flag", Home, LoginPage, "handled", {}),
   Policy("nothing", "right", "query", Home, "panel", "redirect", {}),
   Policy("login", "right", "flag", LoginPage, Home, "redirect", {"panel"}),
   Policy("login", "login", "query", Home, "panel", "handled", {Home}),
   Policy("login", "right", "query", Home, LoginPage, "redirect", {Home}),
   Policy("right", "login", "query", LoginPage, LoginPage, "redirect", {"panel"})}

(********************************** pages **********************************)
MCSpellings ==
  <<RegisterRoute, ConfirmRoute, "/about", LoginRoute, ResetRoute, "about", NoRoute>>
MCFormat == (LoginRoute :> "login") @@ ("/about" :> "about") @@ ("about" :> "about")
            @@ [s \in {RegisterRoute, ResetRoute, ConfirmRoute} |-> s]

Entries(page, routes, bys, buckets) ==
  [page : {page}, route : routes, by : bys, bucket : buckets, load : {TRUE}]
OneOf(entries) == {<<e>> : e \in entries}
Either == {"page", "rx.page"}

(* Two pages and a late one, or one beside the app module's own. *)
MCPrograms ==
  {[views |-> <<e, f>>, late |-> l, own |-> <<>>, helper |-> h, auth |-> {"enabled", "reset"},
    webPath |-> TRUE] :
     e \in Entries("f", {"/about", NoRoute}, Either, {"", AppName}),
     f \in Entries("g", {"about", NoRoute}, Either, {AppName}),
     l \in {<<>>} \cup OneOf(Entries("h", {LoginRoute, NoRoute}, {"page"}, {""})),
     h \in {"none", "ensure"}}
  \cup [views : OneOf(Entries("f", {"/about", "about", LoginRoute}, Either, {""})), late : {<<>>},
        own : OneOf(Entries("own", {"about"}, {"page"}, {AppName})), helper : {"none", "add"},
        auth : {{"enabled", "signup"}}, webPath : BOOLEAN]

(******************************* side by side ******************************)
Init ==
  focus = "none" /\ ChainsInit /\ MountInit /\ LayoutInit /\ StartupInit /\ AccountsInit /\ GuardsInit /\ PagesInit

Looks(machine) == focus \in {"none", machine} /\ focus' = machine

Next ==
  \/ Looks("chains") /\ ChainsNext
     /\ UNCHANGED <<mountVars, layoutVars, startupVars, accountsVars, guardVars, pagesVars>>
  \/ Looks("mount") /\ MountNext
     /\ UNCHANGED <<chainVars, layoutVars, startupVars, accountsVars, guardVars, pagesVars>>
  \/ Looks("layout") /\ LayoutNext
     /\ UNCHANGED <<chainVars, mountVars, startupVars, accountsVars, guardVars, pagesVars>>
  \/ Looks("startup") /\ StartupNext
     /\ UNCHANGED <<chainVars, mountVars, layoutVars, accountsVars, guardVars, pagesVars>>
  \/ Looks("accounts") /\ AccountsNext
     /\ UNCHANGED <<chainVars, mountVars, layoutVars, startupVars, guardVars, pagesVars>>
  \/ Looks("guards") /\ GuardsNext
     /\ UNCHANGED <<chainVars, mountVars, layoutVars, startupVars, accountsVars, pagesVars>>
  \/ Looks("pages") /\ PagesNext
     /\ UNCHANGED <<chainVars, mountVars, layoutVars, startupVars, accountsVars, guardVars>>

Spec == Init /\ [][Next]_vars /\ MountFairness /\ LayoutFairness /\ GuardsFairness
=============================================================================
