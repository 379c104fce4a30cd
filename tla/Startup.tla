------------------------------- MODULE Startup -------------------------------
(* How a process that serves both Django and Reflex comes up.              *)
(*                                                                         *)
(* It is entered by the configuration of Reflex, whose plugin sets Django  *)
(* up, or by Django, which then looks for the plugin.  On the way the      *)
(* applications of Django get ready one after the other, code of the user  *)
(* runs that may ask for any of this again, the root URLconf is imported,  *)
(* and the catch-all for the single-page application is appended to it.    *)
(* `todo` is the stack of calls; a call replaces itself by those it makes. *)
(* Mounting asks for the configuration of Reflex on its way, and asking    *)
(* for it installs the integration, which mounts: the calls are re-entered.*)
(*                                                                         *)
(* URL patterns are the prefixes they are for, and CatchAll.               *)
(*                                                                         *)
(* An operator named Op_Variant is Op with a plausible mistake in it; no   *)
(* action uses it.                                                         *)
EXTENDS Naturals, Sequences, FiniteSets, SequencesExt, Functions

CONSTANTS
  Boots,         \* records: what the process is started with (see BootRecord)
  Segments       \* first segments of URLs

VARIABLES
  boot,          \* the process, NoBoot before it starts
  todo,          \* the calls to make, innermost first
  django,        \* Django: settings configured, admin discovered, its ready()
                 \* wrapped, marked as discovered, all applications ready
  urls,          \* the root URLconf and what is known about its import
  site,          \* the integration: configuration, installed, mounted, ...
  reflexApp      \* the app of Reflex: its dispatchers and bridges

startupVars == <<boot, todo, django, urls, site, reflexApp>>

(* The pattern of the single-page application, and those of the admin.     *)
CatchAll == "*"
Admin == "/admin"
Unset == {"unset"}
NoBoot == [door |-> "none"]
NoConfig == [mount |-> "none"]
NotImported == <<"not imported">>

Profiles == {"integrated", "split_dev", "reflex_only"}

(* profile to server are what rxconfig.py says, with its proxy enabled;    *)
(* mount and server are also Django settings; order is that of             *)
(* reflex_django in INSTALLED_APPS, relative to the admin; pth says whether *)
(* the package's .pth hook has wrapped get_config, as it does unless the   *)
(* package is run from its sources.                                        *)
BootRecord ==
  [door : {"reflex", "django"}, pth : BOOLEAN, order : {"before", "after", "absent"}, profile : Profiles,
   embed : {"on", "off", "unset"}, mount : {"on", "off", "unset"},
   bridge : {"on", "off", "unset"}, prefix : (SUBSET Segments) \cup {Unset},
   server : {"url", "unset"}, settingMount : {"on", "off", "unset"}, settingServer : {"url", "unset"},
   urls : Seq(Segments \cup {CatchAll})]

(* A catch-all that is written in urls.py comes last, as nothing behind it *)
(* would ever be reached.                                                  *)
Ordered(patterns) == \A k \in DOMAIN patterns : patterns[k] = CatchAll => k = Len(patterns)

ASSUME StartupAssumption ==
  /\ Segments \cap {CatchAll, "not imported", "unset"} = {}
  /\ \A b \in Boots : b \in BootRecord /\ Ordered(b.urls)

(**************************** the four pillars *****************************)
(* From the profile, the blocks of the plugin, and the settings if they    *)
(* are there to be read.                                                   *)
Or(value, default) == IF value = "unset" THEN default ELSE value

Default(profile) ==
  [embed  |-> IF profile = "integrated" THEN "on" ELSE "off",
   mount  |-> IF profile = "reflex_only" THEN "off" ELSE "on",
   bridge |-> IF profile = "reflex_only" THEN "off" ELSE "on"]

SettingMount(b, configured) == IF configured THEN b.settingMount ELSE "unset"
SettingServer(b, configured) == IF configured THEN b.settingServer ELSE "unset"

EmbedPillar(b, configured) ==
  Or(b.embed, IF SettingServer(b, configured) # "unset" THEN "off" ELSE Default(b.profile).embed)

MountPillar(b, configured) ==
  Or(b.mount, Or(SettingMount(b, configured), Default(b.profile).mount))

ProxyPillar(b, configured) == Or(b.server, SettingServer(b, configured))

BridgePillar(b) == Or(b.bridge, Default(b.profile).bridge)

Pillars(b, configured) ==
  [embed |-> EmbedPillar(b, configured), mount |-> MountPillar(b, configured),
   server |-> ProxyPillar(b, configured), bridge |-> BridgePillar(b)]

Valid(pillars) == pillars.embed = "off" => pillars.server # "unset"

MountEnabled ==
  IF site.config # NoConfig THEN site.config.mount = "on"
  ELSE Or(SettingMount(boot, django.configured), "on") = "on"

(****************************** the URLconf ********************************)
Discovered(patterns) == Range(patterns) \ {CatchAll}

Mounted_NotDiscovered(patterns) == Discovered(boot.urls)

(* The prefixes of a mount that names none: what there is below them. *)
Mounted(patterns) == Discovered(patterns)

(* Of two registrations the later counts, if it says anything.             *)
Merged(earlier, later) == IF later = Unset THEN earlier ELSE later

DjangoPrefix == IF site.registered = Unset THEN {} ELSE site.registered

FromPlugin(pillars) ==
  IF pillars.mount = "on" THEN Merged(site.registered, boot.prefix) ELSE site.registered

DefersImport == boot.order = "before"

(****************************** control ************************************)
Doing(call) == todo # <<>> /\ Head(todo) = call
Makes(calls) == todo' = calls \o Tail(todo)
Returns == Makes(<<>>)

(* export_rx_port_env asks for the configuration of Reflex before `call`,  *)
(* and whatever that raises, `call` is made.                               *)
Mounters == {"append", "mount it"}
AsksConfig(call) == IF boot.pth THEN <<"install", call>> ELSE <<call>>
Forgiven == Len(todo) > 1 /\ todo[2] \in Mounters

(* load_root_urlconf.  Nobody is told of the flags before urls.py has run. *)
LoadUrls(again) ==
  /\ Makes(<<IF again THEN "reload" ELSE "import">>)
  /\ urls' = [urls EXCEPT !.imported = TRUE, !.deferred = FALSE, !.tooEarly = @ \/ (~django.admin /\ DefersImport)]

Start(b) ==
  /\ boot = NoBoot
  /\ boot' = b
  /\ todo' = <<IF b.door = "reflex" THEN "install" ELSE "configure">>
  /\ UNCHANGED <<django, urls, site, reflexApp>>

(* install_plugin_integration, up to the configuration of Django: what the *)
(* plugin says is known early, what the settings say is not.               *)
Install ==
  /\ Doing("install")
  /\ IF site.installed \/ site.busy
     THEN Returns /\ UNCHANGED site
     ELSE /\ Makes(<<"configure", "resolve">>)
          /\ site' = [site EXCEPT !.busy = TRUE, !.config = Pillars(boot, django.configured)]
  /\ UNCHANGED <<boot, django, urls, reflexApp>>

(* The configuration again, now with the settings; it may be refused, and  *)
(* then the process does not come up, unless it was only asked for its     *)
(* ports.                                                                  *)
Resolve ==
  /\ Doing("resolve")
  /\ LET pillars == Pillars(boot, django.configured) IN
     IF Valid(pillars)
     THEN /\ Makes(<<"ensure", "auto mount", "patch">>)
          /\ site' = [site EXCEPT !.config = pillars, !.registered = FromPlugin(pillars)]
     ELSE /\ IF Forgiven THEN Returns ELSE todo' = <<>>
          /\ site' = [site EXCEPT !.busy = FALSE, !.refused = ~Forgiven]
  /\ UNCHANGED <<boot, django, urls, reflexApp>>

Patch ==
  /\ Doing("patch")
  /\ Returns
  /\ site' = [site EXCEPT !.installed = TRUE, !.busy = FALSE]
  /\ UNCHANGED <<boot, django, urls, reflexApp>>

(* configure_django: the applications get ready in their order; code of    *)
(* the user runs before them and when the admin is discovered.             *)
Configure ==
  /\ Doing("configure")
  /\ IF django.configured
     THEN Returns /\ UNCHANGED django
     ELSE /\ django' = [django EXCEPT !.configured = TRUE]
          /\ Makes(CASE boot.order = "before" -> <<"hook", "reflex ready", "admin ready", "all ready", "install">>
                     [] boot.order = "after"  -> <<"hook", "admin ready", "reflex ready", "all ready", "install">>
                     [] OTHER -> <<"hook", "admin ready", "all ready", "install">>)
  /\ UNCHANGED <<boot, urls, site, reflexApp>>

(* Code of the user asks for Django, for the prefixes or for the           *)
(* configuration of Reflex, or for nothing.                                *)
Hook ==
  /\ Doing("hook")
  /\ \E call \in {"configure", "ensure", "install"} : Makes(<<call>>) \/ Returns
  /\ site' = [site EXCEPT !.hasty = @ \/ (todo' # Tail(todo) /\ Head(todo') = "install"
                                            /\ ~site.busy /\ ~django.admin)]
  /\ UNCHANGED <<boot, django, urls, reflexApp>>

ReflexReady_AtOnce ==
  /\ Doing("reflex ready")
  /\ Makes(<<"auto mount">>)
  /\ UNCHANGED <<boot, django, urls, site, reflexApp>>

(* schedule_auto_mount_after_admin *)
ReflexReady ==
  /\ Doing("reflex ready")
  /\ IF MountEnabled /\ boot.order # "before" THEN Makes(<<"auto mount">>) ELSE Returns
  /\ django' = [django EXCEPT !.wrapped = MountEnabled /\ boot.order = "before"]
  /\ UNCHANGED <<boot, urls, site, reflexApp>>

AdminReady ==
  /\ Doing("admin ready")
  /\ django' = [django EXCEPT !.admin = TRUE]
  /\ Makes(IF django.wrapped THEN <<"hook", "refresh", "auto mount">> ELSE <<"hook">>)
  /\ UNCHANGED <<boot, urls, site, reflexApp>>

AllReady ==
  /\ Doing("all ready")
  /\ Returns
  /\ django' = [django EXCEPT !.ready = TRUE]
  /\ UNCHANGED <<boot, urls, site, reflexApp>>

(* refresh_urlconf_after_admin *)
Refresh ==
  /\ Doing("refresh")
  /\ django' = [django EXCEPT !.marked = TRUE]
  /\ IF urls.deferred \/ urls.tooEarly \/ ~urls.imported
     THEN LoadUrls(urls.tooEarly)
     ELSE Returns /\ UNCHANGED urls
  /\ UNCHANGED <<boot, site, reflexApp>>

(* ensure_mount_config_loaded *)
Ensure ==
  /\ Doing("ensure")
  /\ IF urls.imported \/ urls.deferred \/ ~django.ready
     THEN Returns /\ UNCHANGED urls
     ELSE IF DefersImport /\ ~django.marked
          THEN Returns /\ urls' = [urls EXCEPT !.deferred = TRUE]
          ELSE LoadUrls(FALSE)
  /\ UNCHANGED <<boot, django, site, reflexApp>>

(* What urls.py lists before it adds a catch-all of its own. *)
Listed(patterns) == IF CatchAll \in Range(patterns) THEN Front(patterns) ELSE patterns

(* Importing runs urls.py, up to `urlpatterns += reflex_mount()` if it has *)
(* that; the admin's URLs are those of the models it knows by then.  What  *)
(* is being imported already is found as far as it has got.                *)
Import ==
  /\ Doing("import") \/ Doing("reload")
  /\ IF urls.patterns # NotImported /\ Doing("import")
     THEN Returns /\ UNCHANGED <<urls, site>>
     ELSE LET listed == Listed(boot.urls)
              manual == listed # boot.urls
          IN  /\ Makes(IF manual THEN AsksConfig("append") ELSE <<>>)
              /\ urls' = [urls EXCEPT !.patterns = listed,
                             !.complete = IF Admin \in Range(listed) THEN django.admin ELSE @]
              /\ site' = [site EXCEPT !.registered =
                             IF manual THEN Merged(@, Mounted(listed)) ELSE @]
  /\ UNCHANGED <<boot, django, reflexApp>>

(* maybe_auto_mount *)
AutoMount ==
  /\ Doing("auto mount")
  /\ IF site.mounted \/ ~MountEnabled
     THEN Returns /\ site' = [site EXCEPT !.mounted = TRUE]
     ELSE Makes(<<"import", "mount">>) /\ UNCHANGED site
  /\ UNCHANGED <<boot, django, urls, reflexApp>>

WithAdmin_Last(patterns) == IF Admin \in Range(patterns) THEN patterns ELSE Append(patterns, Admin)
WithAdmin(patterns) == IF Admin \in Range(patterns) THEN patterns ELSE <<Admin>> \o patterns

(* ... with the URLconf imported: the admin's pages, then the catch-all,   *)
(* unless there is one by now.                                             *)
Mount ==
  /\ Doing("mount")
  /\ LET patterns == WithAdmin(urls.patterns) IN
     /\ urls' = [urls EXCEPT !.patterns = patterns,
                    !.complete = IF patterns = urls.patterns THEN @ ELSE django.admin]
     /\ IF CatchAll \in Range(patterns)
        THEN Returns /\ site' = [site EXCEPT !.mounted = TRUE]
        ELSE /\ Makes(AsksConfig("mount it"))
             /\ site' = [site EXCEPT !.registered = Merged(@, Mounted(patterns))]
  /\ UNCHANGED <<boot, django, reflexApp>>

(* The catch-all comes last, whatever was added since its caller looked,   *)
(* and a first one before it has the paths.                                *)
AddCatchAll ==
  /\ Doing("append") \/ Doing("mount it")
  /\ Returns
  /\ urls' = [urls EXCEPT !.patterns = Append(@, CatchAll),
                 !.spared = IF CatchAll \in Range(urls.patterns) THEN @ ELSE Mounted(urls.patterns)]
  /\ site' = [site EXCEPT !.mounted = @ \/ Doing("mount it")]
  /\ UNCHANGED <<boot, django, reflexApp>>

(* apply_django_integration, at the end of every compilation. *)
Apply ==
  /\ todo = <<>> /\ site.installed
  /\ reflexApp' = [dispatchers |-> IF site.config.embed = "on" /\ reflexApp.dispatchers = <<>>
                                   /\ DjangoPrefix # {}
                                THEN <<DjangoPrefix>> ELSE reflexApp.dispatchers,
             bridge |-> reflexApp.bridge \/ site.config.bridge = "on"]
  /\ UNCHANGED <<boot, todo, django, urls, site>>

(* The first request that gets to Django imports the URLconf. *)
Serve ==
  /\ todo = <<>> /\ site.installed
  /\ urls.patterns = NotImported
  /\ todo' = <<"import">>
  /\ UNCHANGED <<boot, django, urls, site, reflexApp>>

StartupInit ==
  /\ boot = NoBoot
  /\ todo = <<>>
  /\ django = [configured |-> FALSE, admin |-> FALSE, wrapped |-> FALSE, marked |-> FALSE,
               ready |-> FALSE]
  /\ urls = [patterns |-> NotImported, complete |-> FALSE, spared |-> {}, imported |-> FALSE,
             deferred |-> FALSE, tooEarly |-> FALSE]
  /\ site = [config |-> NoConfig, installed |-> FALSE, busy |-> FALSE, refused |-> FALSE,
             mounted |-> FALSE, registered |-> Unset, hasty |-> FALSE]
  /\ reflexApp = [dispatchers |-> <<>>, bridge |-> FALSE]

StartupNext ==
  \/ \E b \in Boots : Start(b)
  \/ Install \/ Resolve \/ Patch \/ Configure \/ Hook
  \/ ReflexReady \/ AdminReady \/ AllReady \/ Refresh
  \/ Ensure \/ Import \/ AutoMount \/ Mount \/ AddCatchAll \/ Apply \/ Serve

StartupSpec == StartupInit /\ [][StartupNext]_startupVars

Up == todo = <<>> /\ site.installed

(******************************** properties *******************************)
(* However the process is entered and its applications are ordered, the    *)
(* application is mounted behind everything Django answers itself          *)
(* (mount/auto.py, maybe_auto_mount), and once; but where the hook of the  *)
(* package is at work and Django comes first, what mounting calls may have *)
(* mounted before it.                                                      *)
CatchAllLast ==
  Up /\ MountEnabled =>
    LET CatchAlls == {k \in DOMAIN urls.patterns : urls.patterns[k] = CatchAll} IN
    /\ Len(urls.patterns) \in CatchAlls
    /\ \A k \in CatchAlls : k .. Len(urls.patterns) \subseteq CatchAlls
    /\ boot.door = "reflex" \/ ~boot.pth => CatchAlls = {Len(urls.patterns)}

(* The admin's URLs are put together after every model was registered with *)
(* it, or its pages are missing; unless code of the user has Reflex        *)
(* configured before the admin is discovered.                              *)
AdminComplete ==
  Up /\ Admin \in Range(urls.patterns) /\ ~site.hasty => urls.complete

(* With the catch-all mounted for the user and no prefixes of his own,     *)
(* what the backend sends to Django is what Django has URLs for and what   *)
(* the catch-all leaves out: a path has one who answers it.                *)
DispatchAgrees ==
  Up /\ MountEnabled /\ boot.prefix = Unset /\ CatchAll \notin Range(boot.urls) =>
    /\ reflexApp.dispatchers \in {<<>>, <<Discovered(urls.patterns)>>}
    /\ urls.spared = Discovered(urls.patterns)

=============================================================================
