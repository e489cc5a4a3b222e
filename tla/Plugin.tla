------------------------------- MODULE Plugin --------------------------------
(***************************************************************************)
(* farconnect.cpp and netcfgplugin.cpp: the life of the plugin in its      *)
(* host.  It composes the settings, the panel of interfaces and, of the    *)
(* panel of routes, which sub-panel it shows (the rest is RoutesPanel's).  *)
(* A host that starts the plugin again has loaded the library again.       *)
(***************************************************************************)
EXTENDS InterfacesPanel, PluginCfg

CONSTANTS
  MaxLives,    \* bound: starts
  MaxWork,     \* bound: a key or an outside event counts 2, a settings dialog 3
  MaxTouches   \* bound: boxes toggled in a settings dialog

ASSUME PluginAssumption ==
  MaxLives \in Nat /\ MaxWork \in Nat /\ MaxTouches \in Nat

VARIABLES
  view,    \* what the host shows: a panel, or None
  panels,  \* the sub-panels of NetcfgRoutes
  active,  \* the one that is shown
  picked,  \* history: what was last chosen in a menu of the host, and in F6's
  count    \* for the bounds

pluginVars == << view, panels, active, picked >>
vars == << ifaceVars, cfgVars, pluginVars, count >>

Work(w) == count.work + w =< MaxWork /\ count' = [count EXCEPT !.work = @ + w]

\* The sub-panels that are not switched off: those NetcfgRoutes() makes, and the
\* entries of F6's menu.
SubPanels(s) == << "inet", "inet6", "arp" >>
                  \o (IF "mcinet" \in s.multicast THEN << "mcinet" >> ELSE << >>)
                  \o (IF "mcinet6" \in s.multicast THEN << "mcinet6" >> ELSE << >>)

-----------------------------------------------------------------------------
SetStartupInfoW ==
  /\ cfg = None
  /\ count.lives < MaxLives /\ count' = [count EXCEPT !.lives = @ + 1]
  /\ ReadSettings
  /\ NewPanel
  /\ panels' = SubPanels(cfg') /\ active' = 1
  /\ view' = None /\ picked' = [menu |-> None, sub |-> "inet"]
  /\ UNCHANGED kernelVars

\* The panels are destroyed.  Captures go on, and nobody knows of them.
ExitFARW ==
  /\ cfg # None
  /\ DropSettings
  /\ NewPanel
  /\ view' = None /\ panels' = << >> /\ active' = 1
  /\ picked' = [menu |-> None, sub |-> "inet"]
  /\ UNCHANGED << kernelVars, count >>

\* An entry of a menu; the panel is listed at once.
OpenPlugin(m, item) ==
  /\ cfg # None /\ view = None
  /\ item < Len(MenuStrings(cfg, m))
  /\ view' = Opened(cfg, m, item)
  /\ picked' = [picked EXCEPT !.menu = MenuStrings(cfg, m)[item + 1]]
  /\ IF view' = "ifaces"
     THEN /\ UNCHANGED << kernelVars, tcpdump, asked, refused, strayed >>
          /\ GetFindData(change, behind, outer)
     ELSE UNCHANGED ifaceVars
  /\ UNCHANGED << cfgVars, panels, active, count >>

ClosePlugin == /\ cfg # None /\ view # None
               /\ view' = None
               /\ UNCHANGED << ifaceVars, cfgVars, panels, active, picked, count >>

ConfigureW(boxes, text, save) ==
  /\ cfg # None
  /\ Work(3)
  /\ Configure(Form(cfg, boxes, text), save)
  /\ UNCHANGED << ifaceVars, pluginVars >>

\* ProcessKey with the panel of interfaces.
IfaceKey ==
  /\ cfg # None /\ view = "ifaces"
  /\ Work(2)
  /\ \/ Reread
     \/ \E n \in Names : EditInterface(n) \/ TcpdumpInterface(n)
     \/ StopCapture
  /\ UNCHANGED << cfgVars, pluginVars >>

\* Slip: the menu's answer is taken as it is.
Slip_SelectActivePanel(i) ==
  /\ cfg # None /\ view = "routes"
  /\ Work(2)
  /\ i \in DOMAIN SubPanels(cfg)
  /\ active' = i
  /\ picked' = [picked EXCEPT !.sub = SubPanels(cfg)[i]]
  /\ UNCHANGED << ifaceVars, cfgVars, view, panels >>

\* F6 of the panel of routes: the place of the title in the menu.
SelectActivePanel(i) ==
  /\ cfg # None /\ view = "routes"
  /\ Work(2)
  /\ i \in DOMAIN SubPanels(cfg) \cap DOMAIN panels
  /\ active' = i
  /\ picked' = [picked EXCEPT !.sub = SubPanels(cfg)[i]]
  /\ UNCHANGED << ifaceVars, cfgVars, view, panels >>

Outside == \E n \in Names : /\ Work(2)
                            /\ Event(n)
                            /\ UNCHANGED << cfgVars, pluginVars >>

Init ==
  /\ IfaceInit /\ CfgInit
  /\ view = None /\ panels = << >> /\ active = 1
  /\ picked = [menu |-> None, sub |-> "inet"]
  /\ count = [lives |-> 0, work |-> 0]

Next ==
  \/ SetStartupInfoW \/ ExitFARW \/ ClosePlugin
  \/ \E m \in Menus, item \in {0, 1} : OpenPlugin(m, item)
  \/ \E boxes \in SUBSET Boxes, text \in LogFiles, save \in BOOLEAN :
       /\ Cardinality(boxes) =< MaxTouches
       /\ cfg # None /\ text \in {cfg.logfile, "typed", "tmp"}
       /\ ConfigureW(boxes, text, save)
  \/ IfaceKey
  \/ \E i \in 1 .. 5 : SelectActivePanel(i)
  \/ Outside

Spec == Init /\ [][Next]_vars

-----------------------------------------------------------------------------
(***************************************************************************)
(* Properties.                                                             *)
(***************************************************************************)

\* A type invariant; nothing else is claimed by it.
TypeOK ==
  /\ net \in Stores /\ nifs \in Stores /\ running \subseteq Names
  /\ change \in BOOLEAN /\ behind \in BOOLEAN /\ lost \in BOOLEAN /\ outer \in BOOLEAN
  /\ tcpdump \in Seq(Names) /\ Len(tcpdump) =< MaxCaptures
  /\ asked \in [Names -> SUBSET BOOLEAN] /\ refused \subseteq Names /\ strayed \subseteq Names
  /\ cfg \in Settings \cup {None} /\ ini \in Settings \cup {None}
  /\ view \in Panels \cup {None} /\ (cfg = None => view = None)
  /\ active = 1 \/ active \in DOMAIN panels

\* The panel of interfaces is behind a command of its own, or behind a load that
\* failed, only while a reload is due, or after a key took it back, until one is
\* tried again: F6 always does, and F4 when nothing came of it.
ReloadStaysDue == cfg # None /\ behind => change \/ lost

\* What F5 promised is so.  A capture that runs is in the list F6 offers, except
\* those whose stop failed or that were left by an earlier life of the plugin;
\* and an interface is as promiscuous as its last capture asked for, if nobody
\* else changed it, except where the command failed, which stops no capture and is
\* told nobody.  Whatever became of it, the panel shows the flags the interfaces it
\* lists really have, unless others have changed the interfaces since.
CapturesKnown ==
  cfg # None =>
    /\ running \subseteq ToSet(tcpdump) \cup strayed
    /\ \A n \in DOMAIN net : asked[n] \subseteq {net[n]} \/ n \in refused
    /\ \A n \in DOMAIN nifs : outer \/ nifs[n] = net[n]

\* The plugin starts as its dialog was when it was last saved, and logs to a file
\* only when logging is on, or when the file was named in the dialog that left
\* it off.
SettingsHold ==
  cfg # None =>
    /\ fresh /\ kept # None =>
         /\ cfg.menu = kept.menu /\ cfg.multicast = kept.multicast
         /\ cfg.logEnable = kept.logEnable
         /\ cfg.logEnable => cfg.logfile = kept.logfile
    /\ cfg.logEnable \/ cfg.logfile = "/dev/null" \/ typedOff

\* The panel that opens is the one the menu's entry names, and the sub-panel that
\* is shown the one that was chosen in F6's menu.  Only of the multicast panels
\* one may show for the other, when the settings changed since they were made.
OpensNamed ==
  cfg # None =>
    /\ view # None => view = picked.menu
    /\ \/ panels[active] = picked.sub
       \/ ~fresh /\ {panels[active], picked.sub} \subseteq Multicast
=============================================================================
