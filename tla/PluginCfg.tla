------------------------------ MODULE PluginCfg ------------------------------
(***************************************************************************)
(* plugincfg.cpp: the settings, which all panels share, their file         *)
(* config.ini, and the dialog that changes them.  Column layouts and       *)
(* messages are left out.                                                  *)
(***************************************************************************)
EXTENDS Naturals, FiniteSets

CONSTANT None  \* the plugin is not started, or nothing was saved

Panels == {"ifaces", "routes"}      \* NetCfgPlugin::panel
Menus  == {"disk", "plugins"}       \* openFrom
Multicast == {"mcinet", "mcinet6"}  \* sub-panels that can be switched off
LogFiles  == {"tmp", "typed", "/dev/null"}

VARIABLES
  cfg,       \* the settings and the log file, None while the plugin is not started
  ini,       \* config.ini
  kept,      \* history: the dialog as it was when it last saved, None before
  fresh,     \* history: no dialog since the start
  typedOff   \* history: the log file was named in a dialog that left logging off

cfgVars == << cfg, ini, kept, fresh, typedOff >>

Settings == [menu : [Menus -> SUBSET Panels], multicast : SUBSET Multicast,
             logEnable : BOOLEAN, logfile : LogFiles]

ASSUME NoneAssumption == None \notin Settings \cup Panels

Defaults == [menu |-> [m \in Menus |-> Panels], multicast |-> Multicast,
             logEnable |-> TRUE, logfile |-> "tmp"]

\* PluginCfg(), the first of a life of the plugin.
Read(saved) ==
  LET s == IF saved = None THEN Defaults ELSE saved
  IN  IF s.logEnable THEN s ELSE [s EXCEPT !.logfile = "/dev/null"]

-----------------------------------------------------------------------------
(***************************************************************************)
(* The dialog: what is toggled, and the text of the log file.              *)
(***************************************************************************)

Boxes == (Menus \X Panels) \cup ({"multicast"} \X Multicast) \cup {<< "log", "enable" >>}

Toggled(S, boxes, row) ==
  {x \in Panels \cup Multicast : (x \in S) # (<< row, x >> \in boxes)}

\* The boxes and the text as they were when the dialog was closed.  That some are
\* enabled by others does not limit these: those can be switched back after.
Form(s, boxes, text) ==
  [menu |-> [m \in Menus |-> Toggled(s.menu[m], boxes, m)],
   multicast |-> Toggled(s.multicast, boxes, "multicast"),
   logEnable |-> s.logEnable # (<< "log", "enable" >> \in boxes),
   logfile |-> text]

\* What OK makes of it: logging that is switched off takes the file's name, a
\* text that was changed is a name again.
Applied(s, form) ==
  [form EXCEPT !.logfile =
     IF form.logfile # s.logfile THEN form.logfile
     ELSE IF s.logEnable /\ ~form.logEnable THEN "/dev/null" ELSE s.logfile]

\* SaveConfig: config.ini gets every setting, and the log file's name as it is now.
SaveConfig(settings, form) == ini' = settings /\ kept' = form

\* Slip: the box that saves is served before the others.
Slip_Configure(form, save) ==
  /\ cfg' = Applied(cfg, form)
  /\ IF save THEN SaveConfig(cfg, form) ELSE UNCHANGED << ini, kept >>
  /\ fresh' = FALSE
  /\ typedOff' = (~form.logEnable /\ (typedOff \/ form.logfile # cfg.logfile))

Configure(form, save) ==
  /\ cfg' = Applied(cfg, form)
  /\ IF save THEN SaveConfig(cfg', form) ELSE UNCHANGED << ini, kept >>
  /\ fresh' = FALSE
  /\ typedOff' = (~form.logEnable /\ (typedOff \/ form.logfile # cfg.logfile))

-----------------------------------------------------------------------------
\* GetPluginInfo: the panels in a menu, from its first entry to its last.
MenuStrings(s, m) ==
  CASE s.menu[m] = Panels     -> << "ifaces", "routes" >>
    [] s.menu[m] = {"ifaces"} -> << "ifaces" >>
    [] s.menu[m] = {"routes"} -> << "routes" >>
    [] OTHER                  -> << >>

\* Slip: an entry is opened by its place alone.
Slip_Opened(s, m, item) == IF item = 0 THEN "ifaces" ELSE "routes"

\* OpenPlugin, item counted from 0.
Opened(s, m, item) ==
  IF item = 1 \/ s.menu[m] = {"routes"} THEN "routes" ELSE "ifaces"

ReadSettings == /\ cfg' = Read(ini)
                /\ fresh' = TRUE /\ typedOff' = FALSE
                /\ UNCHANGED << ini, kept >>

DropSettings == /\ cfg' = None
                /\ fresh' = FALSE /\ typedOff' = FALSE
                /\ UNCHANGED << ini, kept >>

\* config.ini may be there from before.
CfgInit == /\ cfg = None
           /\ ini \in {None, [Defaults EXCEPT !.multicast = {}]}
           /\ kept = None /\ fresh = FALSE /\ typedOff = FALSE
=============================================================================
