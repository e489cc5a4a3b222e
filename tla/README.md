# Verification of netcfgplugin

netcfgplugin is a panel plugin of the far2l file manager. It shows the network
interfaces and the routing data of the host as file panels and changes them by
running `ip` commands. This directory holds TLA+ modules of the program (its Linux
build), TLC configurations that check them on small instances, and proofs for TLAPS.
Line numbers below are of `src/src/` unless said otherwise.

## 1. Inventory

| component | state it keeps | operations | talks to |
|---|---|---|---|
| entry points (`farconnect.cpp`), plugin object (`netcfgplugin.cpp`) | one panel object of each kind for the life of the process | open, close, find data, keys | host, panels |
| route panels (`netcfgroutes.cpp`, `netcfgiproutes.cpp`, `netcfgiptables.cpp`, `netcfgrules.cpp`, `netcfgarp.cpp`, `farpanel.cpp`) | active sub-panel, "reload is due" flag, per family: what is shown, what was shown before, table; edit dialogs' working copies | F2 reload, F6 switch, F7 settings, F3 rules, Enter, F8, F4, Shift-F4, list building | route store, commands, host |
| route store (`netroute/netroutes.cpp`) | deques of routes, rules, neighbours, index-to-name map, forwarding flags | Update by netlink or by /proc/net, Clear, forwarding switches | netlink, files |
| route commands (`netroute/netroute.cpp`) | none (methods of the records) | create, delete, change | `ip` |
| netlink dumps (`common/netlink.c`) | socket, sequence number, receive buffer, record array | open, request and receive a dump, close | kernel |
| interface panel (`netcfginterfaces.cpp`, `netfarpanel.cpp`) | reload flag | F2, F4 edit, F5 and F6 tcpdump, list building | interface store, configuration |
| interface store (`netif/`) | interfaces with addresses, running captures | Update by netlink, /proc; set name, MAC, flags, MTU, addresses; captures | netlink, files, `ip`, tcpdump |
| configuration (`plugincfg.cpp`) | static column and title definitions, instance count, settings | load, save, dialog | host, config.ini |
| dialog helper (`fardialog.cpp`) | items of a dialog | change list | host |
| conversions (`common/netutils.c`, `sizestr.c`) | none | masks, prefixes, sizes | - |
| names and logs (`errname.c`, `log.c`) | log file name | formatting | - |

The program has one thread. It is driven by the host's callbacks; a key handler runs to
its end, including the nested update of the panel it asks for. What makes it hard is not
threads but

* the host, which keeps copies of item lists whose user data are raw pointers into the
  store, for every panel that is open, while there is a single panel object;
* the kernel, which changes on its own between two dumps and answers dumps in datagrams
  that may be stale, interrupted, or carry the end together with data;
* failures half way: of one of two commands, of a reader that then hands over to another,
  of a reload that must stay due;
* state that is set in one handler and used in a later one (`oldPanel`, `change`,
  `table`, `new_nh`, the record array of netlink);
* dialogs in which buttons write the working copy at once and texts after OK, over records
  whose fields are read only where a `valid` bit says so.

What makes each part correct: a key works on a live record of the class its handler
expects; what is shown is what the store holds; a change to the kernel is reloaded or its
reload stays due; what OK makes is what the dialog showed; a successful load leaves only
what the kernel had during it, named consistently; what runs on its own is in a list;
settings that were saved are those of the next start; a dump is answered with records of its own,
ended properly; every call comes back. PROJECT.json lists the hazards line by line.

## 2. Modules

| module | models | role |
|---|---|---|
| `RouteStore` | the data of `struct NetRoutes` and every outcome of one `Update` | shared vocabulary; the abstract `Update` |
| `RoutesPanel` | the route panels as the host drives them, with store, kernel and views | core |
| `RoutesPanel_proofs` | - | theorems about `RoutesPanel` |
| `MCRoutesPanel` | - | small instances |
| `NetRoutesLoad` | the steps of `Update` interleaved with the kernel | shows when `RouteStore`'s `Update` may be taken as one step |
| `MCNetRoutesLoad` | - | small instances |
| `NetlinkDump` | socket, dump, buffer and record array of `netlink.c` | |
| `InterfaceEdit` | the edit dialog of an interface and the commands it runs | |
| `MCInterfaceEdit` | - | small instances |
| `Dump` | what `GetRoutes` and its siblings promise | abstract specification of `NetlinkDump` |
| `NetRoutesLoad_proofs`, `NetlinkDump_proofs`, `InterfaceEdit_proofs`, `RecordEdit_proofs`, `Plugin_proofs` | - | theorems about the modules they are named for |
| `InterfaceEdit_effect_proofs` | - | what an edit of an interface comes to; extends `InterfaceEdit_proofs` |
| `RecordEdit` | F4 and Shift-F4 on a route, rule or neighbour: dialog, working copy, commands | composes the three dialogs |
| `RouteDialog`, `RuleDialog`, `NeighDialog`, `EncapDialog` | what each dialog shows and makes, what each command says (the last is part of the first) | pure operators |
| `MCRecordEdit` | - | records for the run |
| `InterfacesPanel` | the panel of interfaces, its store and its captures | actions for `Plugin` |
| `PluginCfg` | the settings, `config.ini`, the dialog, the entries in the host's menus | actions for `Plugin` |
| `Plugin` | start, end, opening, closing; composes the two above and the choice of the route panel's sub-panel | the life of the plugin |
| `MCPlugin` | - | a small instance |

Operators named `Slip_...` are plausible mistakes in the definition that follows them. No
action uses one; put in place of that definition, each makes a property fail.

### RoutesPanel

`active`, `change`, `panel`, `oldPanel`, `table` are the fields of `NetcfgRoutes` and
`NetcfgIpRoute`; `nrts` is the store: the set of its records (`objs`), those that came from
/proc/net (`bare`, which have neither a table nor any `valid` bit), and the forwarding
flags. `list[v]` is what the host holds for view `v`: the kind of the items, the records
their pointers go to, the directories, and whether the pointers are still good (`live`,
lost when the store is cleared). `kernel` and `kernelFwd` are the other side. A record is a
value; `Class` says which deque it belongs to.

One action is one handler with all it causes. A handler that asks for a redraw ends in
`Redisplay`: `FCTL_UPDATEPANEL` looks the view up by the plugin handle, which all views
share, so any open view may be the one that is filled; filling it (`GetFindData`) reloads if
`change` is set, and the reload may end in any way `RouteStore!Update` allows. `unsynced`
and `halfDone` are history variables.

Delete commands name less than a record: `Named` gives records one command does not tell
apart, and for a record from /proc/net the command is `ip route del default` (`Fits`). A
change is a delete and a create (`EditDone`, `EditHalfDone`); which record the dialog makes
of the old one is left open: any of the same class.

An action stops where the code would use a pointer that is not good (`Trusted`); the
invariant `TrustedLists` says whether that can happen.

### NetRoutesLoad

`pc` walks through `NetRoutes::Update`: netlink socket, dump of routes, the walk over it
(one step per route, each asking the kernel for its interface's name), rules, neighbours,
proxies, links; on failure the three /proc files; last the two forwarding files. `iface`
and `ifs` are the names stored with records and in the map. Records come and go, interfaces
appear, vanish (taking their records along) and are renamed, forwarding is switched, at any
point. `Alien` are routes of families the walk has no case for.

### NetlinkDump

One socket and the requests on it. A datagram is a sequence of messages; `EnumMsg` walks
it twice, to count and to store. The buffer's size is in messages. `Faults` and `Forms` say
what the run lets go wrong: interrupted dumps, an end in one datagram with data, failing
calls, an empty message; messages too short, or cut so that their attributes do not add up.
A record carries the number of moves of the buffer at the time it was stored (`at`): it can
be read as long as the buffer has not moved since.

`Dump` is the service a caller needs: `asked` is the open request, `answer` what the last one
returned, which lasts until the next request, since that is built in the same buffer. The
mapping takes `asked` from `pc` and `want`, and reads `answer` through its pointers, 0 for one
that is no longer good.

### InterfaceEdit

`net_if` is the program's copy of one interface, `kernel` the interface; `fdc` and `dlg`
are what the dialog showed first and shows now, `todo` the part of the change list not yet
run, in the order of the dialog's items. Rows and IPv4, IPv6 addresses are numbered alike:
row a shows address a, `Add4` and `Add6` are the rows that add one. A prefix in the copy is
what `IpMaskToBits` makes of the stored mask (`Reread`).

Every cell of the change list is one step: `EditInterface` picks the setter, the setter
composes one command, the command is one to three calls of `ip` joined by `&&`. `RootExec`
lets the kernel accept a prefix of the calls; with `Faulty` it may stop earlier. Texts the
dialog showed first are pointers to keys of the copy (`fardialog.cpp:24`). `text[a]` is what may be
read through that of row a: the address itself, or once its key has been erased (`Freed`)
`Blank`, which stands for whatever names no address, and every key that a change has stored
since in the freed memory. `SetPromisc` stands for multicast, allmulticast,
ARP and MTU too, which are composed alike. Interfaces are of the broadcast kind.

`adrift` says that the copy is known to be off: a command stopped half way, or (at first)
another program changed the interface after the copy was read.

The limits the properties name: `Independent` (no row asks for an address that another row
has or had), `Plain` (no prefix is lost in its mask), `Accurate` (the copy shows the broadcast
address the kernel has: `ChangeIp` is skipped when the row looks like the copy), `Lasting` (the
addresses that a link going down keeps), `Mistaken` (a prefix typed in one row becomes, in the
copy, that of the address of another row it asks for, which its next cell then deletes).

### RecordEdit and the dialogs

A record is a sequence of sections, each a record of attributes: a route's own attributes
and one section for each next hop; rules and neighbours have one section. The value 0 is
an attribute whose `valid` bit is off, others stand for values; `Unset` is memory nobody
wrote. `dlg` holds the working copy (`work`: `new_rt`, `new_r`, `new_a`), what the widgets
show (`form`), what they showed first (`shown`) and the member `change`, which belongs to
the dialog of the encapsulation. `new_nh` outlives the dialog; the route's form has one
section for it.

A button writes to the working copy when its menu answers (`Pick`) or is left (`Leave`);
texts and boxes change the form (`Type`) and reach the copy at OK (`Filled`). `Made` is the
set of records the kernel may have after the create command that the working copy gives:
attributes the command does not name take the kernel's default, unset ones any value; the
set is empty when the command is refused for what it says: a family of neither kind, an
encapsulation that is not there, a unicast route or a hop without a way out (`NoWayOut`), `goto
none` or both l3mdev and a table (`Rule!Refused`), a neighbour without address or device. A value
that was typed wrong is refused too; that is among the failures any command may have. What can differ
between the form and the record that is made is named attribute by attribute in `Surprises`: these are
the places where the code does something other than it shows, and `MadeAsShown` says there are no more.
`held` is `new_nh` as the dialog found it, by which `Surprises` knows what the section of the
new hop, drawn empty, hides. The records the kernel may have are `IsRoute`, `IsRule` and
`IsNeigh`; the samples of the run are checked to be such (`SamplesAssumption`).

`EncapDialog` keeps the layout of the union: `Bit` gives two types' fields the same valid
bit, and writing a field of one layout unsets those of the other.

### InterfacesPanel, PluginCfg and Plugin

`net` and `running` are the kernel's interfaces (with the flag promiscuous) and the
processes of tcpdump; `nifs`, `change`, `tcpdump` are the store, the panel's flag and its
list of captures. `Update` gives every way a load may end: netlink failing before or after
links were stored, a dump that lost records, `getifaddrs` failing, which leaves what is
stored. A key ends in `GetFindData` when it asks for a redraw and in `NoRedraw` when not.
`TcpDumpStop` takes the loop at `netif/netifs.cpp:1040` as it is: it erases the entry whose
text it compares the next ones with, so that with a short name, whose text lies inside the
string, any later entry may go; `Longer` are the names the pattern of `pkill` also fits.

`cfg` are the settings while the plugin is started, `ini` the file. `Form` is the dialog at
the moment it is closed, `Applied` what OK makes of it, in the order of the dialog's items.
`Plugin` adds what the host calls: `SetStartupInfoW`, `ExitFARW`, `OpenPlugin`,
`ClosePlugin`, `ConfigureW`, `ProcessKey`. `panels` are the sub-panels of the panel of
routes, built once at the start; F6's menu (`SelectActivePanel`) lists those the settings
allow now and answers with a place. `behind`, `lost`, `outer`, `asked`, `refused`,
`strayed`, `kept`, `fresh`, `typedOff` and `picked` are history variables: no guard reads them.
`lost` says that F6, or F4 without a result, took back a due reload; it ends with the next
that is tried. `asked` is the promiscuous flag a capture was to have, nothing once others or an edit
changed it or `SetPromisc` left its command out for a store others had made stale; `refused` are the
interfaces where that command failed. `CapturesKnown` has the flag asked for on all other
interfaces, and on every listed one the flag the panel shows, unless others changed the interfaces
since the load.

## 3. What the runs check

| run | result |
|---|---|
| `panel_one` | One view, no other program: `TrustedLists`, `ListShowsStore`, `NoGhosts`, `RulesHaveExit` and `TypeOK` hold over every order of keys and every outcome of readers and commands. |
| `panel_two` | Two views, another program: `UnsyncedIsPending`, `ForwardingSynced` hold. |
| `load_changes` | Up to two changes of the kernel anywhere in successive loads, dumps broken off anywhere: `NamesAgree`, `LinksCover`, `FreshRecords` hold of every load that succeeds. `AtomicWhenQuiet` holds of the loads nothing disturbs, which is what `RoutesPanel` assumes. `LoadEndsAmongKnown`: a load comes back unless it meets a multicast route. |
| `dump_faults` | Whatever goes wrong: the caller's walk ends inside the array, meets only records of its own request in order, and `GetInfo` returns. `NetlinkDump` implements `Dump`: an answer lacks records only when messages were lost, and has unreadable ones only when the buffer was moved. |
| `edit_dialog` | One dialog, two changed cells anywhere, commands failing anywhere, copy accurate or not: `PanelFollows` always holds; `UntouchedSurvive` but for an address that is `Mistaken` for another row's; `CopyFollows` and `EditTakesEffect` when the rows do not interfere, prefixes survive as masks and no command is refused, the second also only when the copy's broadcast addresses are right and a link that is renamed is not to stay down. |
| `record_dialogs` | Two dialogs on a route, a rule or a neighbour: `MadeAsShown`, `HiddenKept`, `HopsAsMarked`, `IdleRunsNothing`, `RefusedForReason`, `EncapAsShown`: what is made is what was shown; a next hop object, an encapsulation that was not opened and a rule's action are kept; nothing else runs and nothing is refused, each with the exceptions named below. |
| `plugin_lives` | Two lives of the plugin, keys in the panel of interfaces, settings and outside events in any order: `ReloadStaysDue`, `CapturesKnown`, `SettingsHold`, `OpensNamed` hold, with the exceptions they name. |
| `panel_views` | *violated*: with two far panels on the object a key in one can use records the other has had cleared, or of another class. |
| `panel_default` | *violated*: F8 on any route that came from /proc/net deletes the default route. |
| `dump_end` | *violated*: records in the datagram that ends the dump are dropped. |
| `load_multicast` | *violated*: a multicast route keeps the load from ever coming back. |
| `edit_mask` | *violated*: after a row was given prefix 32 its next cell works on prefix 0. |

Met while modelling, part of the models, and not made runs of their own:

* routes without a table are counted both for table 0 and for the total, which is also
  entry 0 (`netcfgiptables.cpp:66`);
* a delete command does not name the gateway, so of two routes to one destination the
  kernel may delete the one not selected (`netroute/netroute.cpp:648`, `Hit`). No property notices
  which of them went: what tells them apart is not in the command. What is said of the
  list and the reload holds whichever it is;
* a change whose create fails has deleted the record, and nothing is redrawn
  (`netroute/netroute.cpp:1098`, `EditHalfDone`);
* a datagram with only messages of an earlier, interrupted dump ends the next request
  (`common/netlink.c:1121`, `EnumMsg`);
* swapping two addresses in one dialog deletes the first and then cannot add the second,
  which is still there (`netif/netif.cpp:915`): the conditions `Independent`;
* a row given prefix 0 or that of a host is read back as the other one; if it was also given
  the address of another row, whose prefix that is, its next cell deletes that address,
  although the user left it alone (`common/netutils.c`, `Reread`, `Mistaken`);
* where the copy has another broadcast address than the kernel, typing the copy's is no change
  and the command is left out (`ChangeIp`, `Accurate`);
* a renamed interface ends up with the link up and without its IPv6 addresses
  (`netif/netifset.h:349`): the conditions `Bounce`, `Lasting`;
* enlarging the receive buffer moves it from under the records stored before
  (`common/netlink.c:1686`; the unreadable records of `Dump`);
* a menu left with Esc clears the valid bit of family, device, interface, or reads a scope
  or protocol from the button's text as a number (`netcfgiproutes.cpp`, `netcfgrules.cpp:224`,
  `Left`); the menu of a rule's protocols is given the valid bit as the protocol
  (`netcfgrules.cpp:274`);
* a new rule has the tos, the action and the ends of ranges that were in memory
  (`netroute/netroute.cpp:314`, `Rule!Blank`);
* the fields of an encapsulation share memory and valid bits with those of another type, the
  ttl of mpls is written over its valid bit, and a shorter text keeps the end of the longer
  one (`netcfgiproutes.cpp:447`, `Apply`, `Copied`);
* a box with a hidden twin counts as changed once it is drawn checked, so OK in an untouched
  dialog deletes and creates the record (`fardialog.cpp:493`, `Twins`); Cancel after
  an encapsulation was changed does the same (`netcfgiproutes.cpp:961`, `Cancel`);
* an edit deletes the record also when what the dialog left cannot be created: a rule's goto that was
  emptied leaves its action, said as `goto none` (`netcfgrules.cpp:509`), l3mdev can be entered
  beside a table, a neighbour's address or device and the way out of a route or a hop can be emptied
  (`netcfgarp.cpp:195`, `netcfgiproutes.cpp:956`; `RefusedForReason`);
* an edit loses what the create command has no words for: a route's preferred source, its source
  prefix and its preference, which the dialog shows (`Surprises`), and what it does not show and the
  models leave out: metrics other than the priority, realms of a next hop, flags beyond onlink and
  pervasive, a neighbour's vlan, port, vni and master (`netroute/netroute.cpp:184`, `474`, `735`);
* a next hop marked in one dialog is appended again by the next edit
  (`netcfgiproutes.cpp:956`, `new_nh`);
* what was chosen for the new hop in a dialog that was cancelled stays in `new_nh`: the next
  edit shows its section empty and, when the hop is marked there, makes it with the old values
  (`held` in `Surprises`);
* in a hop, `SelectEncap` sets or clears the bit behind the box at once; a box that is then
  as it was at first is no change, so the bit stays against what the box shows; a box that is
  checked while no encapsulation is chosen leaves a create command that is refused
  (`netcfgiproutes.cpp:723`, `Encapsulated`, `Surprises`, `RefusedForReason`);
* F6, and F4 without a result, take back a reload that was due (`netcfginterfaces.cpp:695`,
  `NoRedraw`);
* stopping a capture may take another entry with it, and a stop that fails leaves a capture
  nobody lists (`netif/netifs.cpp:1040`, `strayed`); so does the end of the plugin;
* nobody looks whether the promiscuous flag could be set: a capture for which that failed starts all
  the same, without the flag it was asked to have (`netif/netifs.cpp:1022`, `refused`);
* F6 of the routes can open one multicast sub-panel for the other after the settings changed
  (`netcfgroutes.cpp:125`);
* switching the log off overwrites the name of its file, also in `config.ini`, and a file
  that is named in the same dialog is logged to although the log is off
  (`plugincfg.cpp:586`, `Applied`, `typedOff`).

### Bounds and why they suffice

* Panels: two to four records with one of each class that differs in treatment (two routes
  of different tables, a rule, a neighbour). The
  handlers treat records of one class alike and never more than one at a time, except F8,
  for which two are enough. `MenuPicks` keeps F6 to the sub-panels that differ, `Toggles`
  F7 to one switch, `External` other programs to one record. Two views are enough for
  one to disturb the other; they are interchangeable (symmetry is used in `panel_two`
  and `panel_views`, runs of invariants only).
* Loads: a route and a neighbour on different interfaces and a rule, so that the netlink
  reader can store all, some or none of them before it hands over; two names and two
  events (`MaxEvents`), so that an interface can vanish and another take its name within
  one load. One multicast route is enough to hold a load up. `Switches` keeps the events on
  the forwarding files to one of the two.
* Dumps: two requests, so that one can leave messages behind for the next; dumps of up to
  two records (three in `dump_end`) and in `dump_faults` a buffer of one message, so that array
  and buffer are grown within and between dumps and a record can be stored before the buffer
  moves. The proofs have no such bounds.
* Interfaces: two IPv4 addresses and one IPv6 address, so that a row can ask for one that
  another has; a host prefix, the empty one, a plain one and the default; two changed cells
  (`MaxCells`), which can be of one row, of two, or one of the link. Three sets of addresses
  to begin with: one address, the same with another broadcast address, and one of each kind,
  one of them with the empty prefix. Kernel and copy start with any two of them. (Three cells take minutes;
  what holds of any number of them is proved.) One dialog (`MaxDialogs`): what an earlier one can leave behind
  for a second is a copy that is off, with which the run also starts.
* Record dialogs: two, with two widgets used in both together (`MaxTouches`), over nine
  records chosen so that each attribute the dialogs treat specially occurs: a value typed
  and a menu left, or an encapsulation and a box, are enough for the exceptions to meet, and
  the second dialog is what the first can leave something for. (That a new route gives up the hop an
  earlier dialog marked would take three widgets to see; the theorem about `HopsAsMarked` covers
  it.) `MaxValue` is 2, so that a text can be shorter than another. `port` stands for the two port ranges of a rule, `addr`
  and `flag` for several fields of an encapsulation; a new rule's tos is 0 or the largest.
* Lives: two starts, two interfaces the name of one of which begins with that of the other
  and is short, a list of two captures. `MaxWork` allows three keys or outside events, or
  one with a settings dialog, or two such dialogs; each dialog toggles one box
  (`MaxTouches`) and may name a log file. Three keys are what it takes to start two captures
  and stop one.

### Assumptions

The host copies the items of a list and frees the original before any other call, and looks
a view up by the handle. A key refers to the view it was pressed in. Memory allocation
succeeds. A forwarding file or /proc file that opens holds what the kernel writes there.
`RootExec` either runs the command or reports failure; a command that is reported as failed
has had no effect. The kernel keeps no record on an interface that is gone, and gives no
two interfaces one name. A dump is a snapshot in `NetRoutesLoad`; whether its datagrams are
consistent is the kernel's matter. Deleting an IPv4 address leaves the others
of its subnet (`promote_secondaries`); a link that goes down loses its IPv6 addresses. The
reload after an edit succeeds (`InterfaceEdit`; `InterfacesPanel` has the one that fails).
A command in the background counts as run. A host that ends the plugin and starts it again
has loaded the library anew: a second start in one image would find static strings that
were freed. Interfaces are not promiscuous at first; `config.ini` is missing or has the
multicast panels off. Only the Linux branches are modelled.

### Fairness

Safety runs need none. `load_changes` and `load_multicast`: weak fairness of the steps of a load, since the single
thread runs until the call returns; a step that only repeats itself is no progress, which
is how the endless loop shows. `dump_faults`: weak fairness of the
kernel going on with a dump it has begun and of `GetInfo` taking a datagram that is there.
Deadlock is not checked in the `NetlinkDump`, `InterfaceEdit` and `record_dialogs` runs
because their number of requests or dialogs is bounded and the system stops after the last
one; nor in `plugin_lives`, where the host need not start the plugin again.

## 4. What is proved

All theorems hold for every value of the constants. The assumptions are those the modules
name at their constants, which TLC evaluates in the runs.

`RoutesPanel_proofs` (any sets of views and records, any tables, both configuration
switches; `StoreAssumption`, `ConstantsAssumption`):

* `TypeCorrect`, `RulesAlwaysHaveExit`, `UnsyncedAlwaysPending`, `ForwardingAlwaysSynced`.
  The inductive invariant is `Safe`, the conjunction of the four. `RulesHaveExit` has to
  be in it: F3 copies `oldPanel` into `panel`, so without it the type of `panel` is not
  preserved. Lemmas give the type and the facts of `Update` (`UpdateFacts`), carry them
  through `GetFindData` (`GetFindDataRefreshes`) and state once what the end of any
  handler keeps (`SafeAfter`, `SafeQuiet`); the step proof then has a case per handler.
* `NoGhostsAlways`, when no other program changes the kernel (`External = {}`).
* `LoneViewTrusted` and `LoneViewShowsStore`, when there is a single view: `TrustedLists` and
  `ListShowsStore`. Their invariant `Current` says that the list of the view is the listing of the present store
  and modes, or the view is closed, or (after Ctrl-Enter on a table) shows directories.
  That the assumption is needed is what `panel_views` shows.

`NetRoutesLoad_proofs` (any records, interfaces, names and number of changes of the kernel;
`LoadAssumption`):

* `LoadTypeCorrect`, `LoadedAlwaysFresh`, `NamesAlwaysAgree`, `LinksAlwaysCover`. The
  properties speak of the end of a call, so the invariant `LoadSafe` says for every `pc`
  what has been stored by then: `Fresh` that it is of this call, `Cover` that its
  interfaces exist or were lost during it, `Names` that the last reader overrules the names
  stored before. `Cover` needs `World`: the kernel has no record on an interface that is gone.
* `CallsAreAtomic`: `AtomicWhenQuiet`, the fact that lets `RoutesPanel` take `Update` as one
  step. `Atomic` says for every `pc` of an undisturbed call which outcome of
  `RouteStore!Update` it is on its way to (`Requested`, `GaveUp`, `Parsed`, `ReadWell`,
  `Ended`).

`Plugin_proofs` (any interfaces, names that begin with others, captures and number of lives;
`InterfacesAssumption`, `NoneAssumption`):

* `PluginTypeCorrect`, `ReloadAlwaysDue`, `CapturesAlwaysKnown`, `SettingsAlwaysHold`,
  `MenusOpenNamed`. The invariant has a part for each of the composed components.
  `IfaceSafe`: `Follow` says that the store is part of what the kernel has unless others
  changed it, without which `SetPromisc`, which trusts the store, would not leave the flag
  as asked; `Due` and `Kept` are the properties themselves, with `lost` and `refused`. `CfgSafe`:
  `Saved` says that `config.ini` is the dialog that was saved, which a start turns into `SettingsHold`. `MenuSafe`: `Built` says that the sub-panels are those of
  some settings, so that the first three places name the same in all of them. Its steps use
  the other parts only through `cfg`, so each is shown inductive on its own.

`NetlinkDump_proofs` (any number of requests, records, sizes of the buffer, forms and faults;
`NetlinkDumpAssumption`):

* `TypeCorrect`, `AnswersTerminated`, `AnswersOwnRecords`, from one invariant, `IInv`.
  `ShapeInv` says what a datagram can be: about one request, with consecutive records of which
  only the first may be damaged, anything else last. `FlowInv` follows the records of the open
  request from the dump through the queue into the array: what is stored comes before what is
  queued, that before what is still to be sent. `totalmsg` has to be below all of these, since the
  size of the array is taken from it. `StoreInv` says what the array holds, with the null
  record after the last one whenever `info` is set; `AnswerInv` carries that to the answer.
  `RefusedInv` is needed because a refused request has a dump of another sequence number on the
  socket, which must not pass for its own.
* `StepsImplement`: the initial state is one of `Dump`, and every step is a step of `Dump` or
  leaves its variables alone: all of `Implements` but the fairness of `Reply`. `WholeInv` is what
  a complete answer needs: when nothing was lost the records follow each other without a gap, and
  the last datagram on its way is the end. A datagram may have any length: lemmas give what
  `EnumMsg`, `Walked` and `Kept` make of one of the form `Datagram`, without an induction,
  because only its first and its last message can be special.

Two things the refinement rests on a run with a large buffer would pass over: an answer lasts only
until the next request, and a move of the buffer spoils the records stored before it, not those after.

`RecordEdit_proofs` (any samples, values, next hops, dialogs and widgets used;
`RecordEditAssumption`, `SamplesAssumption`):

* `TypeCorrect`, `OkMakesWhatIsShown`, `EditKeepsHidden`, `MadeWithCheckedHops`,
  `NoChangeNoCommand`, `LostForReason`, `EncapsulationAsShown`. All but the last speak of a dialog that is
  closed, so the invariant `IInv` says what holds while it is open, section by section
  (`MainOk`, `HopOk`, `NewOk`, `RuleSec`, `NeighSec`): texts and boxes are still in the working
  copy as they were first shown, a button says what is in the working copy unless its menu was
  left. `RouteKept` and `RuleKept` tie the working copy to the record, for what is not shown.
  `marked` is the bit in `new_nh`, which alone lives from one dialog to the next, and the
  kernel's record stays one a command can make (`IsRecord`): without that an
  edit of what an earlier edit made could not be reasoned about. `Ok` and `Cancel` establish
  the properties (`Reports`) from it. Lemmas give the order of the marked hops (`InOrderIs`),
  so that the i-th hop made is the i-th that is checked.

`InterfaceEdit_proofs` (any numbers of addresses, prefixes, cells and dialogs;
`EditAssumption`, `BlankAssumption`; `InitialAssumption` describes the kernel and is not used):

* `EditTypeCorrect`. `Typed` says what the records of `TypeOK` are made of;
  `NoSixBroadcast`, that the dialog never changes the third cell of an IPv6 row, has to
  be shown with it: the change list would otherwise have cells that no command takes.
* `PanelAlwaysFollows`: `Follows` says that the copy is a reading of the kernel until a
  command has succeeded; `CommandExecuted` gives for all commands at once that one which
  succeeds is reported and one that fails leaves the kernel alone or the copy adrift.
* `RowsLeftAloneSurvive`, with any command failing and any text freed. A command of another row
  can name an address left alone when the text it reads was freed (`Freed`); `Spared` says that the copy
  then has no such address or another prefix for it, so that what is deleted is not there. Proving it
  showed the exception `Mistaken`.

`InterfaceEdit_effect_proofs` (the same constants and assumptions):

* `CopyAlwaysFollows`, `EditAlwaysTakesEffect`. Both are about the end of a list of commands, so the
  invariant `RowsFollow` says how far each row is. Within the limits of the properties a row owns
  two addresses, the one it showed and the one it asks for. They are as the dialog found them
  while the row waits (`Waiting`, `ToAdd`), and as it asks for them afterwards (`Carried`, `Placed`);
  `Same` is a row whose command is left out because the copy shows it so already. `TextFollows`
  says what may be read of a freed text, namely nothing useful or the row's own addresses, so that no
  command reaches those of another row. `LinkFollows` does the same for the link. The proof
  needs no bound on the cells, and showed that without `Accurate` the second is false.

Every invariant of a run that passes is stated by a theorem. Only model-checked: liveness
(`Returns`, `LoadEndsAmongKnown` and the fairness in `Implements`), since ENABLED and fairness are out
of the prover's reach; `TrustedLists` and `ListShowsStore` with several views, where the first
fails and the theorems assume a single view.

## 5. Done, left and not modelled

Every part of the program with state of its own that outlives a call is in a module. The
panel of interfaces in `InterfacesPanel` and the dialog in `InterfaceEdit` are not composed:
the panel needs of an edit only whether a command succeeded, and `PanelFollows` is what the
dialog guarantees it. `RoutesPanel` likewise takes an edit as any record of the same class,
and `RecordEdit` says which.

Left for a next step: that `NetRoutesLoad` takes steps of `RouteStore`'s `Update` also while the
kernel changes, as a refinement; what of `TrustedLists` survives with several views, when all of them
show the same kind of records; one run that composes the record dialogs with two views.

Not modelled:

* names of constants and the log (`errname.c`, `log.c`), the texts of lists, the wording
  and the length of commands: formatting, nothing reads it back;
* the options of geneve, vxlan and erspan encapsulations, which the dialog shows as texts and
  the commands repeat;
* attributes of records that only lists read (metrics, cache data, statistics);
* masks and sizes as functions beyond what a prefix that is stored as a mask and read again
  becomes (`Reread` in `InterfaceEdit`);
* column layouts and messages of `plugincfg.cpp`; names of log files too short or too long
  to be taken;
* the lifetime of the item lists of rules in `FreeFindData` (`netcfgrules.cpp:643`): every
  execution meets it in the same order, so there is nothing to interleave;
* memory that cannot be allocated, the macOS and FreeBSD branches.
