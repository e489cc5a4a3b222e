---------------------------- MODULE InterfaceEdit ----------------------------
(***************************************************************************)
(* F4 on an interface: NetcfgInterfaces::EditInterface shows a dialog and  *)
(* runs an `ip` command for each cell the user has changed, one after the  *)
(* other, while NetInterface keeps its copy of the interface up to date    *)
(* for the commands that follow.  A command may fail, and those composed   *)
(* with && may stop half way.                                              *)
(*                                                                         *)
(* The dialog has a row for each IPv4 address in the copy, one to add an   *)
(* IPv4 address, and the same for IPv6.  Addresses and rows are numbered   *)
(* in the order of the dialog; row a shows address a.                      *)
(***************************************************************************)
EXTENDS Naturals, Sequences, FiniteSets

CONSTANTS
  Four, Six,    \* number of IPv4 and of IPv6 addresses in use
  Width,        \* bits of an IPv4 address
  Prefixes,     \* prefix lengths in use
  DefaultMask,  \* that of 255.255.255.0
  Names,        \* names of the interface
  Initially,    \* sets of addresses the interface may have at first
  Blank,        \* an empty cell, no entry
  Faulty,       \* whether commands fail for reasons of their own
  MaxCells,     \* bound: cells changed in one dialog
  MaxDialogs    \* bound: dialogs in a behaviour

ASSUME EditAssumption ==
  /\ Four \in Nat /\ Six \in Nat /\ Width \in Nat \ {0}
  /\ Prefixes \subseteq Nat /\ DefaultMask \in 0 .. Width
  /\ Faulty \in BOOLEAN /\ MaxCells \in Nat /\ MaxDialogs \in Nat

Add4 == Four + 1
Add6 == Add4 + Six + 1
Rows == 1 .. Add6
Addr == Rows \ {Add4, Add6}
IsSix(r) == r > Add4
OfFamily(r) == { a \in Addr : IsSix(a) = IsSix(r) }

Broadcast == {Blank, "limited", "own"}
Bits      == Prefixes \cup {0, Width, DefaultMask}
Cell      == [ip : Addr \cup {Blank}, mask : Bits \cup {Blank}, bc : Broadcast]
Entry     == [bits : Bits, bc : Broadcast]
Address   == [ip : Addr, bits : Bits, bc : Broadcast]

\* An empty cell is no address, prefix, broadcast address or entry.
ASSUME BlankAssumption == Blank \notin Nat \cup {"limited", "own"} \cup Entry

\* The kernel has no address twice with one prefix, an IPv6 address only once, and
\* no broadcast address with it.
ASSUME InitialAssumption ==
  /\ Initially \subseteq SUBSET Address
  /\ \A as \in Initially : \A x, y \in as :
       /\ x.ip = y.ip /\ (IsSix(x.ip) \/ x.bits = y.bits) => x = y
       /\ IsSix(x.ip) => x.bc = Blank

\* The cells of the dialog: those of the link, and three in each row.
NameCell    == << 0, 1 >>
MacCell     == << 0, 2 >>
UpCell      == << 0, 3 >>
PromiscCell == << 0, 4 >>
CellsOf(r)  == {r} \X (IF IsSix(r) THEN 1 .. 2 ELSE 1 .. 3)
Link        == [name : Names, mac : BOOLEAN, up : BOOLEAN, promisc : BOOLEAN]

VARIABLES
  pc,       \* "panel", "dialog", or "commands" while the change list is run
  kernel,   \* the kernel's interface: link and set of addresses
  net_if,   \* NetInterface: link and, by address, its entry
  fdc,      \* what the dialog showed first
  dlg,      \* what it holds now: link and rows
  text,     \* what may be read of a row's first text, the key of an entry: the
            \*     address, or Blank and more once the key has been freed
  todo,     \* the part of the change list that is still to be run
  change,   \* what EditInterface will return
  start,    \* history: the kernel when the dialog was opened,
  refused,  \* ... a command has failed for a reason of its own since,
  adrift,   \* ... one has stopped half way, or another program has changed
            \*     the interface, since the copy was last read
  dialogs   \* history: dialogs so far

history == << start, refused, adrift, dialogs >>
form    == << fdc, dlg >>
vars    == << pc, kernel, net_if, form, text, todo, change, history >>

TypeOK ==
  /\ pc \in {"panel", "dialog", "commands"}
  /\ kernel.link \in Link /\ kernel.addrs \subseteq Address
  /\ start.link \in Link /\ start.addrs \subseteq Address
  /\ net_if.link \in Link /\ fdc.link \in Link /\ dlg.link \in Link
  /\ net_if.ip \in [Addr -> Entry \cup {Blank}] /\ fdc.ip \in [Addr -> Entry \cup {Blank}]
  /\ dlg.rows \in [Rows -> Cell]
  /\ text \in [Addr -> SUBSET (Addr \cup {Blank})]
  /\ todo \subseteq {NameCell, MacCell, UpCell, PromiscCell} \cup UNION { CellsOf(r) : r \in Rows }
  /\ change \in BOOLEAN /\ refused \in BOOLEAN /\ adrift \in BOOLEAN
  /\ dialogs \in 0 .. MaxDialogs

-----------------------------------------------------------------------------
(***************************************************************************)
(* Masks.                                                                  *)
(***************************************************************************)

\* The prefix length IpMaskToBits reads from the mask IpBitsToMask has written:
\* that of a host address is lost, and the empty prefix shifts by the width of
\* the word, which is undefined.
Reread(a, bits) ==
  IF IsSix(a) \/ bits \in 1 .. Width - 1 THEN {bits}
  ELSE IF bits = 0 THEN {0, Width} ELSE {0}

Slip_MaskIn(r, row) == row.mask

\* A mask cell left empty.
MaskIn(r, row) ==
  IF row.mask # Blank THEN row.mask ELSE IF IsSix(r) THEN 0 ELSE DefaultMask

BroadcastIn(r, row) ==
  IF IsSix(r) THEN Blank ELSE IF row.bc = Blank THEN "limited" ELSE row.bc

-----------------------------------------------------------------------------
(***************************************************************************)
(* The panel.  Update reads the interface anew; netlink gives prefix       *)
(* lengths, which are kept as masks, getifaddrs the masks.                 *)
(***************************************************************************)

\* The copy n is one that Update can make of k.  Of several addresses that
\* differ in the prefix only one is kept.
Reads(n, k) ==
  /\ n.link = k.link
  /\ \A a \in Addr :
       LET here == { r \in k.addrs : r.ip = a }
       IN  IF here = {} THEN n.ip[a] = Blank
           ELSE n.ip[a] \in UNION { { [bits |-> b, bc |-> r.bc] :
                                       b \in Reread(a, r.bits) \cup {r.bits} } : r \in here }

Update ==
  LET entries == UNION { { [bits |-> b, bc |-> r.bc] : b \in Reread(r.ip, r.bits) \cup {r.bits} } :
                         r \in kernel.addrs }
  IN  \E ip \in [Addr -> entries \cup {Blank}] :
        /\ net_if' = [link |-> kernel.link, ip |-> ip]
        /\ Reads(net_if', kernel)

Shown(n, r) ==
  IF r \in Addr /\ n.ip[r] # Blank
  THEN [ip |-> r, mask |-> n.ip[r].bits, bc |-> n.ip[r].bc]
  ELSE [ip |-> Blank, mask |-> Blank, bc |-> Blank]

OpenDialog ==
  /\ pc = "panel" /\ dialogs < MaxDialogs
  /\ pc' = "dialog" /\ dialogs' = dialogs + 1
  /\ fdc' = net_if
  /\ dlg' = [link |-> net_if.link, rows |-> [r \in Rows |-> Shown(net_if, r)]]
  /\ text' = [r \in Addr |-> {r}] /\ change' = FALSE
  /\ start' = kernel /\ refused' = FALSE
  /\ UNCHANGED << kernel, net_if, todo, adrift >>

\* CreateChangeList
ChangeList ==
  { i \in {NameCell} : dlg.link.name # fdc.link.name }
    \cup { i \in {MacCell} : dlg.link.mac # fdc.link.mac }
    \cup { i \in {UpCell} : dlg.link.up # fdc.link.up }
    \cup { i \in {PromiscCell} : dlg.link.promisc # fdc.link.promisc }
    \cup UNION { LET row == dlg.rows[r]
                     was == Shown(fdc, r)
                 IN  { i \in {<< r, 1 >>} : row.ip # was.ip }
                       \cup { i \in {<< r, 2 >>} : row.mask # was.mask }
                       \cup { i \in {<< r, 3 >>} : row.bc # was.bc } : r \in Rows }

Type(dialog) ==
  /\ pc = "dialog" /\ dlg' = dialog
  /\ UNCHANGED << pc, kernel, net_if, fdc, text, todo, change, history >>
  /\ Cardinality(ChangeList') <= MaxCells

TypeLink ==
  \/ \E name \in Names : Type([dlg EXCEPT !.link.name = name])
  \/ Type([dlg EXCEPT !.link.mac = ~ @])
  \/ Type([dlg EXCEPT !.link.up = ~ @])
  \/ Type([dlg EXCEPT !.link.promisc = ~ @])

\* The dialog has no row for an address that is not in the copy.
TypeRow ==
  \E r \in Rows :
    /\ r \in Addr => fdc.ip[r] # Blank
    /\ \/ \E a \in OfFamily(r) \cup {Blank} : Type([dlg EXCEPT !.rows[r].ip = a])
       \/ \E m \in Prefixes \cup {Blank} : Type([dlg EXCEPT !.rows[r].mask = m])
       \/ \E b \in Broadcast : ~ IsSix(r) /\ Type([dlg EXCEPT !.rows[r].bc = b])

PressOk ==
  /\ pc = "dialog" /\ pc' = "commands"
  /\ ChangeList # {} /\ todo' = ChangeList
  /\ UNCHANGED << kernel, net_if, form, text, change, history >>

-----------------------------------------------------------------------------
(***************************************************************************)
(* The commands: what the kernel makes of each call of `ip`.               *)
(***************************************************************************)

\* An interface that goes down loses its IPv6 addresses.
Down(k)   == [k EXCEPT !.link.up = FALSE, !.addrs = { r \in @ : ~ IsSix(r.ip) }]
Up(k)     == [k EXCEPT !.link.up = TRUE]
Del(k, r) == [k EXCEPT !.addrs = { x \in @ : << x.ip, x.bits >> # << r.ip, r.bits >> }]
Add(k, r) == [k EXCEPT !.addrs = @ \cup {r}]

CanDel(k, r) == \E x \in k.addrs : << x.ip, x.bits >> = << r.ip, r.bits >>
CanAdd(k, r) == /\ r.ip # Blank
                /\ ~ \E x \in k.addrs : x.ip = r.ip /\ (IsSix(r.ip) \/ x.bits = r.bits)

\* The next cell of the change list.
Cell1st(i) ==
  /\ pc = "commands" /\ i \in todo
  /\ \A j \in todo : i[1] < j[1] \/ (i[1] = j[1] /\ i[2] <= j[2])
  /\ todo' = todo \ {i}

Slip_Returned(whole) == whole

Returned(whole) == change \/ whole

\* A command of Len(path) calls joined by &&, which take the kernel along the
\* path; it would accept the first `good` of them.  Done is what the program
\* does when the command has succeeded.
RootExec(path, good, Done) ==
  LET whole == Len(path)
      most  == IF net_if.link.name = kernel.link.name THEN good ELSE 0
  IN  \E n \in 0 .. most :
        /\ n < most => Faulty
        /\ kernel' = IF n = 0 THEN kernel ELSE path[n]
        /\ refused' = (refused \/ n < most)
        /\ adrift' = (adrift \/ n \in 1 .. whole - 1)
        /\ change' = Returned(n = whole)
        /\ IF n = whole THEN Done ELSE UNCHANGED << net_if, text >>
        /\ UNCHANGED << pc, form, start, dialogs >>

Skip == UNCHANGED << pc, kernel, net_if, form, text, change, history >>
Keep == UNCHANGED << net_if, text >>

-----------------------------------------------------------------------------
(***************************************************************************)
(* The link.                                                               *)
(***************************************************************************)

Slip_Renamed == net_if

Renamed == [net_if EXCEPT !.link.name = dlg.link.name]

SetInterfaceName ==
  LET down  == Down(kernel)
      named == [down EXCEPT !.link.name = dlg.link.name]
  IN  /\ Cell1st(NameCell)
      /\ RootExec(<< down, named, Up(named) >>, 3,
                  net_if' = Renamed /\ UNCHANGED text)

SetMac ==
  LET down == Down(kernel)
      set  == [down EXCEPT !.link.mac = dlg.link.mac]
  IN  /\ Cell1st(MacCell)
      /\ RootExec(<< down, set, Up(set) >>, 3, Keep)

SetUp ==
  /\ Cell1st(UpCell)
  /\ RootExec(<< IF dlg.link.up THEN Up(kernel) ELSE Down(kernel) >>, 1, Keep)

SetPromisc ==
  /\ Cell1st(PromiscCell)
  /\ RootExec(<< [kernel EXCEPT !.link.promisc = dlg.link.promisc] >>, 1, Keep)

-----------------------------------------------------------------------------
(***************************************************************************)
(* The addresses.                                                          *)
(***************************************************************************)

Slip_OldText(r) == {dlg.rows[r].ip}

\* What is read of the text a row showed first.
OldText(r) == text[r]

\* The key a is freed, and the addresses of `stored` become keys.  Memory that was
\* freed holds nothing useful, or a key that was stored since.
Freed(a, stored) ==
  [r \in Addr |-> IF Blank \in text[r] THEN text[r] \cup stored
                  ELSE IF r = a THEN {Blank} \cup stored ELSE text[r]]

Known(a) == a # Blank /\ net_if.ip[a] # Blank

\* What the dialog asks for in row r.
New(r) == [ip   |-> dlg.rows[r].ip,
           bits |-> MaskIn(r, dlg.rows[r]),
           bc   |-> BroadcastIn(r, dlg.rows[r])]

\* DeleteIp, DeleteIp6
DeleteIp(a) ==
  IF ~ Known(a) THEN Skip
  ELSE LET old == [ip |-> a, bits |-> net_if.ip[a].bits]
       IN  RootExec(<< Del(kernel, old) >>, IF CanDel(kernel, old) THEN 1 ELSE 0,
                    /\ net_if' = [net_if EXCEPT !.ip[a] = Blank]
                    /\ text' = Freed(a, {}))

\* AddIp, AddIp6
AddIp(new) ==
  IF Known(new.ip) THEN Skip
  ELSE RootExec(<< Add(kernel, new) >>, IF CanAdd(kernel, new) THEN 1 ELSE 0,
                /\ net_if' = [net_if EXCEPT !.ip[new.ip] = [bits |-> new.bits, bc |-> Blank]]
                /\ UNCHANGED text)

Slip_Rewritten(a, new) == { [bits |-> net_if.ip[a].bits, bc |-> Blank] }

\* The entry that takes the place of that of a: its mask is written anew, its
\* broadcast address left out.
Rewritten(a, new) == { [bits |-> b, bc |-> Blank] : b \in Reread(new.ip, new.bits) }

\* ChangeIp, ChangeIp6
ChangeIp(a, new) ==
  IF ~ Known(a) \/ (a = new.ip /\ net_if.ip[a] = [bits |-> new.bits, bc |-> new.bc]) THEN Skip
  ELSE LET old     == [ip |-> a, bits |-> net_if.ip[a].bits]
           without == Del(kernel, old)
       IN  RootExec(<< without, Add(without, new) >>,
                    IF ~ CanDel(kernel, old) THEN 0 ELSE IF CanAdd(without, new) THEN 2 ELSE 1,
                    /\ \E entry \in Rewritten(a, new) :
                         net_if' = [net_if EXCEPT !.ip[a] = Blank, !.ip[new.ip] = entry]
                    /\ text' = Freed(a, {new.ip}))

DeleteRow ==
  \E r \in Addr :
    /\ Cell1st(<< r, 1 >>) /\ dlg.rows[r].ip = Blank
    /\ \E a \in OldText(r) : DeleteIp(a)

AddRow ==
  \E r \in {Add4, Add6} : \E i \in CellsOf(r) : Cell1st(i) /\ AddIp(New(r))

ChangeRow ==
  \E r \in Addr : \E i \in CellsOf(r) :
    /\ Cell1st(i) /\ (i[2] = 1 => dlg.rows[r].ip # Blank)
    /\ \E a \in OldText(r) : ChangeIp(a, New(r))

\* Cancel, or OK with nothing changed.
Cancel ==
  /\ pc = "dialog" /\ pc' = "panel"
  /\ UNCHANGED << kernel, net_if, form, text, todo, change, history >>

\* EditInterface returns; the panel is read again when a command succeeded.
Return ==
  /\ pc = "commands" /\ todo = {}
  /\ pc' = "panel"
  /\ IF change THEN Update /\ adrift' = FALSE ELSE UNCHANGED << net_if, adrift >>
  /\ UNCHANGED << kernel, form, text, todo, change, start, refused, dialogs >>

Init ==
  /\ pc = "panel"
  /\ kernel \in [link : Link, addrs : Initially]
  /\ \E k \in [link : {kernel.link}, addrs : Initially] :
       /\ net_if \in [link : {k.link}, ip : [Addr -> Entry \cup {Blank}]] /\ Reads(net_if, k)
       /\ adrift = (k # kernel)
  /\ fdc = net_if /\ dlg = [link |-> net_if.link, rows |-> [r \in Rows |-> Shown(net_if, r)]]
  /\ text = [r \in Addr |-> {r}] /\ todo = {} /\ change = FALSE
  /\ start = kernel /\ refused = FALSE /\ dialogs = 0

Next ==
  \/ OpenDialog \/ TypeLink \/ TypeRow \/ PressOk \/ Cancel
  \/ SetInterfaceName \/ SetMac \/ SetUp \/ SetPromisc
  \/ DeleteRow \/ AddRow \/ ChangeRow
  \/ Return

Spec == Init /\ [][Next]_vars

-----------------------------------------------------------------------------
(***************************************************************************)
(* What must hold.                                                         *)
(***************************************************************************)

Edited == { r \in Rows : CellsOf(r) \cap ChangeList # {} }
Done   == pc = "commands" /\ todo = {}
Bounce == {NameCell, MacCell} \cap ChangeList # {}

\* The copy and the kernel have the same addresses, with the same prefix.
FitIn(as, n, k) ==
  \A a \in as :
    LET here == { r \in k.addrs : r.ip = a }
    IN  IF n.ip[a] = Blank THEN here = {} ELSE { r.bits : r \in here } = {n.ip[a].bits}

Fits(n, k) == n.link = k.link /\ FitIn(Addr, n, k)

\* The addresses that keep their place when the link goes down and up.
Lasting == IF Bounce \/ UpCell \in ChangeList THEN { a \in Addr : ~ IsSix(a) } ELSE Addr

\* Every prefix asked for survives being written as a mask and read again.
Plain == \A r \in Edited : Reread(r, New(r).bits) = {New(r).bits}

\* Each row asks for an address that no other row has or had.
Independent ==
  /\ \A r \in Edited : LET a == dlg.rows[r].ip
                        IN  a \in {r, Blank} \/ ~ \E x \in start.addrs : x.ip = a
  /\ \A r, s \in Edited : r # s => dlg.rows[r].ip # dlg.rows[s].ip \/ dlg.rows[r].ip = Blank

\* The same of the broadcast addresses the copy shows.
Accurate(n, k) ==
  \A a \in Addr : n.ip[a] # Blank => { r.bc : r \in { x \in k.addrs : x.ip = a } } = {n.ip[a].bc}

\* While the commands of a dialog are run the copy follows the kernel, so that
\* the next command names the address and the prefix the kernel has ("we need
\* update ip and mask for next commands", NetInterface::ChangeIp): for prefixes
\* other than the empty one and that of a host, unless a command has failed.
CopyFollows ==
  pc = "commands" /\ Fits(fdc, start) /\ Plain /\ Independent /\ ~ refused
    => FitIn(Lasting, net_if, kernel)

\* The same for every prefix, as long as there is a next command.
MaskFollows ==
  pc = "commands" /\ todo # {} /\ Fits(fdc, start) /\ Independent /\ ~ refused
    => FitIn(Lasting, net_if, kernel)

\* The address x is also asked for by another row, with a prefix that is x's own
\* after it was written as a mask and read again.
Mistaken(x) ==
  \E r \in Edited : dlg.rows[r].ip = x.ip /\ x.bits \in Reread(x.ip, New(r).bits) \ {New(r).bits}

\* An IPv4 address whose row the user has left alone outlives the commands of
\* EditInterface, whichever of them fail, unless it is mistaken for one of
\* another row.
UntouchedSurvive ==
  Done => \A x \in start.addrs : \/ x.ip \in Edited \/ IsSix(x.ip) \/ Mistaken(x)
                                 \/ x \in kernel.addrs

\* When EditInterface has run the whole change list with no refusal the
\* interface is what the dialog showed, provided that the copy was accurate,
\* no row asks for an address another row has or had, no prefix is lost in its
\* mask, and the link was not down, and to stay so, when renamed or given a MAC.
EditTakesEffect ==
  /\ Done /\ Fits(fdc, start) /\ Accurate(fdc, start) /\ ~ refused /\ Plain /\ Independent
  /\ Bounce => start.link.up \/ dlg.link.up
  => /\ kernel.link = dlg.link
     /\ \A r \in Edited :
          r \in Lasting \cup {Add4} \/ (r = Add6 /\ Lasting = Addr)
          => /\ \A a \in {dlg.rows[r].ip} \ {Blank} : New(r) \in kernel.addrs
             /\ r \in Addr => \A x \in kernel.addrs : x.ip = r => x = New(r)

\* Back at the panel the copy is a reading of the kernel: EditInterface reports
\* every change but those of a command that stopped half way.
PanelFollows == pc = "panel" /\ ~ adrift => Reads(net_if, kernel)
=============================================================================
